------------------------------- MODULE Handlers -------------------------------
(***************************************************************************)
(* The handlers of several nodes that talk to each other.  A node dials    *)
(* the bootstraps it has cached, a first exchange ends with a discovery    *)
(* request that names its entrypoints, and the response names bootstraps   *)
(* that the other has cached, which are dialed in turn.  Queries and       *)
(* requests for information are flooded by what is not part of the code;   *)
(* when a tracker gives up (see Await) is left open.                       *)
(*                                                                         *)
(* Of an exchange (see PeerExchange) there is the connection and how it    *)
(* ends; sessions last, and the handling of a message by the core thread   *)
(* is one step.  Addresses go by the node that is bound to them: what an   *)
(* accepted session has for its peer is neither stored nor told.           *)
(***************************************************************************)
EXTENDS Naturals, Sequences, FiniteSets

CONSTANTS
    Node,
    Setup       \* how the nodes may be configured

Protocol == {"TCP", "LoRa"}
Entry == [protocol : Protocol, node : Node]
Bound(protocol, n) == [protocol |-> protocol, node |-> n]

(* Handler::Type, and the phases of each: the answer of a tracker takes    *)
(* the phase behind the request's.                                         *)
Command == {"Connect", "Query", "Information", "Election"}
Phase == {"Discovery", "Join", "Flood", "Respond", "Aggregate", "Close", "Probe"}

(* configured[n]: the protocols of n's endpoints; known[n]: its defaults   *)
(* and what its peers file holds; dials: nodes told to use bootstraps;     *)
(* contained: <<m, n>> if n's authority is part of the text of m's uri;    *)
(* requests: what is sent once, from outside of the code.                  *)
ASSUME SetupAssumption ==
    \A s \in Setup :
       /\ s.configured \in [Node -> {protocols \in SUBSET Protocol : "TCP" \in protocols}]
       /\ s.known \in [Node -> SUBSET Entry]
       /\ \A n \in Node : \A e \in s.known[n] : e.protocol \in s.configured[n]
       /\ s.dials \subseteq Node
       /\ s.contained \subseteq Node \X Node
       /\ s.requests \subseteq [source : Node, to : Node, command : Command, phase : Phase]

VARIABLES
    setup,      \* the configuration, one of Setup
    process,    \* where each node's main is
    bootstraps, \* m_upProtocols of each PeerPersistor
    scheduled,  \* connect events of each client endpoint, and their coroutines
    connected,  \* <<n, m>>: n's client endpoint tracks m's uri
    exchanging, \* of those, the ones whose first exchange has not ended
    peers,      \* <<n, m>>: n has authorized m
    incoming,   \* m_incoming of each AuthorizedProcessor
    awaiting,   \* the requests that each TrackingManager tracks
    requested,  \* requests that were sent
    handled     \* history: <<p, n>>: n has handled p's request for discovery

handlersVars == <<setup, process, bootstraps, scheduled, connected, exchanging, peers,
                  incoming, awaiting, requested, handled>>

-------------------------------------------------------------------------------
Of(protocol, entries) == {e \in entries : e.protocol = protocol}

(* GenerateDiscoveryData: the bindings of all that is configured.          *)
GenerateDiscoveryData(n) == {Bound(protocol, n) : protocol \in setup.configured[n]}

Message(command, phase, p, entries) ==
    [command |-> command, phase |-> phase, source |-> p, entries |-> entries]
DiscoveryRequest(p) == Message("Connect", "Discovery", p, GenerateDiscoveryData(p))
DiscoveryResponse(p, entries) == Message("Connect", "Join", p, entries)
Attempt(e, identified) == [entry |-> e, identified |-> identified]

HandlersInit ==
    /\ setup \in Setup
    /\ process = [n \in Node |-> "main"]
    /\ bootstraps = setup.known
    /\ scheduled = [n \in Node |-> {}]
    /\ connected = {}
    /\ exchanging = {}
    /\ peers = {}
    /\ incoming = [n \in Node |-> <<>>]
    /\ awaiting = [n \in Node |-> {}]
    /\ requested = {}
    /\ handled = {}

(***************************************************************************)
(* EndpointManager::Initialize creates endpoints for TCP only, and the     *)
(* client endpoint is given the cached bootstraps of its protocol.         *)
(***************************************************************************)
ConnectBootstraps(n) ==
    IF n \in setup.dials THEN {Attempt(e, FALSE) : e \in Of("TCP", bootstraps[n])} ELSE {}

Launch(n) ==
    /\ process[n] = "main"
    /\ process' = [process EXCEPT ![n] = "running"]
    /\ scheduled' = [scheduled EXCEPT ![n] = ConnectBootstraps(n)]
    /\ UNCHANGED <<setup, bootstraps, connected, exchanging, peers, incoming,
                   awaiting, requested, handled>>

(***************************************************************************)
(* The client endpoint.                                                    *)
(***************************************************************************)
(* GetEndpointEntries has the authorities of the node's own bindings, and  *)
(* a uri that contains one anywhere is taken for the node itself.          *)
Reflects(n, e) ==
    /\ e.protocol = "TCP"
    /\ e.node = n \/ <<e.node, n>> \in setup.contained

Duplicates(n, e) == e.protocol = "TCP" /\ <<n, e.node>> \in connected
IsAllowableUri(n, e) == ~Reflects(n, e) /\ ~Duplicates(n, e)

Takes(n, a) ==
    /\ process[n] = "running"
    /\ a \in scheduled[n]
    /\ scheduled' = [scheduled EXCEPT ![n] = @ \ {a}]

Ignore(n, a) ==
    /\ ~IsAllowableUri(n, a.entry)
    /\ Takes(n, a)
    /\ UNCHANGED <<setup, process, bootstraps, connected, exchanging, peers, incoming,
                   awaiting, requested, handled>>

(* Nothing listens at an address that is not one of TCP, or where no       *)
(* process runs.                                                           *)
Reachable(e) == e.protocol = "TCP" /\ process[e.node] = "running"

ConnectFailsAgain(n, a) ==           \* mutant: an attempt that fails is scheduled again
    /\ process[n] = "running"
    /\ a \in scheduled[n]
    /\ IsAllowableUri(n, a.entry)
    /\ ~Reachable(a.entry)
    /\ scheduled' = [scheduled EXCEPT ![n] = (@ \ {a}) \cup {Attempt(a.entry, ~a.identified)}]
    /\ UNCHANGED <<setup, process, bootstraps, connected, exchanging, peers, incoming,
                   awaiting, requested, handled>>

ConnectFails(n, a) ==
    /\ IsAllowableUri(n, a.entry)
    /\ ~Reachable(a.entry)
    /\ Takes(n, a)
    /\ UNCHANGED <<setup, process, bootstraps, connected, exchanging, peers, incoming,
                   awaiting, requested, handled>>

(* The session is tracked and its first message on the way.                *)
ConnectPeer(n, a) ==
    /\ IsAllowableUri(n, a.entry)
    /\ Reachable(a.entry)
    /\ Takes(n, a)
    /\ connected' = connected \cup {<<n, a.entry.node>>}
    /\ exchanging' = exchanging \cup {<<n, a.entry.node>>}
    /\ UNCHANGED <<setup, process, bootstraps, peers, incoming, awaiting, requested, handled>>

(* The exchange of two nodes that succeeds is the one that sends a request; *)
(* with a node that is authorized it ends with a heartbeat.                *)
SendRequest(n, m) ==
    incoming' = IF <<n, m>> \in peers THEN incoming
                ELSE [incoming EXCEPT ![m] = Append(@, DiscoveryRequest(n))]

(* Both persistors hear of the peer, but only the session that has dialed  *)
(* has an address that can be used as a bootstrap.                         *)
ExchangeEnds(n, m) ==
    /\ <<n, m>> \in exchanging
    /\ exchanging' = exchanging \ {<<n, m>>}
    /\ peers' = peers \cup {<<n, m>>, <<m, n>>}
    /\ bootstraps' = [bootstraps EXCEPT ![n] = @ \cup {Bound("TCP", m)}]
    /\ SendRequest(n, m)
    /\ UNCHANGED <<setup, process, scheduled, connected, awaiting, requested, handled>>

(* Two nodes that have dialed each other may both have accepted before     *)
(* either has heard an answer, which they then refuse.  Either may have    *)
(* linked the peer to its own session first.                               *)
ExchangesFail(n, m) ==
    LET both == {<<n, m>>, <<m, n>>}
    IN  /\ both \subseteq exchanging
        /\ both \cap peers = {}
        /\ exchanging' = exchanging \ both
        /\ \E linked \in SUBSET both :
              bootstraps' = [x \in Node |-> bootstraps[x] \cup
                                {Bound("TCP", y) : y \in {z \in Node : <<x, z>> \in linked}}]
        /\ UNCHANGED <<setup, process, scheduled, connected, peers, incoming, awaiting,
                       requested, handled>>

(***************************************************************************)
(* The core thread.                                                        *)
(***************************************************************************)
NextMessage(n, command, phases) ==
    /\ process[n] = "running"
    /\ incoming[n] # <<>>
    /\ Head(incoming[n]).command = command
    /\ Head(incoming[n]).phase \in phases

(* ForEachCachedBootstrap reads an uninitialized result behind an empty    *)
(* set and may end there: protocols are visited in an unspecified order.   *)
ForEachCachedBootstrap(n, entries) ==
    LET present == {protocol \in setup.configured[n] : Of(protocol, entries) # {}}
        visited == IF present = setup.configured[n] THEN {present} ELSE SUBSET present
    IN  {{e \in entries : e.protocol \in protocols} : protocols \in visited}

(* SendResponse, to a peer whose session has not gone with its process.    *)
SendResponse(n, p, message) ==
    incoming' = [incoming EXCEPT ![n] = Tail(@),
                                 ![p] = IF process[p] = "running" THEN Append(@, message) ELSE @]

StoresNone(n, entries) == bootstraps' = bootstraps      \* mutant: entrypoints are dialed only
AddBootstrapEntries(n, entries) ==
    bootstraps' = [bootstraps EXCEPT ![n] = @ \cup entries]

HandleDiscoveryRequest(n) ==
    LET p == Head(incoming[n]).source
        entries == Head(incoming[n]).entries
    IN  /\ NextMessage(n, "Connect", {"Discovery"})
        /\ \A e \in entries : e.protocol \in setup.configured[n]
        /\ AddBootstrapEntries(n, entries)
        /\ scheduled' = [scheduled EXCEPT ![n] =
                            @ \cup {Attempt(e, TRUE) : e \in Of("TCP", entries)}]
        /\ \E known \in ForEachCachedBootstrap(n, bootstraps'[n]) :
              SendResponse(n, p, DiscoveryResponse(n, known))
        /\ handled' = handled \cup {<<p, n>>}
        /\ UNCHANGED <<setup, process, connected, exchanging, peers, awaiting, requested>>

(* The protocol is not listed: AddBootstrapEntry gives it a null set, and  *)
(* Serialize ends the process at it.                                       *)
EndsProcess(n) ==
    /\ NextMessage(n, "Connect", {"Discovery"})
    /\ \E e \in Head(incoming[n]).entries : e.protocol \notin setup.configured[n]
    /\ process' = [process EXCEPT ![n] = "ended"]
    /\ scheduled' = [scheduled EXCEPT ![n] = {}]
    /\ incoming' = [incoming EXCEPT ![n] = <<>>]
    /\ connected' = {c \in connected : c[1] # n /\ c[2] # n}
    /\ exchanging' = {c \in exchanging : c[1] # n /\ c[2] # n}
    /\ peers' = {c \in peers : c[1] # n}
    /\ awaiting' = [awaiting EXCEPT ![n] = {}]
    /\ UNCHANGED <<setup, bootstraps, requested, handled>>

(* Every entry goes to the client endpoint of the message's protocol.      *)
HandleDiscoveryResponse(n) ==
    /\ NextMessage(n, "Connect", {"Join"})
    /\ scheduled' = [scheduled EXCEPT ![n] =
                        @ \cup {Attempt(e, FALSE) : e \in Head(incoming[n]).entries}]
    /\ incoming' = [incoming EXCEPT ![n] = Tail(@)]
    /\ UNCHANGED <<setup, process, bootstraps, connected, exchanging, peers, awaiting,
                   requested, handled>>

Endpoint(n) ==
    \/ \E a \in scheduled[n] : Ignore(n, a) \/ ConnectFails(n, a) \/ ConnectPeer(n, a)
    \/ \E m \in Node : ExchangeEnds(n, m) \/ ExchangesFail(n, m)

ConnectHandler(n) ==
    HandleDiscoveryRequest(n) \/ EndsProcess(n) \/ HandleDiscoveryResponse(n)

-------------------------------------------------------------------------------
untouched == <<setup, process, bootstraps, scheduled, connected, exchanging, peers, handled>>

(* A request from a peer that runs, of which the code has no sender.       *)
PeerRequests(r) ==
    /\ r \in setup.requests \ requested
    /\ <<r.source, r.to>> \in peers
    /\ process[r.source] = "running"
    /\ process[r.to] = "running"
    /\ requested' = requested \cup {r}
    /\ incoming' = [incoming EXCEPT ![r.to] = Append(@, Message(r.command, r.phase, r.source, {}))]
    /\ UNCHANGED <<untouched, awaiting>>

(* The notice that the peers would answer is built, and goes nowhere.      *)
FloodHandler(n, command) ==
    /\ NextMessage(n, command, {"Flood"})
    /\ awaiting' = [awaiting EXCEPT ![n] = @ \cup {[source |-> Head(incoming[n]).source, command |-> command]}]
    /\ incoming' = [incoming EXCEPT ![n] = Tail(@)]
    /\ UNCHANGED <<untouched, requested>>

(* An aggregate arrives in this phase too, and is answered with a reading. *)
RespondHandler(n) ==
    /\ NextMessage(n, "Query", {"Respond"})
    /\ SendResponse(n, Head(incoming[n]).source, Message("Query", "Aggregate", n, {}))
    /\ UNCHANGED <<untouched, awaiting, requested>>

(* Its message names no tracker, as the aggregate named none.              *)
AggregateHandler(n) ==
    /\ NextMessage(n, "Query", {"Aggregate"})
    /\ SendResponse(n, Head(incoming[n]).source, Message("Query", "Close", n, {}))
    /\ UNCHANGED <<untouched, awaiting, requested>>

Drops(n, command, phases) ==
    /\ NextMessage(n, command, phases)
    /\ incoming' = [incoming EXCEPT ![n] = Tail(@)]
    /\ UNCHANGED <<untouched, awaiting, requested>>

QueryHandler(n) ==
    \/ FloodHandler(n, "Query")
    \/ RespondHandler(n)
    \/ AggregateHandler(n)
    \/ Drops(n, "Query", {"Close"})

InformationHandler(n) ==
    \/ FloodHandler(n, "Information")
    \/ Drops(n, "Information", {"Respond", "Close"})

ElectionHandler(n) == Drops(n, "Election", Phase)

HandleMessage(n) ==
    ConnectHandler(n) \/ QueryHandler(n) \/ InformationHandler(n) \/ ElectionHandler(n)

(* A tracker that is fulfilled or out of time goes; the phase behind that  *)
(* of a flood is the one in which a peer is asked to respond.              *)
ProcessFulfilledRequests(n) ==
    \E t \in awaiting[n] :
       /\ process[n] = "running"
       /\ awaiting' = [awaiting EXCEPT ![n] = @ \ {t}]
       /\ incoming' = [incoming EXCEPT ![t.source] =
                          IF process[t.source] = "running"
                          THEN Append(@, Message(t.command, "Respond", n, {})) ELSE @]
       /\ UNCHANGED <<untouched, requested>>

HandlersNext ==
    \/ \E n \in Node :
          Launch(n) \/ Endpoint(n) \/ HandleMessage(n) \/ ProcessFulfilledRequests(n)
    \/ \E r \in setup.requests : PeerRequests(r)

(* The worker and the core thread of a node that runs go on.               *)
HandlersFairness ==
    \A n \in Node :
       /\ WF_handlersVars(Endpoint(n))
       /\ WF_handlersVars(HandleMessage(n))
       /\ WF_handlersVars(ProcessFulfilledRequests(n))

HandlersSpec == HandlersInit /\ [][HandlersNext]_handlersVars /\ HandlersFairness

-------------------------------------------------------------------------------
HandlersTypeOK ==
    /\ setup \in Setup
    /\ process \in [Node -> {"main", "running", "ended"}]
    /\ bootstraps \in [Node -> SUBSET Entry]
    /\ scheduled \in [Node -> SUBSET [entry : Entry, identified : BOOLEAN]]
    /\ connected \in SUBSET (Node \X Node)
    /\ exchanging \subseteq connected
    /\ peers \in SUBSET (Node \X Node)
    /\ \A n \in Node : \A k \in DOMAIN incoming[n] :
          incoming[n][k] \in [command : Command, phase : Phase, source : Node, entries : SUBSET Entry]
    /\ awaiting \in [Node -> SUBSET [source : Node, command : Command]]
    /\ requested \subseteq setup.requests
    /\ handled \in SUBSET (Node \X Node)

(* z has been asked by both, reads all of its cache to them, and neither   *)
(* takes the other for itself.                                             *)
Introduced(x, y) ==
    /\ \E z \in Node :
          /\ <<x, z>> \in handled
          /\ <<y, z>> \in handled
          /\ setup.configured[z] = {"TCP"}
    /\ <<x, y>> \notin setup.contained
    /\ <<y, x>> \notin setup.contained

(* Two nodes that have asked the same node become peers of each other,     *)
(* whichever of them asked first (Connect.cpp:250, 314), unless a process  *)
(* ends or both have dialed the other, so that both exchanges may fail.    *)
IntroducedBecomePeers ==
    \A x, y \in Node :
       x # y => (Introduced(x, y) ~> \/ {<<x, y>>, <<y, x>>} \subseteq peers
                                     \/ {<<x, y>>, <<y, x>>} \subseteq connected
                                     \/ process[x] = "ended" \/ process[y] = "ended")

(* Requests cause attempts and attempts requests, and answers are taken    *)
(* for questions (Query.cpp:145): in the end there is nothing left to do   *)
(* for any node, and no exchange is left without an end.                   *)
NodesQuiet ==
    <>[](/\ exchanging = {}
         /\ \A n \in Node : scheduled[n] = {} /\ incoming[n] = <<>> /\ awaiting[n] = {})

(***************************************************************************)
(* What comments and assertions claim, and the code does not keep.         *)
(***************************************************************************)
(* An attempt that is refused as reflective would be a connection to       *)
(* oneself, says IsAllowableUri.                                           *)
ReflectionMeansSelf ==
    \A n \in Node : \A a \in scheduled[n] : Reflects(n, a.entry) => a.entry.node = n

(* ScheduleConnect of the TCP endpoint asserts an address of TCP.          *)
AttemptsAreTcp == \A n \in Node : \A a \in scheduled[n] : a.entry.protocol = "TCP"

===============================================================================
