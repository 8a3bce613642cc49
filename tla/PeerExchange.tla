----------------------------- MODULE PeerExchange -----------------------------
(***************************************************************************)
(* How two brypt nodes find, authenticate and lose each other: the dialing *)
(* coroutine of the TCP endpoint, PeerManager's table of resolving and of  *)
(* tracked peers, the SecurityMediator and ExchangeProcessor of a peer     *)
(* with the PQNISTL3 strategy they drive, the AuthorizedProcessor that     *)
(* replaces them, and the discovery exchange the core thread answers.      *)
(*                                                                         *)
(* The pair e = <<n, m>> names node n's side of its relation with node m.  *)
(* A session key is named by the exchange that produced it: the initiator  *)
(* draws a new key pair for every exchange, and the acceptor encapsulates  *)
(* one secret for the public key it was sent.                              *)
(***************************************************************************)
EXTENDS Naturals, Sequences, FiniteSets

CONSTANTS
    Node,           \* the nodes
    Session,        \* identities of TCP connections, reused after both ends closed
    Bootstraps,     \* <<n, m>>: n is told m's address by its file or by a third node
    MaxExchanges,   \* bound: key exchanges begun in a behaviour
    MaxRestarts,    \* bound: process deaths in a behaviour
    Lossy           \* whether connections may fail

End == {e \in Node \X Node : e[1] # e[2]}
Rev(e) == <<e[2], e[1]>>

ASSUME BootstrapsAssumption == Bootstraps \subseteq End
ASSUME BoundsAssumption == MaxExchanges \in Nat /\ MaxRestarts \in Nat
ASSUME LossyAssumption == Lossy \in BOOLEAN

Exchange == 0 .. MaxExchanges       \* 0: none
NoEnd == <<>>

VARIABLES
    exchanges,  \* key exchanges begun so far
    restarts,   \* process deaths so far
    dials,      \* connection attempts under way (events and coroutines)
    resolving,  \* PeerManager::m_resolving: the exchange pending for an address
    tracked,    \* PeerManager::m_peers
    state,      \* SecurityMediator::m_state
    processor,  \* SecurityMediator::m_upExchangeProcessor and its m_stage
    strategy,   \* the security strategy, owned by processor or mediator
    receiver,   \* BryptPeer::m_pMessageSink
    registered, \* BryptPeer::m_endpoints
    inbox,      \* AuthorizedProcessor::m_incoming
    opener,     \* the dialing end of a TCP connection
    open,       \* ends <<s, n>> whose Session object is tracked
    reading,    \* of those, the ones whose receiver coroutine still runs
    promoted,   \* of those, the ones whose tracker entry has a peer
    linking,    \* of those, the ones whose worker is inside OnMessageReceived
    chan,       \* bytes on their way to an end, as messages
    granted     \* history: every <<e, key>> that was authorized

nodeVars == <<tracked, state, processor, strategy, receiver>>
netVars == <<opener, open, reading, promoted, linking, chan>>
vars == <<exchanges, restarts, dials, resolving, nodeVars, registered, inbox,
          netVars, granted>>

(***************************************************************************)
(* Data.                                                                   *)
(***************************************************************************)
Kind == {"client", "server"}        \* the two endpoints of a node

Message == [type : {"Request", "Response", "Verification", "HeartbeatRequest",
                    "HeartbeatResponse", "DiscoveryRequest", "DiscoveryResponse"},
            key : Exchange]

Msg(type, key) == [type |-> type, key |-> key]
IsHandshake(msg) == msg.type \in {"Request", "Response", "Verification"}
IsApplication(msg) == msg.type \in {"DiscoveryRequest", "DiscoveryResponse"}

Dial == [end : End, via : {"address", "identifier"},
         step : {"scheduled", "resolving", "connecting"}, exchange : Exchange]

(* A strategy: key is the exchange it has keys for; the initiator also     *)
(* knows from the start which exchange its own key pair belongs to.        *)
Strategy == [role : {"none", "initiator", "acceptor"},
             stage : {"Initialization", "Verification", "Complete"},
             own : Exchange, key : Exchange]

NoStrategy == [role |-> "none", stage |-> "Initialization", own |-> 0, key |-> 0]
Initiating(x) == [role |-> "initiator", stage |-> "Initialization", own |-> x, key |-> 0]
Accepting == [role |-> "acceptor", stage |-> "Initialization", own |-> 0, key |-> 0]

(* A message in the inbox: whose it is, by which endpoint it came, and what. *)
Queued == [end : End, kind : Kind, type : {"DiscoveryRequest", "DiscoveryResponse"}]

(* The other node of a connection, and which endpoint of n holds it.       *)
PeerOf(s, n) == IF opener[s][1] = n THEN opener[s][2] ELSE opener[s][1]
KindOf(s, n) == IF opener[s][1] = n THEN "client" ELSE "server"
EndOf(s, n) == <<n, PeerOf(s, n)>>

-------------------------------------------------------------------------------
Init ==
    /\ exchanges = 0
    /\ restarts = 0
    /\ dials = {}
    /\ resolving = [e \in End |-> 0]
    /\ tracked = {}
    /\ state = [e \in End |-> "Unauthorized"]
    /\ processor = [e \in End |-> "none"]
    /\ strategy = [e \in End |-> NoStrategy]
    /\ receiver = [e \in End |-> "none"]
    /\ registered = {}
    /\ inbox = [n \in Node |-> <<>>]
    /\ opener = [s \in Session |-> NoEnd]
    /\ open = {}
    /\ reading = {}
    /\ promoted = {}
    /\ linking = {}
    /\ chan = [c \in Session \X Node |-> <<>>]
    /\ granted = {}

(***************************************************************************)
(* The network, and the worker thread that each endpoint has.              *)
(***************************************************************************)
(* A worker runs one handler at a time.  The two endpoints of a node run   *)
(* theirs side by side, and OnMessageReceived has two parts that a handler *)
(* of the other endpoint may come between: LinkPeer and ScheduleReceive.   *)
Idle(n, kind) == \A t \in Session : <<t, n>> \in linking => KindOf(t, n) # kind
Turn(s, n) == <<s, n>> \in linking \/ Idle(n, KindOf(s, n))

(* Sessions that the tracker of n's endpoint can translate m's identifier  *)
(* to; the index is not unique, so a reply may take any of them.           *)
Routes(e, kind) == {t \in Session : /\ <<t, e[1]>> \in promoted
                                    /\ EndOf(t, e[1]) = e
                                    /\ KindOf(t, e[1]) = kind}

(* Bytes written to a connection nobody reads any more are lost.           *)
Carry(channels, t, to, msgs) ==
    IF <<t, to>> \in reading THEN [channels EXCEPT ![<<t, to>>] = @ \o msgs] ELSE channels

Taken(s, n) == [chan EXCEPT ![<<s, n>>] = Tail(@)]

(* What the session does when its message handler returns true with        *)
(* nothing to send, returns true after queueing a reply, or returns false: *)
(* the receiver coroutine ends but the session stays tracked and active.   *)
Consumed(s, n) ==
    /\ chan' = Taken(s, n)
    /\ linking' = linking \ {<<s, n>>}
    /\ UNCHANGED <<opener, open, reading, promoted>>

Replied(s, n, msgs) ==
    /\ \E t \in Routes(EndOf(s, n), KindOf(s, n)) :
           chan' = Carry(Taken(s, n), t, PeerOf(s, n), msgs)
    /\ linking' = linking \ {<<s, n>>}
    /\ UNCHANGED <<opener, open, reading, promoted>>

Refused(s, n) ==
    /\ reading' = reading \ {<<s, n>>}
    /\ chan' = [chan EXCEPT ![<<s, n>>] = <<>>]
    /\ linking' = linking \ {<<s, n>>}
    /\ UNCHANGED <<opener, open, promoted>>

(* Sides whose Session stopped; a connection closed at both ends is gone.  *)
(* Mutant: the tracker keeps the peer of a stopped session.                *)
Close(sides) ==
    LET left == open \ sides
        gone == {s \in Session : \A n \in Node : <<s, n>> \notin left}
    IN  /\ open' = left
        /\ reading' = reading \ sides
        /\ promoted' = promoted \ sides
        /\ linking' = linking \ sides
        /\ opener' = [s \in Session |-> IF s \in gone THEN NoEnd ELSE opener[s]]
        /\ chan' = [c \in Session \X Node |->
                       IF c \in sides \/ c[1] \in gone THEN <<>> ELSE chan[c]]

(***************************************************************************)
(* Dialing: the client endpoint of node e[1] connects to e[2]'s address.   *)
(***************************************************************************)
NewDial(e, via) == [end |-> e, via |-> via, step |-> "scheduled", exchange |-> 0]

Advance(d, step, x) ==
    dials' = (dials \ {d}) \cup {[d EXCEPT !.step = step, !.exchange = x]}

(* A stored bootstrap, or an entry of a third node's discovery response.   *)
ScheduleConnect(e) ==
    /\ exchanges < MaxExchanges
    /\ \A d \in dials : ~(d.end = e /\ d.via = "address")
    /\ dials' = dials \cup {NewDial(e, "address")}
    /\ UNCHANGED <<exchanges, restarts, resolving, nodeVars, registered, inbox,
                   netVars, granted>>

UriTracked(e) == \E s \in Session : opener[s] = e /\ <<s, e[1]>> \in open

(* ProcessConnectEvent: a second connection to a tracked URI is not begun. *)
Connect(d) ==
    /\ d.step = "scheduled"
    /\ Idle(d.end[1], "client")
    /\ IF UriTracked(d.end) THEN dials' = dials \ {d} ELSE Advance(d, "resolving", 0)
    /\ UNCHANGED <<exchanges, restarts, resolving, nodeVars, registered, inbox,
                   netVars, granted>>

(* The coroutine resumes with the endpoints of the address: an address that *)
(* is being resolved gets no request, a tracked identifier gets a heartbeat *)
(* and is not recorded, any other address a new exchange.                  *)
DeclareResolvingPeer(d) ==
    /\ d.step = "resolving"
    /\ Idle(d.end[1], "client")
    /\ \/ /\ resolving[d.end] # 0
          /\ dials' = dials \ {d}
          /\ UNCHANGED <<exchanges, resolving>>
       \/ /\ resolving[d.end] = 0
          /\ d.via = "identifier"
          /\ Advance(d, "connecting", 0)
          /\ UNCHANGED <<exchanges, resolving>>
       \/ /\ resolving[d.end] = 0
          /\ d.via = "address"
          /\ exchanges < MaxExchanges
          /\ exchanges' = exchanges + 1
          /\ resolving' = [resolving EXCEPT ![d.end] = exchanges + 1]
          /\ Advance(d, "connecting", exchanges + 1)
    /\ UNCHANGED <<restarts, nodeVars, registered, inbox, netVars, granted>>

(* The connection is made, the peer's listener accepts it, and the request *)
(* is on its way.                                                          *)
OnSessionStarted(d) ==
    LET sides(s) == {<<s, d.end[1]>>, <<s, d.end[2]>>}
        request == IF d.via = "address" THEN Msg("Request", d.exchange)
                                        ELSE Msg("HeartbeatRequest", 0)
    IN  /\ d.step = "connecting"
        /\ Idle(d.end[1], "client")
        /\ \E s \in Session :
               /\ opener[s] = NoEnd
               /\ opener' = [opener EXCEPT ![s] = d.end]
               /\ open' = open \cup sides(s)
               /\ reading' = reading \cup sides(s)
               /\ chan' = [chan EXCEPT ![<<s, d.end[2]>>] = <<request>>]
        /\ dials' = dials \ {d}
        /\ UNCHANGED <<exchanges, restarts, resolving, nodeVars, registered, inbox,
                       promoted, linking, granted>>

(* The address has no endpoints, or every attempt to connect to them failed *)
(* and the address is undeclared.                                          *)
ConnectFails(d) ==
    /\ Lossy
    /\ Idle(d.end[1], "client")
    /\ \/ d.step = "resolving" /\ UNCHANGED resolving
       \/ d.step = "connecting" /\ resolving' = [resolving EXCEPT ![d.end] = 0]
    /\ dials' = dials \ {d}
    /\ UNCHANGED <<exchanges, restarts, nodeVars, registered, inbox, netVars, granted>>

(***************************************************************************)
(* The first message of a session: LinkPeer and RegisterEndpoint.          *)
(***************************************************************************)
Readable(s, n) == <<s, n>> \in reading /\ chan[<<s, n>>] # <<>> /\ Turn(s, n)

(* Whoever declared the address initiates, whoever did not accepts.        *)
MediatorForgetsPending(pending) == Accepting    \* mutant: the request is forgotten
MediatorFor(pending) == IF pending # 0 THEN Initiating(pending) ELSE Accepting

(* Mutant: only a new peer's address is no longer resolving.               *)
LinkPeerKeepsResolving(s, n) ==
    LET e == EndOf(s, n)
        pending == IF KindOf(s, n) = "client" THEN resolving[e] ELSE 0
        new == e \notin tracked
    IN  /\ Readable(s, n)
        /\ <<s, n>> \notin promoted
        /\ resolving' = IF new /\ KindOf(s, n) = "client"
                        THEN [resolving EXCEPT ![e] = 0] ELSE resolving
        /\ tracked' = tracked \cup {e}
        /\ strategy' = IF new THEN [strategy EXCEPT ![e] = MediatorFor(pending)] ELSE strategy
        /\ processor' = IF new THEN [processor EXCEPT ![e] = "Synchronization"] ELSE processor
        /\ receiver' = IF new THEN [receiver EXCEPT ![e] = "processor"] ELSE receiver
        /\ registered' = registered \cup {<<e, KindOf(s, n)>>}
        /\ promoted' = promoted \cup {<<s, n>>}
        /\ linking' = linking \cup {<<s, n>>}
        /\ UNCHANGED <<state, exchanges, restarts, dials, inbox, opener, open, reading, chan,
                       granted>>

LinkPeer(s, n) ==
    LET e == EndOf(s, n)
        pending == IF KindOf(s, n) = "client" THEN resolving[e] ELSE 0
    IN  /\ Readable(s, n)
        /\ <<s, n>> \notin promoted
        /\ resolving' = IF KindOf(s, n) = "client" THEN [resolving EXCEPT ![e] = 0]
                                                   ELSE resolving
        /\ \/ /\ e \in tracked
              /\ UNCHANGED nodeVars
           \/ /\ e \notin tracked
              /\ tracked' = tracked \cup {e}
              /\ strategy' = [strategy EXCEPT ![e] = MediatorFor(pending)]
              /\ processor' = [processor EXCEPT ![e] = "Synchronization"]
              /\ receiver' = [receiver EXCEPT ![e] = "processor"]
              /\ UNCHANGED state
        /\ registered' = registered \cup {<<e, KindOf(s, n)>>}
        /\ promoted' = promoted \cup {<<s, n>>}
        /\ linking' = linking \cup {<<s, n>>}
        /\ UNCHANGED <<exchanges, restarts, dials, inbox, opener, open, reading, chan,
                       granted>>

(***************************************************************************)
(* BryptPeer::ScheduleReceive: the next message of a promoted session goes *)
(* to the peer's sink.                                                     *)
(***************************************************************************)
Reaches(s, n, sink) ==
    /\ Readable(s, n)
    /\ <<s, n>> \in promoted
    /\ receiver[EndOf(s, n)] = sink
    /\ <<EndOf(s, n), KindOf(s, n)>> \in registered

NoSink(s, n) ==
    /\ Readable(s, n)
    /\ <<s, n>> \in promoted
    /\ \/ receiver[EndOf(s, n)] = "none"
       \/ <<EndOf(s, n), KindOf(s, n)>> \notin registered
    /\ Refused(s, n)
    /\ UNCHANGED <<exchanges, restarts, dials, resolving, nodeVars, registered, inbox,
                   granted>>

(* ExchangeProcessor::CollectMessage up to the strategy: a processor that  *)
(* was invalidated takes nothing, anything but a handshake is refused, and *)
(* an application message invalidates the processor for good.              *)
ExchangeRefuses(s, n) ==
    LET e == EndOf(s, n)
        msg == Head(chan[<<s, n>>])
    IN  /\ Reaches(s, n, "processor")
        /\ processor[e] = "Invalid" \/ ~IsHandshake(msg)
        /\ processor' = IF IsApplication(msg) THEN [processor EXCEPT ![e] = "Invalid"]
                                              ELSE processor
        /\ Refused(s, n)
        /\ UNCHANGED <<exchanges, restarts, dials, resolving, tracked, state, strategy,
                       receiver, registered, inbox, granted>>

(* What the strategy makes of a handshake message.                         *)
AcceptsRequest(sgy, msg) ==
    sgy.role = "acceptor" /\ sgy.stage = "Initialization" /\ msg.type = "Request"
AcceptsResponse(sgy, msg) ==
    /\ sgy.role = "initiator" /\ sgy.stage = "Initialization"
    /\ msg.type = "Response" /\ msg.key = sgy.own
AcceptsVerification(sgy, msg) ==
    /\ sgy.role = "acceptor" /\ sgy.stage = "Verification"
    /\ msg.type = "Verification" /\ msg.key = sgy.key

Negotiates(s, n) ==
    /\ Reaches(s, n, "processor")
    /\ processor[EndOf(s, n)] = "Synchronization"
    /\ IsHandshake(Head(chan[<<s, n>>]))

(* Mutant: the processor stays the sink, and its strategy can be repeated. *)
AuthorizeRearmed(e, key) ==
    /\ strategy' = [strategy EXCEPT ![e].stage = "Initialization", ![e].key = key]
    /\ state' = [state EXCEPT ![e] = "Authorized"]
    /\ granted' = granted \cup {<<e, key>>}
    /\ UNCHANGED <<tracked, receiver, processor>>

(* OnFulfilledStrategy and OnExchangeClose(Success).                       *)
Authorize(e, key) ==
    /\ strategy' = [strategy EXCEPT ![e].stage = "Complete", ![e].key = key]
    /\ state' = [state EXCEPT ![e] = "Authorized"]
    /\ receiver' = [receiver EXCEPT ![e] = "sink"]
    /\ processor' = [processor EXCEPT ![e] = "none"]
    /\ granted' = granted \cup {<<e, key>>}
    /\ UNCHANGED tracked

(* The acceptor derives the keys and answers with the encapsulated secret. *)
DeriveUnverified(e, key) == Authorize(e, key)   \* mutant: does not wait for the proof
Derive(e, key) ==
    /\ strategy' = [strategy EXCEPT ![e].stage = "Verification", ![e].key = key]
    /\ UNCHANGED <<tracked, state, processor, receiver, granted>>

SynchronizeRequest(s, n) ==
    LET e == EndOf(s, n)
        msg == Head(chan[<<s, n>>])
    IN  /\ Negotiates(s, n)
        /\ AcceptsRequest(strategy[e], msg)
        /\ Derive(e, msg.key)
        /\ Replied(s, n, <<Msg("Response", msg.key)>>)
        /\ UNCHANGED <<exchanges, restarts, dials, resolving, registered, inbox>>

(* The initiator verifies the response, sends its own verification and,    *)
(* before it is told of the success, the discovery request.                *)
FinishWithDiscovery(key) == <<Msg("DiscoveryRequest", key)>>    \* mutant: unverified
FinishSwapped(key) ==                                           \* mutant: swapped
    <<Msg("DiscoveryRequest", key), Msg("Verification", key)>>
FinishExchange(key) == <<Msg("Verification", key), Msg("DiscoveryRequest", key)>>

SynchronizeResponse(s, n) ==
    LET e == EndOf(s, n)
        msg == Head(chan[<<s, n>>])
    IN  /\ Negotiates(s, n)
        /\ AcceptsResponse(strategy[e], msg)
        /\ Authorize(e, msg.key)
        /\ Replied(s, n, FinishExchange(msg.key))
        /\ UNCHANGED <<exchanges, restarts, dials, resolving, registered, inbox>>

SynchronizeVerification(s, n) ==
    LET e == EndOf(s, n)
        msg == Head(chan[<<s, n>>])
    IN  /\ Negotiates(s, n)
        /\ AcceptsVerification(strategy[e], msg)
        /\ Authorize(e, strategy[e].key)
        /\ Consumed(s, n)
        /\ UNCHANGED <<exchanges, restarts, dials, resolving, registered, inbox>>

(* OnExchangeClose(Failed).                                                *)
RevokeKeepsSink(e) ==                           \* mutant: the sink dangles
    /\ state' = [state EXCEPT ![e] = "Unauthorized"]
    /\ processor' = [processor EXCEPT ![e] = "none"]
    /\ strategy' = [strategy EXCEPT ![e] = NoStrategy]
    /\ UNCHANGED <<tracked, receiver, granted>>
Revoke(e) ==
    /\ state' = [state EXCEPT ![e] = "Unauthorized"]
    /\ receiver' = [receiver EXCEPT ![e] = "none"]
    /\ processor' = [processor EXCEPT ![e] = "none"]
    /\ strategy' = [strategy EXCEPT ![e] = NoStrategy]
    /\ UNCHANGED <<tracked, granted>>

(* Any other handshake message is an error, and closes the exchange.       *)
SynchronizeFails(s, n) ==
    LET e == EndOf(s, n)
        msg == Head(chan[<<s, n>>])
    IN  /\ Negotiates(s, n)
        /\ ~AcceptsRequest(strategy[e], msg)
        /\ ~AcceptsResponse(strategy[e], msg)
        /\ ~AcceptsVerification(strategy[e], msg)
        /\ Revoke(e)
        /\ Refused(s, n)
        /\ UNCHANGED <<exchanges, restarts, dials, resolving, registered, inbox>>

(***************************************************************************)
(* AuthorizedProcessor::CollectMessage and HandleMessage.                  *)
(***************************************************************************)
(* The context of a message names the endpoint that it came by.            *)
QueuedFor(s, n, type) == [end |-> EndOf(s, n), type |-> type, kind |-> KindOf(s, n)]

AuthorizedQueues(s, n) ==
    LET e == EndOf(s, n)
        msg == Head(chan[<<s, n>>])
    IN  /\ Reaches(s, n, "sink")
        /\ IsApplication(msg)
        /\ \/ /\ msg.key = strategy[e].key
              /\ inbox' = [inbox EXCEPT ![n] = Append(@, QueuedFor(s, n, msg.type))]
              /\ Consumed(s, n)
           \/ /\ msg.key # strategy[e].key
              /\ UNCHANGED inbox
              /\ Refused(s, n)
        /\ UNCHANGED <<exchanges, restarts, dials, resolving, nodeVars, registered,
                       granted>>

(* A handshake is answered like this: "a valid session has already been    *)
(* established".                                                           *)
AuthorizedAnswers(s, n) ==
    LET msg == Head(chan[<<s, n>>])
    IN  /\ Reaches(s, n, "sink")
        /\ \/ IsHandshake(msg) /\ Replied(s, n, <<Msg("HeartbeatRequest", 0)>>)
           \/ msg.type = "HeartbeatRequest" /\ Replied(s, n, <<Msg("HeartbeatResponse", 0)>>)
           \/ msg.type = "HeartbeatResponse" /\ Consumed(s, n)
        /\ UNCHANGED <<exchanges, restarts, dials, resolving, nodeVars, registered, inbox,
                       granted>>

(***************************************************************************)
(* The core thread: the Connect handler.  A discovery request is answered  *)
(* over the endpoint it came by, after a connection back to the requestor  *)
(* has been scheduled; the answer is lost when that endpoint has lost it.  *)
(***************************************************************************)
HandleIncoming(n) ==
    LET item == Head(inbox[n])
        e == item.end
        routes == IF <<e, item.kind>> \in registered THEN Routes(e, item.kind) ELSE {}
    IN  /\ inbox[n] # <<>>
        /\ inbox' = [inbox EXCEPT ![n] = Tail(@)]
        /\ \/ /\ item.type = "DiscoveryRequest"
              /\ dials' = dials \cup {NewDial(e, "identifier")}
              /\ \/ /\ routes = {}
                    /\ UNCHANGED chan
                 \/ \E t \in routes :
                        chan' = Carry(chan, t, e[2],
                                      <<Msg("DiscoveryResponse", strategy[e].key)>>)
           \/ /\ item.type = "DiscoveryResponse"
              /\ UNCHANGED <<dials, chan>>
        /\ UNCHANGED <<exchanges, restarts, resolving, nodeVars, registered, opener, open,
                       reading, promoted, linking, granted>>

(***************************************************************************)
(* The end of a session, noticed by a reading receiver or not, and the end *)
(* of a process.                                                           *)
(***************************************************************************)
(* Mutant: the peer of a stopped session is no longer tracked.             *)
OnSessionStoppedForgets(s, n) ==
    LET e == EndOf(s, n)
    IN  /\ Idle(n, KindOf(s, n))
        /\ Close({<<s, n>>})
        /\ registered' = registered \ {<<e, KindOf(s, n)>>}
        /\ tracked' = tracked \ {e}
        /\ state' = [state EXCEPT ![e] = "Unauthorized"]
        /\ strategy' = [strategy EXCEPT ![e] = NoStrategy]
        /\ processor' = [processor EXCEPT ![e] = "none"]
        /\ receiver' = [receiver EXCEPT ![e] = "none"]
        /\ UNCHANGED <<exchanges, restarts, dials, resolving, inbox, granted>>

(* Mutant: a session that has had a message withdraws nothing when nobody  *)
(* reads it any more.                                                      *)
OnSessionStoppedUnread(s, n) ==
    /\ Idle(n, KindOf(s, n))
    /\ Close({<<s, n>>})
    /\ registered' = IF <<s, n>> \in promoted \cap reading
                     THEN registered \ {<<EndOf(s, n), KindOf(s, n)>>} ELSE registered
    /\ UNCHANGED <<exchanges, restarts, dials, resolving, nodeVars, inbox, granted>>

OnSessionStopped(s, n) ==
    /\ Idle(n, KindOf(s, n))
    /\ Close({<<s, n>>})
    /\ registered' = IF <<s, n>> \in promoted
                     THEN registered \ {<<EndOf(s, n), KindOf(s, n)>>} ELSE registered
    /\ UNCHANGED <<exchanges, restarts, dials, resolving, nodeVars, inbox, granted>>

(* The other end is gone and everything it sent has been read.             *)
SessionEnds(s, n) ==
    /\ <<s, n>> \in reading
    /\ chan[<<s, n>>] = <<>>
    /\ <<s, PeerOf(s, n)>> \notin open
    /\ OnSessionStopped(s, n)

(* A socket error.                                                         *)
SessionFails(s, n) ==
    /\ Lossy
    /\ <<s, n>> \in open
    /\ OnSessionStopped(s, n)

Restart(n) ==
    /\ restarts < MaxRestarts
    /\ restarts' = restarts + 1
    /\ dials' = {d \in dials : d.end[1] # n}
    /\ resolving' = [e \in End |-> IF e[1] = n THEN 0 ELSE resolving[e]]
    /\ tracked' = {e \in tracked : e[1] # n}
    /\ state' = [e \in End |-> IF e[1] = n THEN "Unauthorized" ELSE state[e]]
    /\ processor' = [e \in End |-> IF e[1] = n THEN "none" ELSE processor[e]]
    /\ strategy' = [e \in End |-> IF e[1] = n THEN NoStrategy ELSE strategy[e]]
    /\ receiver' = [e \in End |-> IF e[1] = n THEN "none" ELSE receiver[e]]
    /\ registered' = {r \in registered : r[1][1] # n}
    /\ inbox' = [inbox EXCEPT ![n] = <<>>]
    /\ Close({c \in open : c[2] = n})
    /\ UNCHANGED <<exchanges, granted>>

-------------------------------------------------------------------------------
Dialing ==
    \E d \in dials : Connect(d) \/ DeclareResolvingPeer(d) \/ OnSessionStarted(d)

Receiving(s, n) ==
    \/ LinkPeer(s, n)
    \/ NoSink(s, n)
    \/ ExchangeRefuses(s, n)
    \/ SynchronizeRequest(s, n)
    \/ SynchronizeResponse(s, n)
    \/ SynchronizeVerification(s, n)
    \/ SynchronizeFails(s, n)
    \/ AuthorizedQueues(s, n)
    \/ AuthorizedAnswers(s, n)
    \/ SessionEnds(s, n)

Next ==
    \/ \E e \in Bootstraps : ScheduleConnect(e)
    \/ Dialing
    \/ \E s \in Session, n \in Node : Receiving(s, n)
    \/ \E n \in Node : HandleIncoming(n)
    \/ \E d \in dials : ConnectFails(d)
    \/ \E s \in Session, n \in Node : SessionFails(s, n)
    \/ \E n \in Node : Restart(n)

Spec == Init /\ [][Next]_vars

(* Every endpoint has a worker thread that polls its coroutines, and the   *)
(* core thread polls the inbox: neither ever stops.                        *)
Fairness ==
    /\ WF_vars(Dialing)
    /\ \A s \in Session, n \in Node : WF_vars(Receiving(s, n))
    /\ \A n \in Node : WF_vars(HandleIncoming(n))

FairSpec == Spec /\ Fairness

-------------------------------------------------------------------------------
TypeOK ==
    /\ exchanges \in Exchange
    /\ restarts \in 0 .. MaxRestarts
    /\ dials \subseteq Dial
    /\ resolving \in [End -> Exchange]
    /\ tracked \subseteq End
    /\ state \in [End -> {"Unauthorized", "Authorized"}]
    /\ processor \in [End -> {"none", "Synchronization", "Invalid"}]
    /\ strategy \in [End -> Strategy]
    /\ receiver \in [End -> {"none", "processor", "sink"}]
    /\ registered \subseteq End \X Kind
    /\ inbox \in [Node -> Seq(Queued)]
    /\ opener \in [Session -> End \cup {NoEnd}]
    /\ open \subseteq Session \X Node
    /\ reading \subseteq open
    /\ promoted \subseteq open
    /\ linking \subseteq promoted
    /\ chan \in [Session \X Node -> Seq(Message)]
    /\ granted \subseteq End \X Exchange

(* A peer's sink pointer never outlives what it points to, and points to   *)
(* the authorized sink exactly when the mediator says Authorized           *)
(* (SecurityMediator.cpp:63-87 changes all three under one lock, the       *)
(* processor alone changes its stage).                                     *)
SinkMatchesMediator ==
    \A e \in End :
        /\ receiver[e] = "processor" <=> processor[e] # "none"
        /\ receiver[e] = "sink" <=> state[e] = "Authorized"
        /\ receiver[e] # "none" => e \in tracked

(* Whoever is authorized has finished its strategy and holds the keys of an *)
(* exchange that its peer took part in as the other role.                  *)
KeyAgreement ==
    \A e \in End :
        state[e] = "Authorized" /\ state[Rev(e)] = "Authorized" =>
            /\ strategy[e].key = strategy[Rev(e)].key
            /\ strategy[e].role # strategy[Rev(e)].role

(* The handshake implements its promise: the initiator authorizes a fresh  *)
(* key first, the acceptor follows with the same key at most once, nobody  *)
(* revokes, and two authorized ends never disagree.                        *)
view == [e \in End |-> IF state[e] = "Authorized" THEN strategy[e].key ELSE 0]
Link == INSTANCE AuthorizedLink WITH
            Key <- 1 .. MaxExchanges, NoKey <- 0, authorized <- granted
LinkSpec == Link!Spec

(* An authorized session is never downgraded or re-keyed, whatever arrives: *)
(* late handshakes, second connections, lost sessions.                     *)
StableAuthorization ==
    [][\A e \in End :
          state[e] = "Authorized" =>
              \/ state'[e] = "Authorized" /\ strategy'[e] = strategy[e]
              \/ e \notin tracked']_vars

(* PeerManager.cpp:118 asks "What condition causes both generators to      *)
(* fallthrough?": none, a connection by identifier is only ever made to a  *)
(* peer that is still tracked when its coroutine resumes.                  *)
IdentifierIsTracked == \A d \in dials : d.via = "identifier" => d.end \in tracked

(* Between an authorized pair nothing stays half open: without faults, an  *)
(* end that authorizes its peer is authorized by it (the acceptor learns    *)
(* it from the verification, AuthorizedProcessor takes over at both ends). *)
EventuallyMutual ==
    \A e \in End : state[e] = "Authorized" ~> state[Rev(e)] = "Authorized"

(* Without faults every address a node is given ends in an authorized      *)
(* session with the node behind it, unless that node has dialled back: two *)
(* that dial each other at once may both wait for the other.               *)
DialledBack(e) == \E s \in Session : opener[s] = Rev(e)
DialSucceeds ==
    \A e \in Bootstraps :
        (\E d \in dials : d.end = e /\ d.via = "address") ~>
            \/ state[e] = "Authorized" /\ state[Rev(e)] = "Authorized"
            \/ DialledBack(e)

(* The initiator's discovery request is sent before the initiator is told  *)
(* of the success: it can only find an acceptor that has, or is about to   *)
(* read, the verification.                                                 *)
DiscoveryFindsAuthorized ==
    \A s \in Session, n \in Node :
        Readable(s, n) /\ <<s, n>> \in promoted /\ IsApplication(Head(chan[<<s, n>>])) =>
            /\ receiver[EndOf(s, n)] = "sink"
            /\ Head(chan[<<s, n>>]).key = strategy[EndOf(s, n)].key

(* TCP/Endpoint.cpp:530-532: an address that is refused because it is being *)
(* resolved has another coroutine, or its session, working on it.  Not so  *)
(* once connections fail: nobody clears what a session leaves behind that  *)
(* ends before its first message.                                          *)
RefusedMeansOngoing ==
    \A e \in End : resolving[e] # 0 =>
        \/ \E d \in dials : d.end = e /\ d.step = "connecting"
        \/ UriTracked(e)

(* PeerManager.cpp:128: only a declared address is undeclared.             *)
UndeclareFindsAddress ==
    \A d \in dials : d.step = "connecting" => resolving[d.end] # 0

(* A stored bootstrap whose address is resolving is refused, and only the  *)
(* attempt that declared it or the first message of a session dialed to it *)
(* undeclares it.                                                          *)
Working(e) ==
    \/ \E d \in dials : d.end = e /\ d.step = "connecting" /\ d.exchange = resolving[e]
    \/ \E s \in Session : opener[s] = e /\ <<s, e[1]>> \in open \ promoted
Stranded(e) == resolving[e] # 0 /\ ~Working(e)

(* TCP/Endpoint.cpp:530-532 refuses an address that is being resolved, and *)
(* PeerManager.cpp:80-98, 128 and 145 declare and undeclare it from        *)
(* coroutines and sessions in any order.  An address is left refused with  *)
(* nobody working on it in one way only: the session dialed to it ends     *)
(* before its first message.  No failed attempt, no second connection, no  *)
(* attempt by identifier and no restart of the other node does it.         *)
StrandedByLoss ==
    [][\A e \in End :
          Stranded(e)' /\ ~Stranded(e) =>
              \E s \in Session : /\ opener[s] = e
                                 /\ <<s, e[1]>> \in open \ promoted
                                 /\ <<s, e[1]>> \notin open']_vars

(* BryptPeer.cpp:195 keeps one registration for all sessions of a peer on  *)
(* an endpoint, and BryptPeer.cpp:222 withdraws it with whichever ends     *)
(* first.  Whatever is registered still has a session that leads to the    *)
(* peer: an answer to a queued request (Handler.cpp:135) finds no endpoint *)
(* or a way, never an endpoint that has outlived its sessions.             *)
RegisteredHasSession == \A r \in registered : Routes(r[1], r[2]) # {}

(* Handler.cpp:135 asserts that the answer is sent.  Not so once           *)
(* connections fail: the endpoint that a queued request came by may be     *)
(* withdrawn before the core thread answers.                               *)
ResponseFindsEndpoint ==
    \A n \in Node :
        inbox[n] # <<>> /\ Head(inbox[n]).type = "DiscoveryRequest" =>
            <<Head(inbox[n]).end, Head(inbox[n]).kind>> \in registered

====================
