# A TLA+ model of the brypt node

This directory holds TLA+ modules that model the brypt node under `src/src`, TLC configurations that
check them on small instances, and proofs that TLAPS checks for every value of the constants.
`PROJECT.json` ties every definition to the lines it stands for.

1. [The system](#1-the-system)
2. [The modules](#2-the-modules)
3. [Runs, bounds and what they show](#3-runs-bounds-and-what-they-show)
4. [Disagreements between the code and its words](#4-disagreements-between-the-code-and-its-words)
5. [Fairness](#5-fairness)
6. [Proofs](#6-proofs)
7. [What is only model-checked](#7-what-is-only-model-checked)
8. [What is not modelled](#8-what-is-not-modelled)
9. [Plan](#9-plan)

## 1. The system

A brypt node finds other nodes by the addresses it is given, authenticates each of them with a
post-quantum key exchange, tells them where it can be reached, and answers requests that are
flooded through the network with an aggregate of its neighbours' responses.

### Threads

| Thread | Loop | Runs |
|---|---|---|
| core | `BryptNode::StartLifecycle` | message handlers, then `ProcessFulfilledRequests` |
| client endpoint worker | `TCP::Endpoint::ProcessEvents` | connection coroutines, the receivers of dialed sessions |
| server endpoint worker | the same | the listener, the receivers of accepted sessions |

Every endpoint has one worker and runs one handler at a time. The client and the server worker and
the core thread interleave, and share the peers, the peer manager, the queue of authorized messages
and the persistor.

### Components

| Component | State | Operations | What makes it correct |
|---|---|---|---|
| `PeerManager` | `m_resolving`, `m_peers`, observers | declare and undeclare a resolving address, link a peer, notify observers | an address is refused only while someone works on it; a declared exchange is used once; a peer exists once |
| `BryptPeer` | endpoint registrations, message sink, mediator | register, withdraw, schedule receive and send | the sink never dangles; a registered endpoint leads to the peer |
| `SecurityMediator` | security state, context, processor | set up as initiator or acceptor, fulfil, close | state, processor and sink change together; authorization is not given up by a late handshake |
| `ExchangeProcessor`, `PQNISTL3::Strategy` | stage, strategy, keys | prepare, collect, synchronize | both ends get the same keys, from opposite roles, in bounded steps |
| `KeyStore` | key pairs, derived key material, seed | expand, encapsulate, cut into cordons, reset | the two roles' cordons mirror each other; a reset leaves nothing of an old session |
| `AuthorizedProcessor` | queue of messages | collect, pop | only messages made with the session's key are queued, in order |
| Discovery, `Connect` handler | none of its own | request, response, store and dial entrypoints | a request finds an authorized receiver; the connection back reuses the peer |
| `TCP::Endpoint`, `Session`, `ConnectionTracker` | event queue, sessions, URI and identifier indices | bind, connect, dispatch, stop, shut down | no message for a stopped session, no two connections to one URI, shutdown ends |
| `EndpointManager` | endpoints | initialise from the configuration, connect the bootstraps | every configured protocol has its two endpoints |
| `Await` (`TrackingManager`, `ResponseTracker`) | trackers by key, counters, expiry | push a request or a response, process the fulfilled | one aggregate per request, with exactly the accepted responses, at the right time |
| `PeerPersistor` | protocol map, peers file | fetch, set up, add and delete an address, serialize | the file holds what the node knows, across crashes and two writers |
| `Configuration::Manager`, `main` | settings, configuration file | fetch, ask, validate, initialize, serialize | what it writes it reads; a running node is configured; an identity persists |
| Messages | bytes | build, validate, pack, unpack, peek | packing and unpacking are inverse, announced sizes agree |
| `BryptIdentifier`, `Utils::Z85` | text and bytes | encode, decode, check | each pair is inverse, lengths fit the buffers |
| `Network::Address` | text, views of its parts | parse, copy, assign, move | the parts are of the own text and what their names say |
| `Query`, `Information`, `Election` handlers | none | answer, flood, log | what is asked is answered, and answers are not taken for questions for ever |
| LoRa endpoint | none | stubs | - |

### Interactions

A client endpoint asks the peer manager for the first message of a connection
(`DeclareResolvingPeer`); the first message received on a session makes the tracker promote it with
the peer that `LinkPeer` returns; everything after goes from the session to `BryptPeer::ScheduleReceive`
and to whatever sink the mediator has set: the exchange processor, the authorized processor, or none.
Success sends the discovery request and replaces the sink. The core thread pops authorized messages
and calls handlers, which answer through the same peer and endpoint, add addresses to the persistor,
schedule connections back, and hand responses to the tracking manager. Registration and withdrawal
of an endpoint are told to observers, of which the persistor is the only one.

### What is hard

* Two nodes dialing each other at once, second connections between authorized peers, and sessions
  that fail at any step of a handshake, leave each end with a partial view of the other.
* State is read by one handler and used by another after the world has moved: a resolving entry
  after a name resolution, a queued request after its endpoint was withdrawn. Sessions of a peer share
  one registration of an endpoint, and an address is declared and undeclared by several coroutines.
* A restarted node has no keys while its peer still believes in them.
* Counters compared by equality, truncated tracker keys, and responses racing their expiration.
* Files that are truncated before they are written, with unchecked failures, one of them by two threads,
  and with a limit for reading that writing does not keep.
* Locks taken in different orders by different threads, and containers walked without them.
* Coroutines that are cancelled while they wait: `Shutdown` polls them from another thread than the
  worker, and each may resume after its session, its acceptor or its thread has gone.
* Text whose views point into a string that moves, and byte counts that two functions compute apart.

The hazards of `PROJECT.json` give the line at which each of these bites and the property that would
notice.

## 2. The modules

| Module | Models | Checked by | Proved in |
|---|---|---|---|
| `PeerExchange` | finding, authenticating and losing a peer: endpoint, session, tracker, peer manager, peer, mediator, processors, strategy, discovery | `MCPeerExchange` | `PeerExchangeProofs` |
| `AuthorizedLink` | the promise of the handshake, abstractly | as `LinkSpec` of `PeerExchange`, `SynchronizationLink` of `Synchronization` | `PartsProofs` |
| `Synchronization` | the strategy and the key store: stages, transaction, seed, session keys | `MCParts` | `PartsProofs` |
| `TcpEndpoint` | the life of an endpoint: queue, worker, listener, sessions, start and shutdown | `MCTcpEndpoint` | `TcpEndpointProofs` |
| `PeerLocks` | the mutexes and unlocked accesses of manager, peers and trackers | `MCPeerLocks` | `PeerLocksProofs` |
| `Handlers` | the message handlers of several nodes, the endpoint manager, the main loop | `MCParts` | - |
| `Await` | tracking and answering flooded requests | `MCAwait` | `AwaitProofs` |
| `PeerPersistor` | the file of known peers | `MCPeerPersistor` | `PeerPersistorProofs` |
| `Configuration` | settings, their file, the start of `main` | `MCConfiguration` | `ConfigurationProofs` |
| `MessageLayout`, `Z85` | packing, encoding and their inverses, as operators | through `MessageStream` | `MessageStreamProofs` |
| `MessageStream` | a session's dispatcher and receiver over a stream of bytes | `MCMessageStream` | `MessageStreamProofs` |
| `Address` | address objects and the views they keep | `MCParts` | `PartsProofs` |
| `BryptIdentifier` | identifiers as bytes and as text | `MCParts` | `PartsProofs` |

The `MC*` modules define the values of constants. `MCParts` also composes: it holds four modules
that share no state, and every behaviour of it follows the one that `subject` names.

How they fit together: `PeerExchange` is about what the handlers of endpoints and peers do to each
other across two nodes, and takes as one step what `Synchronization` (a message of the handshake),
`TcpEndpoint` (a handler of the worker), `PeerLocks` (a call with its mutexes) and `MessageStream`
(bytes on a session) take apart. `Handlers` is what happens above an authorized session, and takes
as one step what `PeerExchange` (an exchange), `Await` (a tracker) and `PeerPersistor` (a
save) take apart. `Synchronization` and `PeerExchange` are both shown to implement `AuthorizedLink`.

### PeerExchange

The pair `e = <<n, m>>` is node n's side of its relation with m. `tracked`, `state`, `processor`,
`strategy` and `receiver` are what n's peer manager, and the `BryptPeer` of m with its mediator, hold;
`registered` and `inbox` are the peer's endpoints and the queue of the authorized processor. A
connection `s` has an `opener` and two ends `<<s, n>>`; an end is `open` while n's tracker has the
session, `reading` while its receiver coroutine runs, `promoted` once the tracker entry has a peer,
and `linking` between the two halves of `OnMessageReceived`. `dials` holds the connection events and
suspended connection coroutines.

| Action | Code |
|---|---|
| `ScheduleConnect`, `Connect` | `EndpointManager`'s bootstraps, `Endpoint::ProcessConnectEvent` |
| `DeclareResolvingPeer`, `OnSessionStarted`, `ConnectFails` | `Endpoint::ConnectionProcessor` before and after it is suspended |
| `LinkPeer` | `OnMessageReceived` up to the promotion, `PeerManager::LinkPeer`, the mediator's set-up |
| `NoSink`, `ExchangeRefuses` | `ScheduleReceive` and `ExchangeProcessor::CollectMessage` returning false |
| `SynchronizeRequest`, `SynchronizeResponse`, `SynchronizeVerification`, `SynchronizeFails` | `ExchangeProcessor::HandleMessage` with the strategy's stages |
| `AuthorizedQueues`, `AuthorizedAnswers` | `AuthorizedProcessor` |
| `HandleIncoming` | the core thread and the `Connect` handler |
| `SessionEnds`, `SessionFails`, `Restart` | `OnSessionStopped`; the end of a process |

Abstractions, and why they keep the control:

* A session key is named by the exchange that made it. The initiator draws a new key pair for every
  exchange, and the acceptor encapsulates one secret for the public key it was sent, so the number
  of the exchange is all that the checks of the strategy tell apart. A signed or encrypted message
  is a message with the name of its key; cryptographic primitives themselves do not fail.
* The node behind an address is always the expected one, and accepting is one step with connecting.
  `m_resolving` is keyed by the address; an accepting side sees an ephemeral port, so its `LinkPeer`
  never finds an entry, which is why only a client-side session takes one.
* A worker's handlers are atomic except where another thread can come between: between `LinkPeer` and
  the delivery, and where a coroutine is suspended. `Idle` and `Turn` give each endpoint one handler
  at a time.
* The dispatch-event queue is folded into the send; it is first in, first out for a session. Bytes
  written to an end that nobody reads are dropped.
* The branch of `ExchangeProcessor` for a failed send (lines 190-194) cannot be taken: the session
  that delivers the message is itself promoted and registered.
* The addresses that a discovery response carries for third nodes are the constant `Bootstraps`.

### AuthorizedLink

One variable says which key each end has authorized. `Open` authorizes a key nobody has used while
the other end holds nothing; `Accept` follows once with that key; only `Forget`, the end of a process,
takes one away. `PeerExchange` maps `view[e]` to the key of the strategy while the mediator says
`Authorized`.

### Await

`awaiting` is the table of trackers; a tracker counts what it expects and received and knows which
identifiers have an entry and which of those a pack. The core thread handles one message and then
visits every tracker (`phase`, `pass`); connections and time move between any two of its steps. A
peer may be disconnected when its aggregate is due. `KeyOf` is the truncated digest and may collide.

### PeerPersistor

An address has one protocol, so `m_upProtocols` is the set of its protocols and the set of all
addresses (`cache`), and the protocols whose pointer is null (`null`). `pc` says where the client
worker and the core thread are in `AddBootstrapEntry`, and main in `SetupPeersFile`. `Open` truncates,
`Flush` writes full buffers, `WriteEndpointPeers` the rest; `OpenFails`, `WriteFails` and `Crash` are
the faults, `WritesNullSet` the dereference of a null set. The first file is absent or any readable
one, as written under some configuration. The history variables `behind`, `torn` and `persisted`
state the properties only.

The size of a file is counted in addresses (`FileLimit` stands for 12,000 bytes, `BufferLimit` for the
stream's buffer). The JSON decoder is external: of a file that was cut, it is taken to yield some
part of what was written, or nothing; `Parts` is that choice. Only the client endpoint's registrations
carry a bootstrapable address, and only TCP and configured protocols have endpoints, whereas a
discovery request may name any protocol.

### Synchronization

Both roles of `PQNISTL3::Strategy` as `status`, `stage`, `transaction`, `seed` and `secret`.
`network` keeps every message that was ever sent, so that messages may be lost, repeated, reordered
and delayed past any number of new requests (`PrepareInitiator`, `PrepareAcceptor` are the resets).
A secret is named by its number, a session key by its secret and its cordon, the interval of the
derived bytes it is cut from (`SetInitiatorKeyCordons`, `SetAcceptorKeyCordons`); a signature is
what was signed, and the key. `Garbled` is what a damaged encapsulation decapsulates to, since the
KEM gives some secret for any input. `HandleAcceptorInitialization`, `HandleInitiatorInitialization`
and `HandleAcceptorVerification` are the three messages, `InitializationFails`, `ResponseFails` and
`SynchronizationFails` their error paths with what those leave behind. The seed of the initiator is
kept as a sequence because the code inserts into it; since the buffer it hands to the expansion
was moved from before (KeyStore.cpp:88-94), the keys depend on the secret alone.

### TcpEndpoint

One endpoint with up to `MaxStarts` workers, one per `Startup`. `owner` is where the thread that
calls `Startup` and `Shutdown` is, `worker[i]` where the i-th `ProcessEvents` is (taking events,
in a handler of one, polling, leaving, or spinning in a listener whose acceptor has closed).

| Action | Code |
|---|---|
| `ScheduleBind`, `ScheduleConnect`, `Translate`, `ScheduleSend` | the calls of the endpoint's users |
| `Startup`, `ReplaceWorker` | `Startup`, and the assignment of a new `jthread` over an old one |
| `Shutdown`, `JoinWorker`, `CloseAcceptor`, `StopSession`, `EndPoll`, `ClearConnections` | `Shutdown`, which polls the context itself while it resets the connections |
| `TakeEvents`, `Bind`, `Connect`, `ProcessDispatchEvent`, `StartPoll`, `FinishPoll`, `StopWorker`, `ExitWorker` | the worker's cycle |
| `ListenProcessor`, `Accept`, `AcceptFails`, `AcceptAborted`, `StopSpinning` | the listener's coroutine |
| `Resolve`, `ResolveCancelled`, `Connected`, `ConnectFails` | a connection's coroutine |
| `SessionEnds`, `ReceiveAborted`, `OnMessageReceived`, `ReceivedLate` | the receiver's coroutine and its callbacks |

`errored` and `leftover` are history: the listener has ended by an error, and which sessions a
shutdown left alive. In the node only destructors call
`Shutdown`; the owner that calls both freely stands for them and for the tests.

### PeerLocks

A call is the sequence of what a thread has left to do: take or drop a mutex, read or write a
container, or decide by what it finds. `Scoped` nests as the scoped locks do. Each `Call*` action
starts one of the calls of a thread: the client worker declares and undeclares, both workers start,
hear and stop sessions, the core thread sends and walks over all peers. Recursive mutexes are
taken again by their holder; the mutexes of the manager's peers and of the mediator are shared ones.
A race is two threads about to access one container, of which one writes. Mutexes under which no
other is taken are left out: they cannot be part of a circle.

### Handlers

Nodes, each with its cached bootstraps, its queue, its trackers and its scheduled connections.
`Launch` is the start with `EndpointManager::Initialize` and `ConnectBootstraps`; `Ignore`, `ConnectFails`
and `ConnectPeer` are the client endpoint with `IsAllowableUri`. Of an exchange there is its end:
`ExchangeEnds` authorizes both nodes and lets each persistor hear of the other, of which the node that dialed
stores the address; the one that accepted has no address to store (Session.cpp:99, BryptPeer.cpp:272).
`ExchangesFail` is what `PeerExchange` shows of two nodes that dial each other at once. `HandleDiscoveryRequest`,
`EndsProcess` and `HandleDiscoveryResponse` are `Connect`; `FloodHandler`, `RespondHandler`,
`AggregateHandler` and `Drops` the phases of `Query`, `Information` and `Election`;
`ProcessFulfilledRequests` what the loop sends for a tracker. A node of another configuration, the end of a process
at the null set of section 4, and the uninitialized result of `ForEachCachedBootstrap` (any prefix of
the protocols may be visited) are included. Nothing in the code sends a first query: `PeerRequests` is
the sender that lies outside, bounded by `requests`. Sessions last; that they may not is `PeerExchange`'s part.

### MessageLayout, Z85 and MessageStream

A message is a record; `PackedBytes` lays it out byte by byte as the `GetPack` functions do, with the
size, the padding to whole blocks and the signature, and `Unpack` reads it as the constructors from a
buffer do, with every check and early return. `Z85` encodes four bytes as five digits. In
`MessageStream` the sender's queue is written block by block to a connection that holds `Capacity`
blocks; the receiver waits for the encoded header, peeks the size and the source, waits for the rest, and
unpacks. Payloads are not encrypted and time is a constant: no property tells them apart.

### Address

Each handle holds an address or nothing. An address has a uri, given by its layout, and its parts as
intervals with the object whose characters they show: that is what copying, assignment and moving
must keep up. Text of up to fifteen characters lives in the string object itself, so that moving
such a string moves the characters. `Construct`, `Bind`, `CopyConstruct`, `Assign`, `Move` and
`Destroy` are the actions.

### BryptIdentifier

The conversion is modelled digit by digit: `Encode` takes one byte, `Decode` one character, with the
carries of the code's loops, over payloads of sixteen bytes. `Deliver` hands the text on, as it is,
with a digit changed, one too many or too few, a foreign character or a wrong prefix.

### Configuration

`phase` walks through the start: command line, fetching or asking, validating, generating,
initializing, serializing (truncate, then write), `main`'s checks, running. A file is absent, torn or what can be
decoded of it; `Edit` lets the operator write anything. Both writes of a first start (once for what was typed, once for
what was initialized) are there. `Crash` may fall between any two steps, and a `Write` may break off while
`Serialize` returns Success: `BrokenOff` is what either leaves, a torn file or one that lacks only what comes last.
The limit of 12,000 bytes is applied to reading alone. A file is over it if its details are `long`; `dense`
details are those of a file that was written by hand within the limit and that `Serialize`, which indents,
takes over it. `ReadFails` is a file that cannot be measured or opened.

## 3. Runs, bounds and what they show

| Run | Instance | Shows |
|---|---|---|
| `exchange_safety` | two nodes that both dial, 2 connections at a time, 2 exchanges, 1 restart, connections may fail | sinks, keys and authorization stay consistent; `AuthorizedLink` is implemented; a connection by identifier always finds its peer; a registration has a session; only a lost session leaves an address refused |
| `exchange_progress` | both dial, 4 connections, 2 exchanges, no faults | every dial ends in mutual authorization unless the other has dialed back; no end stays authorized alone; a discovery request finds its receiver authorized |
| `await` | 2 peers, 3 requests, 2 keys of which two requests share one | content and number of aggregates; nothing given up early; every request is answered or its requestor has gone |
| `persistor_safety` | 4 addresses of 2 protocols, one configured, limits 2 and 1, 2 faults | a restart reads back the cache; a completed addition lasts; a refusal is justified |
| `endpoint` | 2 starts, 2 sessions, a queue of 2, one event a cycle | one worker at a time; what a shutdown leaves; the tracker agrees with the sessions; a server keeps accepting; calls return and events are taken |
| `locks` | three threads, both endpoints, one peer | threads wait in a circle only where a session stops; races only at the two unlocked places; no processor is destroyed while it is used |
| `stream` | 2 messages of 5 forms with 4 signatures, room for 2 blocks | messages arrive unchanged and in order; the session fails at a block of ones only; what is sent arrives |
| `configuration` | 3 launches, 1 edit, 2 identifiers, 4 endpoints | a running node is configured; its file is its own unless the write broke off; what it wrote it accepts, but for a quote and a file over the limit; an identity persists |
| `parts` | strategies with 3 requests, 2 secrets, 2 resets; 2 address handles and 16 uris; 13 identifiers, 2 checksums, 10 deliveries; 3 nodes in 5 configurations | keys mirror each other and the strategies implement `AuthorizedLink`; an address's parts are its own; identifiers survive text; introduced nodes become peers, and the network comes to rest |
| `locks_send`, `stream_tracker`, `persistor_entry` | as `locks`, `stream`, and the persistor without faults | the disagreements of section 4 |

The bounds are enough for the cases that matter.

* Two connections at once give the simultaneous open, the second connection between authorized peers
  and the loss of one of two sessions that share a registration, and session names are used again. Two
  exchanges give a late handshake of an earlier one, one restart a peer that has lost its keys.
* Three requests with one shared key give a dropped tracker and responses that go to the wrong one.
* Two faults give a torn file that is read and torn again; limits of two and one address a file over the
  limit and one cut between buffers.
* Two starts give a worker that is replaced while it spins, and a session that outlives the start it
  belongs to; two sessions one that is accepted while another is reset. A queue of two with one
  event a cycle keeps an event over a poll. A stopped session is used again only when nothing refers to it.
* One peer is enough for every circle of mutexes found: all mutexes of a peer, of the manager and of
  both trackers are there, each thread is in one call at a time and a call concerns one peer, but for
  the walk over all peers, which holds one peer's mutex at a time under the manager's.
* Two messages give one behind another on the stream, `Capacity` 2 cuts each of them. Messages cover a
  payload that needs padding and one that does not, a tracker and none, every kind of destination, a
  block of ones and signatures that begin like an extension.
* Three requests and two secrets give a response to an earlier request, a repeated request and a
  verification that is late; resets of the acceptor come before and after its response. Three launches
  are one to write a file, one to tear it and one to read it.
* Sources of identifiers begin with 0 to 16 zeros, which is where base 58 loses bytes. Uris lie at
  the lengths of the inline buffer and of the code's limits, with and without scheme, colon and port.
* Three nodes are the least for an introduction: two that know a third. In one configuration those two know each
  other as well, so that they dial each other at once and both exchanges may fail.

`DialSucceeds` has the exception `DialledBack`, and `IntroducedBecomePeers` one for the same reason, because
two nodes that dial each other at once may both fail: if each reads the other's request first, both link the
peer as acceptors, each answers, and the answers reach peers that wait for a verification and close their
exchanges. `EventuallyMutual` is what remains true there.

Deadlock of the model is checked in the `await` run, whose core thread never stops. The other systems
may stop: without more dials, messages, launches or faults they are quiet. A deadlock of
threads is a property of its own (`DeadlockNeedsStop`), as the threads that are not in it go on.

## 4. Disagreements between the code and its words

Three runs end in a violation, each of what the code says of itself.

| Run | Words | Code |
|---|---|---|
| `locks_send` | TCP/Endpoint.cpp:267: a message whose destination is not found is dropped | the tracker runs the report of a stopped session under its mutex, and the report waits for the peer that a send has locked while it waits for the tracker: the send never returns |
| `stream_tracker` | ApplicationMessageTest.cpp:194: the tracker that was bound is unpacked | extensions are read while bytes look like one, not up to their number: without padding, a signature that begins with such a byte replaces the tracker |
| `persistor_entry` | PeerPersistor.cpp:411-412: emplace ensures that the peer can be tracked | a protocol that is not listed gets a null set, the address is dropped and saving dereferences the null |

Further claims are definitions of the modules. To see one violated, name it as the INVARIANT
of the configuration given.

| Definition | Configuration | Words | Code |
|---|---|---|---|
| `RefusedMeansOngoing` | `PeerExchange.cfg` | TCP/Endpoint.cpp:530-532: a refused address has another coroutine working on it | a session that fails before its first message leaves its entry of `m_resolving` for ever |
| `UndeclareFindsAddress` | `PeerExchange.cfg` | PeerManager.cpp:128 asserts that the address was declared | a failing connection by identifier undeclares what it never declared |
| `ResponseFindsEndpoint` | `PeerExchange.cfg` | Handler.cpp:135 asserts that the answer is sent | the session may end between a request and its answer, and its endpoint is withdrawn; what remains true is `RegisteredHasSession` |
| `ReadyWhenAllResponded` | `Await.cfg` | ResponseTracker.cpp:111-112: ready when all responses have been received | the requestor is counted but cannot respond, so that only expiration makes it ready |
| `FileStaysReadable` | `PeerPersistor.cfg` | PeerPersistor.cpp:47: the peers file is limited to 12 KB | the limit is applied to reading alone |
| `ShutdownPostcondition` | `TcpEndpoint.cfg` | the comment at the end of `Shutdown` | a listener that ends by an error clears `m_active`, after which `Shutdown` does not join the worker |
| `DispatchFindsSession`, `ReceiveFindsPeer` | `TcpEndpoint.cfg` | assertions of `ProcessDispatchEvent` and of the receiver's callback | a queued message outlives its session; a received one the tracker's entry |
| `ValidatedIsInitializable` | `Configuration.cfg` | the assertion of `InitializeIdentifierOptions` | validation ignores case, initialization does not: "persistent" passes one and not the other |
| `IdentifierIsGenerated` | `Configuration.cfg` | the comment there: an identifier that is not properly formatted is generated anew | it is dropped |
| `QuietAsksNothing` | `Configuration.cfg` | the help text, StartupOptions.cpp:82-83 | a quiet node without a file asks |
| `SeedsAgree` | `Parts.cfg` | KeyStore.cpp:91-93: the seed goes into the keys | both roles put the two seeds together in one order, but the seed of a synchronization that was given up stays in the store, and the peer's has none of it; the keys agree all the same because the buffer was moved from before |
| `ViewsAreOwn`, `CopiesAreCutAlike` | `Parts.cfg` | Address.cpp:235: no dangling pointers; copies are equal | a moved short text leaves views into the old object; an address of LoRa without a scheme is cut as if it were TCP's |
| `LengthIsAccepted` | `Parts.cfg` | IdentifierDefinitions.hpp:31-32 | three zeros at the head may give a text of thirty characters, which message headers refuse |
| `ReflectionMeansSelf` | `Parts.cfg` | TCP/Endpoint.cpp:670-672: a reflective connection is one to oneself | the search is for a part of the text, so that the uri of another may contain one's own authority |
| `AttemptsAreTcp` | `Parts.cfg` | TCP/Endpoint.cpp:247-248 asserts an address of TCP | entries of any protocol in a discovery response go to the endpoint of the message |

## 5. Fairness

* `PeerExchange`: weak fairness of dialing, of every session's receiver and of the core thread. The
  endpoint's worker polls its coroutines and events in an endless loop, as does the core thread; a
  handler that can run stays runnable until it has run. New dials, failures and restarts are never
  forced.
* `Await`: weak fairness of the core thread's cycle and of the passing of time for a tracker.
* `TcpEndpoint`: the owner's thread and each worker go on (weak), handlers that are ready are run by a
  poll (weak), and a poll ends although connections come and go meanwhile (`[]<>~Ready`, strong
  fairness of the end of a poll): `poll` returns when it finds no handler ready, and the network is
  slower than the worker. What the network does is not forced.
* `PeerLocks`, for `locks_send` alone: strong fairness of each thread's next step, that is, a mutex that is
  freed again and again is got. The counterexample is a circle, which no fairness breaks.
* `MessageStream`: weak fairness of the dispatcher and of the receiver.
* `Handlers`: per node weak fairness of its endpoint, of the handling of messages and of the trackers.
  Neither launches nor requests are forced.
* `PeerPersistor`, `Configuration`, `Synchronization`, `Address` and `BryptIdentifier` state no liveness.

## 6. Proofs

All theorems hold for any values of the constants that satisfy the named assumptions in the modules; one states
a further hypothesis (`DiscoveryOrdered`, below).

**PeerExchange.** `IInv` is the conjunction of `NetOK` (types of connections, who owns which end, and
what a connection's opener implies), `PeersOK` (types of peers and `SinkMatchesMediator`) and `RestOK`.
Types alone are not inductive: that a message handler finds a peer needs that a promoted end is open,
that an open end belongs to one of its connection's two nodes, and that a sink implies a tracked peer.
From it follow `TypeCorrect`, `SinkAgrees` and, as a step property, `AuthorizationStable`.
`NeverFallsThrough` layers `TInv` on it: messages queued for the core thread are of tracked peers, which
is what makes the connections it schedules by identifier safe.

**PeerExchange implements AuthorizedLink.** `LinkRefined` and `KeysAgree` rest on `LInv` on top of `IInv`, with `LInvAgrees` and `StepLinks` as its two uses. `LInv` first gives every
exchange that has begun one owner, the end that declared it: a map that is quantified inside the
invariant and changes only where `DeclareResolvingPeer` begins an exchange. `Owned(owner)` ties dials,
pending addresses, strategies, unread requests and the history of grants to it: a request is first in
one channel only, unread it has neither an answer nor a key, a verification on its way is of a key its
owner was granted. `RelationsOK` is about the two ends of a relation when both dial at once or a process
dies: of two ends that are both answered one has lost its chance to initiate (`OneIsBlocked`), a key an
acceptor took up is what its peer holds or its peer waits for no answer (`AcceptedIsHeld`), and two
acceptors cannot both hold what the other was granted (`OneIsAccepted`). Without these the step
of the initiator could authorize against an end that is already authorized with another key.
`SynchronizeResponse` is `Open`, `SynchronizeVerification` is `Accept`, `Restart` is `Forget`; all other
steps are `Quiet` for what the link shows, or change only ends that still negotiate.

**What PeerExchange promises while no process dies.** `DiscoveryOrdered` supposes that no process dies
(`MaxRestarts = 0`) and nothing else: connections may fail. `ChannelsOrdered` follows each connection's
messages in their order: who has sent an application message is authorized with its key, and its receiver is,
or has a verification to read before it. That survives because an authorized end stays so (`StaysAuthorized`),
and because whatever is sent behind it is ordered as well, by whichever of the pair's sessions it goes
(`CarriedOrdered`). The core thread's answers need the same of what is queued (`QueuedIsMutual`), and that the two
keys are one comes from `LInv`. With one restart TLC finds the property violated: the answer to a
request of the process that died goes, with the key that was lost, over the session its successor has just
opened. The run `exchange_progress` is an instance of the hypothesis.

**What connections leave behind in PeerExchange.** Both theorems hold with failures and restarts. `StrandingIsLoss` says how
an address can become refused with nobody working on it. Its proof goes over what can end the work on an entry of
`m_resolving`: the coroutine that declared it (which undeclares it, or opens a session), the session that was
dialed (which is promoted by its first message, and `LinkPeer` erases the entry, or is lost), and over what could
replace an entry that is worked on. `RegistrationsLead` needs that a registration is made with a promoted session and
that `OnSessionStopped` withdraws it whichever session of the peer stops.

**AuthorizedLink.** `LinkAgrees`: two ends that have authorized each other hold the same key. That
`Synchronization` and `PeerExchange` implement it is proved as well.

**Await.** The inductive invariant joins `TypeOK`, the sanity of each tracker (packs are of nodes with an
entry, counters count them, the requestor has no entry), the accounting that ties open trackers and
sent answers to the history of accepted responses and handled requests, and the two properties
themselves. `OneAnswer` alone is not inductive: that a request is not answered again needs that it is
tracked only if it was handled, and under no second key. Step properties give `NoEarlyAnswer`.

**PeerPersistor.** `LockOK` says who may be where while the process is down, starting or running, and
that one thread at a time rewrites the file; `CacheOK` that what is being saved is in the cache unless
its protocol has a null set, and that no listed protocol lacks its default; `FileOK` that a file that
is not torn lists a protocol and holds everything persisted. `Filling` and `Refilling` are the two facts
about `FillDefaultBootstrap` they rest on: filling leaves nothing to fill, and where nothing is to be
filled what was written is what is read. Together they give `RestartReadsBack`, `AdditionsLast` and
`RefusalJustified`.

**Synchronization.** `SynchronizationRefines` is the refinement of `AuthorizedLink`, for any number of
requests, secrets and resets. Its invariant has four parts: types; `NetworkOK`, what the messages that
were ever sent can contain (an answer covers a request that was made and a secret that was drawn, a
proof only exists of a secret the initiator was ready with); `HistoryOK`, which orders the history
(a secret answers one request, the acceptor's secrets are granted after the initiator's, later secrets
answer no earlier requests, and none that is granted answers the request that is waited for); and `RolesOK`, what a strategy's stage says of its
transaction and its secret. The initiator's step is the abstract `Open`, the acceptor's `Accept`, a
reset `Forget`, and everything else stutters. `CordonsMirror` needs of it only that a secret that both
hold has cordons of opposite roles; the rest is arithmetic over any sizes.

**Configuration.** `PhaseOK` says what the node holds at each step of its start, `IdentityOK` what the
identity is once initialized, `UsedOK` that the file keeps the identity the node last ran with, and
`OwnFileOK` that a file of the node's own that is neither damaged, quoted nor oversized passes validation. The last two need each
other over a restart: what is read is what was written. From them follow `NodesAreConfigured`,
`FileIsOfTheNode`, `OwnFileLasts` and, as a step property, `IdentityLasts`.

**TcpEndpoint.** `IInv` has five parts. `TypeInv` joins the types with `Ownership`, which says for every step
of the owner's call which thread `m_worker` holds, which may be running and which has been told to stop,
and with `ClientNeverBinds`. `WorkerIsOwned` is a property of its own that the others need. `Undisturbed`
is what holds until a listener ends by an error: `m_active` agrees with the worker, and a `Shutdown` past
its join has no worker to reckon with. `BindsOnce` allows one binding among the events that are queued or
being processed, without which an endpoint could open its acceptor twice; `ListenerInv` then follows the
listener of an active server: it accepts, or it will when the acceptor is open, or it has been aborted and
no binding is left that would open the acceptor again. From it follow `WorkerOwned`, `ActiveIsTrue` and
`ListenerAccepts`. `ShutdownIsClean` and `TrackerIsExact` are inductive relative to it: `ResetConnections`
visits each session once, and what a poll of the owner's thread or a late connection does in between is what
`leftover` excepts. They hold for any number of starts, sessions and queued events (`LimitsAssumption`,
`NoSessionAssumption`).

**PeerLocks.** A call is a sequence of steps, and so is what is left of it; an invariant that listed every
such sequence would be the program again. Instead a `Point` says what a thread knows in the middle of a
call (the mutexes it holds, the peers it knows to be linked, the one it is linking, the processor it is in),
`May` which steps are allowed there, and `Safe(t, c, part, d)` that a part of a call leads from one point to
another by allowed steps. Parts in a row are safe together (`Compose`), a scope is safe if its body is
(`Scope`), and so every call of the model is, from the innermost outwards (the lemmas named `...Safe`). The
inductive invariant is then that each thread is in a safe call that ends without mutexes (`CallOK`), that
two threads hold a mutex only if they share it (`Exclusive`), and that what is promoted or authorized is
linked (`DataOK`); what a thread knows survives the steps of the others because peers stay linked and a
session is stopped by its own worker. `May` carries an order of the mutexes (`Rank`): outside of the stop of
a session a thread waits only for a mutex above those it holds, or for one that nobody else can hold. Along a
circle ranks would rise, and there are three threads: `DeadlocksNeedStop`. `RacesNeedUnlocked` follows from
`Exclusive`, and `ProcessorsOutliveUse` from the receiver's mutex, which is held alone by who runs in a processor
and by who destroys it. All of it is for any number of peers and needs no assumption.

**MessageStream.** `SpecReceivedInOrder` and `SpecFailsOnlyAtOnes` hold for any set of messages of either protocol, any
signatures of the right size, any room on the connection and any number of messages. The proof goes up in
layers, each of which says that what is read is what was written:

* Z85: a block is decoded as the bytes that it was encoded from (`DecodeEncodeBlock`), and a refused block was four
  ones; so is a buffer, and any blocks in a row of one (`EncodeIs`, `DecodeIs`).
* The layout: `Carries(bytes, at, field)` says that the bytes have a field at a place. Whatever carries the parts of
  a header in a row has each where `ParseBuffer` looks for it (`HeaderIsParsed`), and so on for payloads, both
  kinds of fields and the padded, signed pack (`PackedIs`). The size that the header announces is the size
  of the pack that the header is in.
* The extensions are read by a recursive function, and the prover has no induction to show that there is one.
  `Least` and `NaturalInduction` give induction as a fact about sets of numbers, from the library's theorem on
  well-founded orders; the function then exists because it looks only further on and the bytes end (`FoundExists`).
* `UnpackedIs`: every message that may be sent is unpacked from its pack as it was, but for the one divergence that the
  run `stream_tracker` shows, which the proof finds again as the only case left.
* The session: `IInv` gives every block on the wire a place, that is, a message and a number of a block. Each block
  leads to the next (`Leads`), from what is read next to what is written next; a lost connection leaves a
  beginning. With that what the receiver holds is the beginning of the message whose turn it is (`ReceiverOK`), so
  that its announced size is right and it stops at the message's end, not in the next one.

`MessageAssumption` says what the program can hand to the builders; its one condition about numbers, that
the size of a pack fits 32 bits, is asserted by `GetPackSize` in ApplicationMessage.cpp:164 and NetworkMessage.cpp:116.

**Address.** `AddressInv` says of every address that lives that its uri has a layout (`IsObject`), and of a valid one
of TCP whose text is outside of its string object that its views are of that text, cut at its scheme and its
last colon, with a host and a port of an accepted form (`Faithful`). Constructing, binding, copying and
assigning cut the text (`CacheIsFaithful`); moving takes the text and the views along, and leaves an address
without either behind. `UriAssumption` says that a uri has lengths, and a colon within it.

**BryptIdentifier.** `IdentifiersSurvive` holds for every set of identifiers and of checksums. A number in a base
has digits, the lowest first, and `Worth` says what those from each place on are worth; `Stands(base, digits, v)` that
the digits are those of `v`.

* `AddStands`: a byte or a character put below the digits of a number gives the digits of what the number is then, and
  at most two more. The carries are a recursive function, which exists by induction (`CarriesExist`, `AddIs`).
* `DigitsAreOne` and `NumberIsOne`: a number has one sequence of digits, and those stand for one number. So what
  the second conversion ends with are the digits that the first began with.
* Zeros at the head stand for nothing and are put back: `WrittenReads` and `ReadsWritten` say that a sequence is its
  `LeadingZeros` and its digits. The last digit is not counted among the zeros: zero has a digit of its own.
* Lengths: powers of 58 and of 256 are compared (`PowersCompare`), so that twenty bytes never need more than eight
  characters more than they are (`EightMore`), and no fewer than six if less than three zeros are at the head
  (`TextLength`). With three there may be less: `LengthIsAccepted` in section 4.
* `NoOther`: bytes that do not end with the checksum of the source, after the source, are refused, so that a changed
  text names the source or nothing. That other bytes have another checksum is how the external hash is
  modelled (`ChecksumOf`).

The inductive invariant, `IdentifierInv`, says for each step of the way that the digits stand for the value of what has
been taken. `IdentifierAssumption` says that identifiers have sixteen bytes and checksums four.

## 7. What is only model-checked

* Of the run `parts` the handlers: what is checked of them is temporal.
* Everything temporal under fairness: `EventuallyMutual`, `DialSucceeds`, `EveryRequestAnswered`,
  `CallsReturn`, `EventsAreTaken`, `SentIsReceived`, `IntroducedBecomePeers`, `NodesQuiet`. Liveness is out of
  reach of the prover used here.

## 8. What is not modelled

* The LoRa endpoint: every method is a stub.
* Readings, reports and the state objects of a node are payloads that no property is about; Election
  only logs.
* The primitives of liboqs and OpenSSL are taken at their word: what was signed verifies with the
  same key only, and an encapsulation opens with its key only. Numbers they can fail with are
  error paths of `Synchronization`.
* Regular expressions of addresses are abstracted to the form of host and port; the JSON decoders to what they yield.
  A read error in the middle of a configuration file (the stream is not looked at after reading) is left out.
* `Address.Bindable` leaves out a text like "tcp://host" that has a scheme and no port: `BuildBindingUri` copies
  a range that ends before it begins, which is undefined.
* What a node had stored of a peer whose process ends in the middle of their exchange is left out of `Handlers`.
* Statistics, logging, the parsing of the command line, the registration of observers (before the
  threads run), and functions without a caller (`SerializeEndpointPeers`, the tracker for one peer).
* `DeleteBootstrapEntry` is never reached with an address: a withdrawn endpoint has erased it before.
* Arduino and research sketches under `src/` share no code with the node.

## 9. Plan

What was planned is built: the exchange and its abstract promise, the strategy below it, the endpoint's
life, the locks, the messages on the wire, the handlers above and the two files. What would extend it, in
this order:

1. An endpoint with two users: `TcpEndpoint` with `PeerLocks`' calls in its handlers.
2. `Handlers` over sessions that end, with the resolving entries of `PeerExchange`.
