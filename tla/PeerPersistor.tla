---------------------------- MODULE PeerPersistor ----------------------------
(***************************************************************************)
(* The file of known peers: how a node reads it before anything else       *)
(* starts, and how the client endpoint's worker (a peer connected) and the *)
(* core thread (a discovery request names an entrypoint) add to it.  Every *)
(* addition truncates the file and writes it anew while the process and    *)
(* the disk may fail; the next start reads what is left.                   *)
(*                                                                         *)
(* An address has one protocol, so the map of protocols to sets of         *)
(* addresses is the set of its keys and the set of all addresses in it.    *)
(***************************************************************************)
EXTENDS Naturals, FiniteSets

CONSTANTS
    Protocol,       \* protocols that have a name in the peers file
    Address,        \* valid, bootstrapable addresses
    ProtocolOf,     \* the protocol of an address
    Default,        \* for a configured protocol its bootstrap: one address or none
    Peer,           \* peers the client endpoint has sessions with
    FileLimit,      \* addresses in the largest file that DecodePeersFile reads
    BufferLimit,    \* addresses that fit the output stream's buffer
    MaxFaults,      \* bound: process deaths and failures of the file system
    NoAddress

ASSUME AddressAssumption ==
    /\ ProtocolOf \in [Address -> Protocol]
    /\ NoAddress \notin Address
    /\ IsFiniteSet(Address)
ASSUME DefaultAssumption ==
    /\ DOMAIN Default \subseteq Protocol
    /\ DOMAIN Default # {}
    /\ \A p \in DOMAIN Default : \A a \in Default[p] : a \in Address /\ ProtocolOf[a] = p
ASSUME LimitsAssumption == FileLimit \in Nat /\ BufferLimit \in Nat /\ MaxFaults \in Nat

Thread == {"main", "client", "core"}

VARIABLES
    process,    \* the node's process, and what FetchBootstraps told main
    file,       \* the peers file
    cache,      \* m_upProtocols: the protocols that have a set, and what is in the sets
    null,       \* m_upProtocols: the protocols whose set is a null pointer
    registered, \* BryptPeer::m_endpoints at the client endpoint: a peer's address
    pc,         \* where a thread is in AddBootstrapEntry, or main in SetupPeersFile
    adding,     \* the address a thread is adding
    faults,     \* process deaths and failures so far
    behind,     \* history: the process could not bring the file up to date
    torn,       \* history: the file was truncated and not written to its end
    persisted   \* history: addresses whose addition completed

memory == <<cache, null, registered, pc, adding>>
history == <<behind, torn, persisted>>
vars == <<process, file, memory, faults, history>>

Map == [protocols : SUBSET Protocol, known : SUBSET Address]
EmptyMap == [protocols |-> {}, known |-> {}]

DefaultOf(p) == IF p \in DOMAIN Default THEN Default[p] ELSE {}
Known(m, p) == {a \in m.known : ProtocolOf[a] = p}

(* A protocol listed without peers gets its configured bootstrap.          *)
FillDefaultBootstrap(m) ==
    [m EXCEPT !.known = @ \cup UNION {DefaultOf(p) : p \in {q \in m.protocols : Known(m, q) = {}}}]

(* A file is read if it is neither empty nor too large and lists a protocol. *)
ReadableBelow(m) ==                                 \* mutant: a file at the limit is not read
    Cardinality(m.known) < FileLimit /\ m.protocols # {}
Readable(m) == Cardinality(m.known) <= FileLimit /\ m.protocols # {}

(* What a first part of the file may hold: whatever was listed up to there. *)
Parts(m) == {part \in Map : part.protocols \subseteq m.protocols /\ part.known \subseteq m.known
                            /\ \A a \in part.known : ProtocolOf[a] \in part.protocols}

-------------------------------------------------------------------------------
(* There is no file yet, or one that was written under some configuration. *)
Init ==
    /\ process = "down"
    /\ \/ file = [exists |-> FALSE, peers |-> EmptyMap]
       \/ \E m \in Parts([protocols |-> Protocol, known |-> Address]) :
              Readable(m) /\ file = [exists |-> TRUE, peers |-> m]
    /\ cache = EmptyMap
    /\ null = {}
    /\ registered = [p \in Peer |-> NoAddress]
    /\ pc = [t \in Thread |-> "idle"]
    /\ adding = [t \in Thread |-> NoAddress]
    /\ faults = 0
    /\ behind = FALSE
    /\ torn = FALSE
    /\ persisted = {}

(***************************************************************************)
(* FetchBootstraps: the file is decoded, or generated when there is none.  *)
(* What a torn file no longer held is lost from here on.                   *)
(***************************************************************************)
DecodePeersFile ==
    /\ process = "down"
    /\ file.exists
    /\ Readable(file.peers)
    /\ cache' = FillDefaultBootstrap(file.peers)
    /\ process' = "running"
    /\ persisted' = IF torn THEN persisted \cap cache'.known ELSE persisted
    /\ behind' = FALSE
    /\ UNCHANGED <<file, null, registered, pc, adding, faults, torn>>

DecodingFails ==
    /\ process = "down"
    /\ file.exists
    /\ ~Readable(file.peers)
    /\ process' = "refused"
    /\ UNCHANGED <<file, memory, faults, history>>

SetupPeersFile ==
    /\ process = "down"
    /\ ~file.exists
    /\ cache' = [protocols |-> DOMAIN Default, known |-> UNION {Default[p] : p \in DOMAIN Default}]
    /\ process' = "starting"
    /\ pc' = [pc EXCEPT !["main"] = "serializing"]
    /\ behind' = FALSE
    /\ UNCHANGED <<file, null, registered, adding, faults, torn, persisted>>

(***************************************************************************)
(* The sources of new addresses.                                           *)
(***************************************************************************)
Adds(t, a) ==
    /\ process = "running"
    /\ pc[t] = "idle"
    /\ pc' = [pc EXCEPT ![t] = "waiting"]
    /\ adding' = [adding EXCEPT ![t] = a]

(* RegisterEndpoint keeps the registration of an earlier session, then the *)
(* observers are told, and the persistor asks for the registered address.  *)
(* Endpoints exist for configured protocols only.                          *)
Connected(p, a) ==
    LET kept == IF registered[p] = NoAddress THEN a ELSE registered[p]
    IN  /\ ProtocolOf[a] \in DOMAIN Default
        /\ Adds("client", kept)
        /\ registered' = [registered EXCEPT ![p] = kept]
        /\ UNCHANGED <<process, file, cache, null, faults, history>>

(* WithdrawEndpoint erases the registration before the observers are told: *)
(* the persistor finds no address to delete.                               *)
Disconnected(p) ==
    /\ process = "running"
    /\ pc["client"] = "idle"
    /\ registered[p] # NoAddress
    /\ registered' = [registered EXCEPT ![p] = NoAddress]
    /\ UNCHANGED <<process, file, cache, null, pc, adding, faults, history>>

(* An entrypoint of a discovery request, of whatever protocol.             *)
HandleDiscoveryRequest(a) ==
    /\ Adds("core", a)
    /\ UNCHANGED <<process, file, cache, null, registered, faults, history>>

(***************************************************************************)
(* AddBootstrapEntry under m_protocolsMutex.  try_emplace gives a protocol *)
(* that is not listed a null set, and a null set takes no address.         *)
(***************************************************************************)
Unlocked == \A t \in Thread : pc[t] \in {"idle", "waiting"}

AddsUnsaved(t) ==                                   \* mutant: the file is not rewritten
    /\ pc[t] = "waiting"
    /\ Unlocked
    /\ pc' = [pc EXCEPT ![t] = "idle"]
    /\ cache' = [cache EXCEPT !.known = @ \cup {adding[t]}]
    /\ UNCHANGED <<process, file, null, registered, adding, faults, history>>

AddBootstrapEntry(t) ==
    LET p == ProtocolOf[adding[t]]
    IN  /\ pc[t] = "waiting"
        /\ Unlocked
        /\ pc' = [pc EXCEPT ![t] = "serializing"]
        /\ \/ /\ p \in cache.protocols
              /\ cache' = [cache EXCEPT !.known = @ \cup {adding[t]}]
              /\ UNCHANGED null
           \/ /\ p \notin cache.protocols
              /\ null' = null \cup {p}
              /\ UNCHANGED cache
        /\ UNCHANGED <<process, file, registered, adding, faults, history>>

(***************************************************************************)
(* Serialize: opening truncates, full buffers are written on the way, and  *)
(* closing writes the rest; only the opening is checked.                   *)
(***************************************************************************)
Released(t) ==
    /\ pc' = [pc EXCEPT ![t] = "idle"]
    /\ adding' = [adding EXCEPT ![t] = NoAddress]
    /\ UNCHANGED <<null, registered, cache>>

Open(t) ==
    /\ pc[t] = "serializing"
    /\ file' = [exists |-> TRUE, peers |-> EmptyMap]
    /\ torn' = TRUE
    /\ pc' = [pc EXCEPT ![t] = "writing"]
    /\ UNCHANGED <<process, cache, null, registered, adding, faults, behind, persisted>>

(* FetchBootstraps reports the failure to main, AddBootstrapEntry drops it. *)
OpenFails(t) ==
    /\ pc[t] = "serializing"
    /\ faults < MaxFaults
    /\ faults' = faults + 1
    /\ Released(t)
    /\ process' = IF t = "main" THEN "refused" ELSE process
    /\ behind' = TRUE
    /\ UNCHANGED <<file, torn, persisted>>

Flush(t) ==
    /\ pc[t] = "writing"
    /\ Cardinality(cache.known) > BufferLimit
    /\ file.peers = EmptyMap
    /\ \E part \in Parts(cache) : file' = [exists |-> TRUE, peers |-> part]
    /\ UNCHANGED <<process, memory, faults, history>>

(* Mutant: the set is written without the address that was just added.     *)
WriteStale(t) ==
    /\ pc[t] = "writing"
    /\ null = {}
    /\ file' = [exists |-> TRUE, peers |-> [cache EXCEPT !.known = @ \ {adding[t]}]]
    /\ Released(t)
    /\ process' = "running"
    /\ behind' = FALSE
    /\ torn' = FALSE
    /\ persisted' = persisted \cup ({adding[t]} \ {NoAddress})
    /\ UNCHANGED faults

WriteEndpointPeers(t) ==
    /\ pc[t] = "writing"
    /\ null = {}
    /\ file' = [exists |-> TRUE, peers |-> cache]
    /\ Released(t)
    /\ process' = "running"
    /\ behind' = FALSE
    /\ torn' = FALSE
    /\ persisted' = persisted \cup ({adding[t]} \ {NoAddress})
    /\ UNCHANGED faults

(* The disk is full: the stream's state is not looked at again.            *)
WriteFails(t) ==
    /\ pc[t] = "writing"
    /\ null = {}
    /\ faults < MaxFaults
    /\ faults' = faults + 1
    /\ Released(t)
    /\ process' = "running"
    /\ behind' = TRUE
    /\ UNCHANGED <<file, torn, persisted>>

(***************************************************************************)
(* The end of the process: a null set is dereferenced, or anything else.   *)
(***************************************************************************)
Down ==
    /\ process' = "down"
    /\ cache' = EmptyMap
    /\ null' = {}
    /\ registered' = [p \in Peer |-> NoAddress]
    /\ pc' = [t \in Thread |-> "idle"]
    /\ adding' = [t \in Thread |-> NoAddress]
    /\ UNCHANGED <<file, history>>

WritesNullSet(t) ==
    /\ pc[t] = "writing"
    /\ null # {}
    /\ Down
    /\ UNCHANGED faults

Crash ==
    /\ process \in {"starting", "running"}
    /\ faults < MaxFaults
    /\ faults' = faults + 1
    /\ Down

-------------------------------------------------------------------------------
Serialize(t) ==
    \/ Open(t)
    \/ OpenFails(t)
    \/ Flush(t)
    \/ WriteEndpointPeers(t)
    \/ WriteFails(t)
    \/ WritesNullSet(t)

Next ==
    \/ DecodePeersFile
    \/ DecodingFails
    \/ SetupPeersFile
    \/ \E p \in Peer, a \in Address : Connected(p, a)
    \/ \E p \in Peer : Disconnected(p)
    \/ \E a \in Address : HandleDiscoveryRequest(a)
    \/ \E t \in Thread : AddBootstrapEntry(t)
    \/ \E t \in Thread : Serialize(t)
    \/ Crash

Spec == Init /\ [][Next]_vars

-------------------------------------------------------------------------------
TypeOK ==
    /\ process \in {"down", "starting", "running", "refused"}
    /\ file \in [exists : BOOLEAN, peers : Map]
    /\ cache \in Map
    /\ null \subseteq Protocol
    /\ registered \in [Peer -> Address \cup {NoAddress}]
    /\ pc \in [Thread -> {"idle", "waiting", "serializing", "writing"}]
    /\ adding \in [Thread -> Address \cup {NoAddress}]
    /\ faults \in 0 .. MaxFaults
    /\ behind \in BOOLEAN
    /\ torn \in BOOLEAN
    /\ persisted \subseteq Address

(* While nobody is rewriting the file, a restart would read back exactly   *)
(* what the process knows (FetchBootstraps after AddBootstrapEntry), unless *)
(* the file could not be opened or written, and until it is too large.     *)
RestartRecovers ==
    process = "running" /\ Unlocked /\ ~behind =>
        file.exists /\ FillDefaultBootstrap(file.peers) = cache

(* An address whose addition completed is known in every later life of the *)
(* node, except when the file was torn by the end of the process or a full  *)
(* disk and a start read what was left (PeerPersistor.cpp:253-265).        *)
NothingLost == process = "running" => persisted \subseteq cache.known

(* main gives up (main.cpp:57-60) only over a file that was torn or that   *)
(* has outgrown the limit, never over one the program wrote to its end.    *)
RefusedMeansTorn ==
    process = "refused" /\ file.exists => torn \/ Cardinality(file.peers.known) > FileLimit

(* PeerPersistor.cpp:411-412: "Since we always want ensure the peer can be *)
(* tracked, we use emplace to either insert a new entry ... or get the     *)
(* existing entry": what is being added is in the cache when it is saved.  *)
AddedIsTracked ==
    \A t \in {"client", "core"} :
        pc[t] \in {"serializing", "writing"} => adding[t] \in cache.known

(* PeerPersistor.cpp:47: "Limit the peers files to 12KB": what the program *)
(* writes, it reads at the next start.                                     *)
FileStaysReadable == file.exists /\ ~torn => Readable(file.peers)

===============================================================================
