------------------------- MODULE PeerPersistorProofs -------------------------
(***************************************************************************)
(* The peers file, for any protocols, addresses, defaults and limits: what *)
(* a restart reads back is what the process knew, nothing whose addition   *)
(* completed is lost, and a start is refused over a torn file only or one  *)
(* that is too large.                                                      *)
(***************************************************************************)
EXTENDS PeerPersistor, FiniteSetTheorems, TLAPS

(* Who may be where: main is alone until the file is set up, and one thread *)
(* at a time rewrites the file.                                            *)
Holds(t) == pc[t] \in {"serializing", "writing"}

LockOK ==
    /\ process \in {"down", "refused"} => \A t \in Thread : pc[t] = "idle"
    /\ process = "starting" =>
          /\ Holds("main")
          /\ \A t \in Thread \ {"main"} : pc[t] = "idle"
    /\ process = "running" => pc["main"] = "idle"
    /\ \A t, u \in Thread : Holds(t) /\ Holds(u) => t = u

(* No protocol in the cache lacks its configured bootstrap, and what is    *)
(* being saved is in the cache unless its protocol has a null set.         *)
Filled(m) == \A p \in m.protocols : Known(m, p) = {} => DefaultOf(p) = {}

CacheOK ==
    /\ process \in {"starting", "running"} => cache.protocols # {} /\ Filled(cache)
    /\ \A t \in Thread : pc[t] # "idle" /\ t # "main" => adding[t] \in Address
    /\ adding["main"] = NoAddress
    /\ \A t \in Thread : Holds(t) /\ t # "main" /\ null = {} => adding[t] \in cache.known

(* A file that is not torn lists a protocol and holds what was persisted.  *)
FileOK ==
    /\ pc["main"] = "serializing" => ~file.exists
    /\ \A t \in Thread : pc[t] = "writing" => file.exists /\ torn
    /\ ~file.exists => persisted = {}
    /\ process = "starting" => persisted = {}
    /\ file.exists /\ ~torn =>
          /\ file.peers.protocols # {}
          /\ persisted \subseteq FillDefaultBootstrap(file.peers).known

IInv ==
    /\ TypeOK /\ LockOK /\ CacheOK /\ FileOK
    /\ RestartRecovers /\ NothingLost /\ RefusedMeansTorn

-------------------------------------------------------------------------------
(* FillDefaultBootstrap keeps what is listed and leaves nothing to fill.   *)
LEMMA Filling ==
    ASSUME NEW m \in Map
    PROVE  /\ FillDefaultBootstrap(m) \in Map
           /\ FillDefaultBootstrap(m).protocols = m.protocols
           /\ m.known \subseteq FillDefaultBootstrap(m).known
           /\ Filled(FillDefaultBootstrap(m))
<1> DEFINE bare == {q \in m.protocols : Known(m, q) = {}}
           added == UNION {DefaultOf(p) : p \in bare}
           fill == FillDefaultBootstrap(m)
<1>1. \A p \in Protocol : \A a \in DefaultOf(p) : a \in Address /\ ProtocolOf[a] = p
  BY DefaultAssumption DEF DefaultOf
<1>2. m.protocols \subseteq Protocol /\ m.known \subseteq Address
  BY DEF Map
<1>3. added \subseteq Address
  BY <1>1, <1>2
<1>4. /\ fill \in Map
      /\ fill.protocols = m.protocols
      /\ fill.known = m.known \cup added
  BY <1>2, <1>3 DEF Map, FillDefaultBootstrap
<1>5. ASSUME NEW p \in m.protocols, Known(fill, p) = {} PROVE DefaultOf(p) = {}
  <2>1. Known(m, p) = {}
    BY <1>4, <1>5 DEF Known
  <2>2. p \in bare
    BY <2>1
  <2>3. DefaultOf(p) \subseteq fill.known
    BY <1>4, <2>2
  <2>4. DefaultOf(p) \subseteq Known(fill, p)
    BY <1>1, <1>2, <2>3 DEF Known
  <2> QED
    BY <1>5, <2>4
<1>6. Filled(fill)
  BY <1>4, <1>5 DEF Filled
<1> QED
  BY <1>4, <1>6

(* Where nothing is to be filled in, what is written is what is read.      *)
LEMMA Refilling ==
    ASSUME NEW m \in Map, Filled(m)
    PROVE  FillDefaultBootstrap(m) = m
<1> DEFINE added == UNION {DefaultOf(p) : p \in {q \in m.protocols : Known(m, q) = {}}}
<1>1. added = {}
  BY DEF Filled
<1>2. m.known \cup added = m.known
  BY <1>1
<1>3. FillDefaultBootstrap(m) = [m EXCEPT !.known = m.known \cup added]
  BY DEF FillDefaultBootstrap, Map
<1>4. [m EXCEPT !.known = m.known] = m
  BY DEF Map
<1> QED
  BY <1>2, <1>3, <1>4

(* The map generated from the configuration has its bootstraps.            *)
LEMMA Generated ==
    LET m == [protocols |-> DOMAIN Default, known |-> UNION {Default[p] : p \in DOMAIN Default}]
    IN  m \in Map /\ m.protocols # {} /\ Filled(m)
<1> DEFINE m == [protocols |-> DOMAIN Default, known |-> UNION {Default[p] : p \in DOMAIN Default}]
<1>1. m \in Map /\ m.protocols # {}
  BY DefaultAssumption DEF Map
<1>2. ASSUME NEW p \in m.protocols PROVE DefaultOf(p) \subseteq Known(m, p)
  BY DefaultAssumption DEF DefaultOf, Known
<1>3. Filled(m)
  BY <1>2 DEF Filled
<1> QED
  BY <1>1, <1>3

LEMMA EmptyType == EmptyMap \in Map
BY DEF EmptyMap, Map

(* Adding an address keeps the cache well formed.                          *)
LEMMA Growing ==
    ASSUME NEW m \in Map, NEW a \in Address, Filled(m)
    PROVE  LET n == [m EXCEPT !.known = @ \cup {a}]
           IN  /\ n \in Map /\ n.protocols = m.protocols /\ n.known = m.known \cup {a}
               /\ Filled(n)
<1> DEFINE n == [m EXCEPT !.known = @ \cup {a}]
<1>1. n \in Map /\ n.protocols = m.protocols /\ n.known = m.known \cup {a}
  BY DEF Map
<1>2. \A p : Known(m, p) \subseteq Known(n, p)
  BY <1>1 DEF Known
<1>3. Filled(n)
  BY <1>1, <1>2 DEF Filled
<1> QED
  BY <1>1, <1>3

-------------------------------------------------------------------------------
LEMMA InitInv == Init => IInv
<1> SUFFICES ASSUME Init PROVE IInv
  OBVIOUS
<1>1. file \in [exists : BOOLEAN, peers : Map] /\ (file.exists => file.peers.protocols # {})
  <2>1. CASE file = [exists |-> FALSE, peers |-> EmptyMap]
    BY <2>1, EmptyType
  <2>2. ASSUME NEW m \in Map, m.protocols # {}, file = [exists |-> TRUE, peers |-> m]
        PROVE  file \in [exists : BOOLEAN, peers : Map] /\ file.peers.protocols # {}
    BY <2>2
  <2> QED
    BY <2>1, <2>2 DEF Init, Parts, Readable
<1>2. TypeOK
  <2>1. cache \in Map
    BY EmptyType DEF Init
  <2>2. /\ pc \in [Thread -> {"idle", "waiting", "serializing", "writing"}]
        /\ adding \in [Thread -> Address \cup {NoAddress}]
        /\ registered \in [Peer -> Address \cup {NoAddress}]
    BY DEF Init
  <2>3. /\ process = "down" /\ null = {} /\ faults = 0 /\ behind = FALSE /\ torn = FALSE
        /\ persisted = {}
    BY DEF Init
  <2>4. faults \in 0 .. MaxFaults
    BY <2>3, LimitsAssumption
  <2> QED
    BY <1>1, <2>1, <2>2, <2>3, <2>4 DEF TypeOK
<1>3. LockOK /\ CacheOK /\ FileOK
  BY <1>1 DEF Init, LockOK, CacheOK, FileOK, Holds, Thread
<1>4. RestartRecovers /\ NothingLost /\ RefusedMeansTorn
  BY DEF Init, RestartRecovers, NothingLost, RefusedMeansTorn
<1> QED
  BY <1>2, <1>3, <1>4 DEF IInv

(* Reading the file, at the start of the process.                          *)
LEMMA StartInv ==
    ASSUME IInv, DecodePeersFile \/ DecodingFails \/ SetupPeersFile
    PROVE  IInv'
<1> USE DEF IInv, Thread
<1>1. CASE DecodePeersFile
  <2>1. /\ process = "down" /\ process' = "running" /\ file.exists /\ file' = file
        /\ file.peers \in Map /\ file.peers.protocols # {}
        /\ cache' = FillDefaultBootstrap(file.peers)
        /\ persisted' = (IF torn THEN persisted \cap cache'.known ELSE persisted)
        /\ UNCHANGED <<null, registered, pc, adding, faults, torn>>
        /\ behind' = FALSE
    BY <1>1 DEF DecodePeersFile, Readable, TypeOK
  <2>2. cache' \in Map /\ cache'.protocols # {} /\ Filled(cache')
    BY <2>1, Filling
  <2>3. TypeOK'
    BY <2>1, <2>2 DEF TypeOK
  <2>4. LockOK' /\ CacheOK'
    BY <2>1, <2>2 DEF LockOK, CacheOK, Holds, Filled
  <2>5. persisted' \subseteq cache'.known
    BY <2>1 DEF FileOK
  <2>6. FileOK'
    BY <2>1, <2>5 DEF FileOK
  <2> QED
    BY <2>1, <2>3, <2>4, <2>5, <2>6 DEF RestartRecovers, NothingLost, RefusedMeansTorn
<1>2. CASE DecodingFails
  <2>1. /\ process = "down" /\ process' = "refused" /\ file.exists
        /\ ~Readable(file.peers)
        /\ UNCHANGED <<file, cache, null, registered, pc, adding, faults, behind, torn, persisted>>
    BY <1>2 DEF DecodingFails, memory, history
  <2>2. TypeOK' /\ LockOK' /\ CacheOK' /\ FileOK'
    BY <2>1 DEF TypeOK, LockOK, CacheOK, FileOK, Holds, Filled
  <2>3. torn \/ Cardinality(file.peers.known) > FileLimit
    <3>1. CASE ~torn
      <4>1. file.peers.protocols # {}
        BY <2>1, <3>1 DEF FileOK
      <4>2. ~(Cardinality(file.peers.known) <= FileLimit)
        BY <2>1, <4>1 DEF Readable
      <4>3. IsFiniteSet(file.peers.known)
        BY AddressAssumption, FS_Subset DEF TypeOK, Map
      <4>4. Cardinality(file.peers.known) \in Nat
        BY <4>3, FS_CardinalityType
      <4> QED
        BY <4>2, <4>4, LimitsAssumption
    <3> QED
      BY <3>1
  <2> QED
    BY <2>1, <2>2, <2>3 DEF RestartRecovers, NothingLost, RefusedMeansTorn
<1>3. CASE SetupPeersFile
  <2>1. /\ process = "down" /\ process' = "starting" /\ ~file.exists
        /\ cache' \in Map /\ cache'.protocols # {} /\ Filled(cache')
        /\ pc' = [pc EXCEPT !["main"] = "serializing"]
        /\ UNCHANGED <<file, null, registered, adding, faults, torn, persisted>>
        /\ behind' = FALSE
    BY <1>3, Generated DEF SetupPeersFile
  <2>2. TypeOK'
    BY <2>1 DEF TypeOK
  <2>3. pc \in [Thread -> {"idle", "waiting", "serializing", "writing"}]
        /\ \A t \in Thread : pc[t] = "idle"
    BY <2>1 DEF TypeOK, LockOK
  <2>4. LockOK'
    BY <2>1, <2>3 DEF LockOK, Holds
  <2>5. CacheOK'
    BY <2>1, <2>3 DEF CacheOK, Holds, Filled
  <2>6. FileOK'
    BY <2>1 DEF FileOK
  <2> QED
    BY <2>1, <2>2, <2>4, <2>5, <2>6 DEF RestartRecovers, NothingLost, RefusedMeansTorn
<1> QED
  BY <1>1, <1>2, <1>3

(* New addresses, and AddBootstrapEntry.                                   *)
LEMMA AddInv ==
    ASSUME IInv,
           \/ \E p \in Peer, a \in Address : Connected(p, a)
           \/ \E p \in Peer : Disconnected(p)
           \/ \E a \in Address : HandleDiscoveryRequest(a)
           \/ \E t \in Thread : AddBootstrapEntry(t)
    PROVE  IInv'
<1> USE DEF IInv, Thread
<1>1. pc \in [Thread -> {"idle", "waiting", "serializing", "writing"}]
      /\ adding \in [Thread -> Address \cup {NoAddress}]
      /\ registered \in [Peer -> Address \cup {NoAddress}]
  BY DEF TypeOK
<1>2. ASSUME NEW t \in {"client", "core"}, NEW a \in Address, Adds(t, a),
             registered' \in [Peer -> Address \cup {NoAddress}],
             UNCHANGED <<process, file, cache, null, faults, behind, torn, persisted>>
      PROVE  IInv'
  <2>1. /\ process = "running" /\ pc[t] = "idle" /\ t # "main"
        /\ pc' = [pc EXCEPT ![t] = "waiting"] /\ adding' = [adding EXCEPT ![t] = a]
    BY <1>2 DEF Adds
  <2>2. TypeOK'
    BY <1>1, <1>2, <2>1 DEF TypeOK
  <2>3. \A u \in Thread : Holds(u)' <=> Holds(u)
    BY <1>1, <2>1 DEF Holds
  <2>4. LockOK'
    BY <1>1, <1>2, <2>1, <2>3 DEF LockOK
  <2>5. CacheOK'
    BY <1>1, <1>2, <2>1, <2>3 DEF CacheOK, Filled, Holds
  <2>6. FileOK'
    BY <1>1, <1>2, <2>1 DEF FileOK
  <2>7. Unlocked' => Unlocked
    BY <1>1, <2>1 DEF Unlocked
  <2> QED
    BY <1>2, <2>2, <2>4, <2>5, <2>6, <2>7 DEF RestartRecovers, NothingLost, RefusedMeansTorn
<1>3. ASSUME NEW p \in Peer, NEW a \in Address, Connected(p, a) PROVE IInv'
  <2> DEFINE kept == IF registered[p] = NoAddress THEN a ELSE registered[p]
  <2>1. kept \in Address
    BY <1>1
  <2>2. Adds("client", kept) /\ registered' = [registered EXCEPT ![p] = kept]
        /\ UNCHANGED <<process, file, cache, null, faults, behind, torn, persisted>>
    BY <1>3 DEF Connected, history
  <2> QED
    BY <1>1, <1>2, <2>1, <2>2
<1>4. ASSUME NEW a \in Address, HandleDiscoveryRequest(a) PROVE IInv'
  BY <1>1, <1>2, <1>4 DEF HandleDiscoveryRequest, history
<1>5. ASSUME NEW p \in Peer, Disconnected(p) PROVE IInv'
  <2>1. registered' = [registered EXCEPT ![p] = NoAddress]
        /\ UNCHANGED <<process, file, cache, null, pc, adding, faults, behind, torn, persisted>>
    BY <1>5 DEF Disconnected, history
  <2>2. TypeOK'
    BY <1>1, <2>1 DEF TypeOK
  <2>3. LockOK' /\ CacheOK' /\ FileOK'
    BY <2>1 DEF LockOK, CacheOK, FileOK, Holds, Filled
  <2> QED
    BY <2>1, <2>2, <2>3 DEF RestartRecovers, NothingLost, RefusedMeansTorn, Unlocked
<1>6. ASSUME NEW t \in Thread, AddBootstrapEntry(t) PROVE IInv'
  <2> DEFINE q == ProtocolOf[adding[t]]
  <2>1. /\ pc[t] = "waiting" /\ pc' = [pc EXCEPT ![t] = "serializing"]
        /\ \A u \in Thread : ~Holds(u)
        /\ UNCHANGED <<process, file, registered, adding, faults, behind, torn, persisted>>
    BY <1>6 DEF AddBootstrapEntry, Unlocked, Holds, history
  <2>2. process = "running" /\ t # "main" /\ adding[t] \in Address
    BY <2>1 DEF LockOK, CacheOK, TypeOK
  <2>3. /\ cache' \in Map /\ null' \subseteq Protocol
        /\ cache'.protocols # {} /\ Filled(cache') /\ cache.known \subseteq cache'.known
        /\ null' = {} => adding[t] \in cache'.known
    <3>1. CASE null' = null /\ cache' = [cache EXCEPT !.known = @ \cup {adding[t]}]
      BY <2>2, <3>1, Growing DEF CacheOK, TypeOK
    <3>2. CASE null' = null \cup {q} /\ cache' = cache
      BY <2>2, <3>2, AddressAssumption DEF CacheOK, TypeOK
    <3> QED
      BY <1>6, <3>1, <3>2 DEF AddBootstrapEntry
  <2>4. TypeOK'
    BY <1>1, <2>1, <2>3 DEF TypeOK
  <2>5. \A u \in Thread : Holds(u)' <=> u = t
    BY <1>1, <2>1 DEF Holds
  <2>6. LockOK'
    BY <1>1, <2>1, <2>2, <2>5 DEF LockOK
  <2>7. CacheOK'
    BY <1>1, <2>1, <2>2, <2>3, <2>5 DEF CacheOK, Filled
  <2>8. FileOK'
    BY <1>1, <2>1, <2>2 DEF FileOK
  <2>9. ~Unlocked'
    BY <1>1, <2>1 DEF Unlocked
  <2>10. NothingLost' /\ RefusedMeansTorn'
    BY <2>1, <2>2, <2>3 DEF NothingLost, RefusedMeansTorn
  <2> QED
    BY <2>4, <2>6, <2>7, <2>8, <2>9, <2>10 DEF RestartRecovers
<1> QED
  BY <1>3, <1>4, <1>5, <1>6

(* Rewriting the file.                                                     *)
LEMMA SerializeInv ==
    ASSUME IInv, NEW t \in Thread,
           \/ Open(t) \/ OpenFails(t) \/ Flush(t) \/ WriteEndpointPeers(t) \/ WriteFails(t)
    PROVE  IInv'
<1> USE DEF IInv, Thread
<1>1. pc \in [Thread -> {"idle", "waiting", "serializing", "writing"}]
      /\ adding \in [Thread -> Address \cup {NoAddress}]
      /\ cache \in Map /\ file \in [exists : BOOLEAN, peers : Map]
  BY DEF TypeOK
<1>2. /\ Holds(t)
      /\ \A u \in Thread : Holds(u) => u = t
      /\ process \in {"starting", "running"}
      /\ process = "starting" <=> t = "main"
  BY <1>1 DEF Open, OpenFails, Flush, WriteEndpointPeers, WriteFails, Holds, LockOK, TypeOK
<1>3. CASE Open(t)
  <2>1. /\ file' = [exists |-> TRUE, peers |-> EmptyMap] /\ torn' = TRUE
        /\ pc' = [pc EXCEPT ![t] = "writing"] /\ pc[t] = "serializing"
        /\ UNCHANGED <<process, cache, null, registered, adding, faults, behind, persisted>>
    BY <1>3 DEF Open
  <2>2. TypeOK'
    BY <1>1, <2>1, EmptyType DEF TypeOK
  <2>3. \A u \in Thread : Holds(u)' <=> Holds(u)
    BY <1>1, <2>1 DEF Holds
  <2>4. LockOK'
    BY <1>1, <2>1, <2>3 DEF LockOK, Holds
  <2>5. CacheOK'
    BY <1>1, <2>1, <2>3 DEF CacheOK, Filled, Holds
  <2>6. FileOK'
    BY <1>1, <1>2, <2>1 DEF FileOK, LockOK, Holds
  <2>7. ~Unlocked'
    BY <1>1, <2>1 DEF Unlocked
  <2> QED
    BY <1>2, <2>1, <2>2, <2>4, <2>5, <2>6, <2>7 DEF RestartRecovers, NothingLost, RefusedMeansTorn
<1>4. CASE Flush(t)
  <2>1. /\ file'.exists = TRUE /\ file' \in [exists : BOOLEAN, peers : Map]
        /\ UNCHANGED <<process, cache, null, registered, pc, adding, faults, behind, torn, persisted>>
        /\ pc[t] = "writing" /\ file.peers = EmptyMap
    BY <1>4 DEF Flush, Parts, memory, history
  <2>2. TypeOK' /\ LockOK' /\ CacheOK'
    BY <2>1 DEF TypeOK, LockOK, CacheOK, Holds, Filled
  <2>3. file.exists /\ torn
    BY <2>1 DEF FileOK
  <2>4. FileOK'
    BY <2>1, <2>3 DEF FileOK
  <2>5. ~Unlocked'
    BY <2>1 DEF Unlocked
  <2> QED
    BY <1>2, <2>1, <2>2, <2>4, <2>5 DEF RestartRecovers, NothingLost, RefusedMeansTorn
<1>5. CASE OpenFails(t) \/ WriteFails(t) \/ WriteEndpointPeers(t)
  <2>1. /\ pc' = [pc EXCEPT ![t] = "idle"] /\ adding' = [adding EXCEPT ![t] = NoAddress]
        /\ UNCHANGED <<null, registered, cache>>
    BY <1>5 DEF OpenFails, WriteFails, WriteEndpointPeers, Released
  <2>2. \A u \in Thread : ~Holds(u)'
    BY <1>1, <1>2, <2>1 DEF Holds
  <2>3. LockOK' <=> /\ process' \in {"down", "refused"} => \A u \in Thread : pc'[u] = "idle"
                    /\ process' # "starting"
                    /\ process' = "running" => pc'["main"] = "idle"
    BY <2>2 DEF LockOK
  <2>4. pc'["main"] = "idle" /\ (t = "main" => \A u \in Thread : pc'[u] = "idle")
    BY <1>1, <1>2, <2>1 DEF LockOK, Holds, TypeOK
  <2>5. process' \in {"running", "refused"} /\ (process' = "refused" => t = "main")
    BY <1>2, <1>5 DEF OpenFails, WriteFails, WriteEndpointPeers
  <2>6. LockOK'
    BY <2>3, <2>4, <2>5
  <2>7. /\ \A u \in Thread : pc'[u] # "idle" => u # t /\ pc[u] # "idle" /\ pc'[u] = pc[u]
        /\ adding'["main"] = NoAddress
    BY <1>1, <2>1, <2>4 DEF CacheOK
  <2>8. CacheOK'
    BY <1>1, <1>2, <2>1, <2>2, <2>7 DEF CacheOK, Filled
  <2>9. /\ pc' \in [Thread -> {"idle", "waiting", "serializing", "writing"}]
        /\ adding' \in [Thread -> Address \cup {NoAddress}]
    BY <1>1, <2>1
  <2>10. \A u \in Thread : pc'[u] \notin {"serializing", "writing"}
    BY <2>2 DEF Holds
  <2>11. CASE OpenFails(t)
    <3>1. /\ UNCHANGED <<file, torn, persisted>> /\ behind' = TRUE
          /\ faults' = faults + 1 /\ faults < MaxFaults /\ pc[t] = "serializing"
      BY <2>11 DEF OpenFails
    <3>2. TypeOK'
      BY <2>1, <2>5, <2>9, <3>1, LimitsAssumption DEF TypeOK
    <3>3. FileOK'
      BY <2>5, <2>10, <3>1 DEF FileOK
    <3>4. process' = "refused" => ~file.exists
      BY <2>5, <3>1 DEF FileOK
    <3>5. process' = "running" => process = "running"
      BY <1>2, <2>11 DEF OpenFails
    <3> QED
      BY <2>1, <2>6, <2>8, <3>1, <3>2, <3>3, <3>4, <3>5
         DEF RestartRecovers, NothingLost, RefusedMeansTorn
  <2>12. CASE WriteFails(t)
    <3>1. /\ UNCHANGED <<file, torn, persisted>> /\ behind' = TRUE /\ process' = "running"
          /\ faults' = faults + 1 /\ faults < MaxFaults
      BY <2>12 DEF WriteFails
    <3>2. TypeOK'
      BY <2>1, <2>9, <3>1, LimitsAssumption DEF TypeOK
    <3>3. FileOK'
      BY <2>10, <3>1 DEF FileOK
    <3>4. persisted \subseteq cache.known
      BY <1>2 DEF NothingLost, FileOK
    <3> QED
      BY <2>1, <2>6, <2>8, <3>1, <3>2, <3>3, <3>4
         DEF RestartRecovers, NothingLost, RefusedMeansTorn
  <2>13. CASE WriteEndpointPeers(t)
    <3>1. /\ file' = [exists |-> TRUE, peers |-> cache] /\ process' = "running"
          /\ torn' = FALSE /\ behind' = FALSE /\ faults' = faults /\ null = {}
          /\ persisted' = persisted \cup ({adding[t]} \ {NoAddress})
      BY <2>13 DEF WriteEndpointPeers
    <3>2. {adding[t]} \ {NoAddress} \subseteq cache.known
      BY <1>1, <1>2, <3>1 DEF CacheOK
    <3>3. persisted' \subseteq cache.known
      BY <1>2, <3>1, <3>2 DEF NothingLost, FileOK
    <3>4. FillDefaultBootstrap(cache) = cache /\ cache.protocols # {}
      BY <1>1, <1>2, Refilling DEF CacheOK
    <3>5. TypeOK'
      <4>1. cache.known \subseteq Address
        BY <1>1 DEF Map
      <4>2. file' \in [exists : BOOLEAN, peers : Map] /\ persisted' \subseteq Address
        BY <1>1, <3>1, <3>3, <4>1
      <4> QED
        BY <2>1, <2>9, <3>1, <4>2 DEF TypeOK
    <3>6. FileOK'
      BY <2>10, <3>1, <3>3, <3>4 DEF FileOK
    <3> QED
      BY <2>1, <2>6, <2>8, <3>1, <3>3, <3>4, <3>5, <3>6
         DEF RestartRecovers, NothingLost, RefusedMeansTorn
  <2> QED
    BY <1>5, <2>11, <2>12, <2>13
<1> QED
  BY <1>3, <1>4, <1>5

(* The end of the process, by a null set or otherwise.                     *)
LEMMA DownInv ==
    ASSUME IInv, Crash \/ \E t \in Thread : WritesNullSet(t)
    PROVE  IInv'
<1> USE DEF IInv
<1>1. Down /\ faults' \in 0 .. MaxFaults
  BY LimitsAssumption DEF Crash, WritesNullSet, TypeOK
<1>2. /\ process' = "down" /\ cache' = EmptyMap /\ null' = {}
      /\ registered' = [p \in Peer |-> NoAddress]
      /\ pc' = [t \in Thread |-> "idle"]
      /\ adding' = [t \in Thread |-> NoAddress]
      /\ UNCHANGED <<file, behind, torn, persisted>>
  BY <1>1 DEF Down, history
<1>3. TypeOK'
  BY <1>1, <1>2, EmptyType DEF TypeOK
<1>4. LockOK' /\ CacheOK'
  BY <1>2 DEF LockOK, CacheOK, Holds, Thread
<1>5. FileOK'
  BY <1>2 DEF FileOK, Thread
<1> QED
  BY <1>2, <1>3, <1>4, <1>5 DEF RestartRecovers, NothingLost, RefusedMeansTorn

LEMMA StutterInv == IInv /\ UNCHANGED vars => IInv'
BY DEF IInv, vars, memory, history, TypeOK, LockOK, CacheOK, FileOK, RestartRecovers,
       NothingLost, RefusedMeansTorn, Holds, Filled, Unlocked

LEMMA Inductive == Spec => []IInv
<1>1. IInv /\ [Next]_vars => IInv'
  BY StartInv, AddInv, SerializeInv, DownInv, StutterInv DEF Next, Serialize
<1> QED
  BY <1>1, InitInv, PTL DEF Spec

-------------------------------------------------------------------------------
(* Type correctness of every reachable state.                              *)
THEOREM TypeCorrect == Spec => []TypeOK
<1>1. IInv => TypeOK
  BY DEF IInv
<1> QED
  BY <1>1, Inductive, PTL

(* A restart reads back what the process knows, whatever two threads add,  *)
(* wherever the process dies and whichever file it finds first, as long as *)
(* the last rewriting of the file succeeded.                               *)
THEOREM RestartReadsBack == Spec => []RestartRecovers
<1>1. IInv => RestartRecovers
  BY DEF IInv
<1> QED
  BY <1>1, Inductive, PTL

(* An addition that completed is known for good, up to a start that had to *)
(* read a torn file.                                                       *)
THEOREM AdditionsLast == Spec => []NothingLost
<1>1. IInv => NothingLost
  BY DEF IInv
<1> QED
  BY <1>1, Inductive, PTL

(* main gives up over a torn or an outgrown file only.                     *)
THEOREM RefusalJustified == Spec => []RefusedMeansTorn
<1>1. IInv => RefusedMeansTorn
  BY DEF IInv
<1> QED
  BY <1>1, Inductive, PTL

===============================================================================
