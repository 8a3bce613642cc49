------------------------------ MODULE PeerLocks ------------------------------
(***************************************************************************)
(* The mutexes of the peer manager, of the peers and of the connection     *)
(* trackers, as the core thread and the workers of the two endpoints take  *)
(* them.                                                                   *)
(*                                                                         *)
(* A call is the sequence of what is left to do: to take and drop a mutex, *)
(* to access a container, or to go on by what the thread then finds.  The  *)
(* scoped locks of the code nest, so that a thread drops what it took last. *)
(*                                                                         *)
(* What a call is for is the matter of PeerExchange.  Mutexes under which  *)
(* no other is taken (of the events, of the queue, of the statistics, of   *)
(* the peers file) cannot be part of a deadlock and are left out.          *)
(***************************************************************************)
EXTENDS Naturals, Sequences

CONSTANT Peer

Endpoint == {"client", "server"}        \* an endpoint, and the thread of its worker
Thread == Endpoint \cup {"core"}
Connection == Endpoint \X Peer

(* Mutexes, and the containers they are there for, go by the same name.    *)
Peers == <<"peers">>                        \* PeerManager::m_peers
Resolving == <<"resolving">>                \* PeerManager::m_resolving
Connections(e) == <<"connections", e>>      \* ConnectionTracker::m_connections
Registrations(p) == <<"registrations", p>>  \* BryptPeer::m_endpoints
Receiver(p) == <<"receiver", p>>            \* BryptPeer::m_pMessageSink
Attached(p) == <<"attached", p>>            \* BryptPeer::m_upSecurityMediator
Security(p) == <<"security", p>>            \* the state of the SecurityMediator
Recursive(m) == m # Peers /\ \A p \in Peer : m # Security(p)

VARIABLES
    calls,      \* what each thread has yet to do
    holds,      \* the mutexes that each thread has taken, the last one last
    resolving,  \* peers whose address is in m_resolving
    linked,     \* m_peers
    sink,       \* the receiver of each peer
    sessions,   \* m_connections of both endpoints
    promoted    \* those of them that have a peer

data == <<resolving, linked, sink, sessions, promoted>>
vars == <<calls, holds, data>>

-------------------------------------------------------------------------------
(***************************************************************************)
(* What threads do.                                                        *)
(***************************************************************************)
Do(act, on) == [act |-> act, on |-> on]
Scoped(m, body) == <<Do("take", m)>> \o body \o <<Do("drop", m)>>
Read(c) == Do("read", c)
Write(c) == Do("write", c)

TranslateUnlocked(e) == <<Read(Connections(e))>>    \* mutant: without the mutex

(* The endpoint's scheduler looks for the session of the peer.             *)
Translate(e) == Scoped(Connections(e), <<Read(Connections(e))>>)

ScheduleSend(e, p) ==
    Scoped(Registrations(p), <<Read(Registrations(p))>> \o Translate(e))

ReadRegistrations(p) == Scoped(Registrations(p), <<Read(Registrations(p))>>)

(* Of the observers the persistor asks the peer for its address.           *)
DispatchPeerStateChange(p) == ReadRegistrations(p)

(* Observers are told once the mutex is dropped.                           *)
ChangeRegistration(p) ==
    Scoped(Registrations(p), <<Write(Registrations(p))>>) \o DispatchPeerStateChange(p)

SetReceiver(p, value) == Scoped(Receiver(p), <<Write(Receiver(p)), Do(value, p)>>)

OnExchangeClose(p, value) ==
    Scoped(Security(p), SetReceiver(p, value) \o <<Do("destroy", p)>>)
OnFulfilledStrategy(p) == Scoped(Security(p), <<Write(Security(p))>>)

(* What a message is encrypted, decrypted, signed and verified with.        *)
SecurityContext(p) == Scoped(Security(p), <<Read(Security(p))>>)

AttachSecurityMediator(p) ==
    Scoped(Attached(p), ReadRegistrations(p) \o Scoped(Security(p), SetReceiver(p, "exchange")))

CollectUnlocked(e, p) ==                            \* mutant: the sink is used without its mutex
    Scoped(Registrations(p), <<Read(Registrations(p))>>)
    \o Scoped(Receiver(p), <<Read(Receiver(p))>>) \o <<Do("collect", <<e, p>>)>>

(* The registrations and the receiver stay locked while a message is processed. *)
ScheduleReceive(e, p) ==
    Scoped(Registrations(p),
           <<Read(Registrations(p))>>
           \o Scoped(Receiver(p), <<Read(Receiver(p)), Do("collect", <<e, p>>)>>))

LinkPeer(e, p) == Scoped(Peers, <<Read(Peers), Do("link", <<e, p>>)>>)

OnMessageReceivedLocked(e, p) ==                    \* mutant: the tracker is locked throughout
    Scoped(Connections(e),
           (IF <<e, p>> \in promoted THEN <<>>
            ELSE LinkPeer(e, p) \o ChangeRegistration(p) \o <<Do("promote", <<e, p>>)>>)
           \o <<Write(Connections(e))>>)
    \o ScheduleReceive(e, p)

(* The connection is found, updated and promoted without the tracker's mutex. *)
OnMessageReceived(e, p) ==
    <<Read(Connections(e))>>
    \o (IF <<e, p>> \in promoted THEN <<>>
        ELSE LinkPeer(e, p) \o ChangeRegistration(p) \o <<Do("promote", <<e, p>>)>>)
    \o <<Write(Connections(e))>>
    \o ScheduleReceive(e, p)

OnSessionStarted(e, p) ==
    Scoped(Connections(e), <<Write(Connections(e)), Do("start", <<e, p>>)>>)

OnSessionStopped(e, p) ==
    Scoped(Connections(e), <<Write(Connections(e))>>
                           \o (IF <<e, p>> \in promoted THEN ChangeRegistration(p) ELSE <<>>))
    \o Scoped(Connections(e), <<Write(Connections(e)), Do("stop", <<e, p>>)>>)

DeclareResolvingPeer(p, identified) ==
    Scoped(Resolving,
           <<Read(Resolving)>>
           \o (IF p \in resolving THEN <<>>
               ELSE IF identified THEN Scoped(Peers, <<Read(Peers)>>)
                    ELSE <<Write(Resolving), Do("declare", p)>>))

UndeclareResolvingPeer(p) == Scoped(Resolving, <<Write(Resolving), Do("undeclare", p)>>)

ForEachCachedIdentifier == <<Do("share", Peers), Read(Peers), Do("each", {}), Do("drop", Peers)>>

-------------------------------------------------------------------------------
(***************************************************************************)
(* What a call goes on with depends on what it finds.                      *)
(***************************************************************************)

(* A known peer's address is erased, and a new one's searched, without the *)
(* mutex of m_resolving.  A server sees no address that was declared.      *)
Link(e, p) ==
    IF p \in linked
    THEN <<Write(Resolving)>> \o IF e = "client" THEN <<Do("undeclare", p)>> ELSE <<>>
    ELSE <<Read(Resolving)>>
         \o (IF e = "client" /\ p \in resolving THEN UndeclareResolvingPeer(p) ELSE <<>>)
         \o AttachSecurityMediator(p)
         \o <<Write(Peers), Do("track", p)>>

(* ExchangeProcessor: a message is dropped, answered, the last one, or bad. *)
Exchange(e, p) ==
    {body \o <<Do("return", p)>> : body \in
        { <<>>,
          ScheduleSend(e, p),
          ScheduleSend(e, p) \o OnFulfilledStrategy(p) \o OnExchangeClose(p, "authorized"),
          OnExchangeClose(p, "none") }}

(* AuthorizedProcessor: a message is verified and queued, or answered.     *)
Collect(e, p) ==
    CASE sink[p] = "exchange" -> Exchange(e, p)
      [] sink[p] = "authorized" -> {<<>>, SecurityContext(p), ScheduleSend(e, p)}
      [] sink[p] = "none" -> {<<>>}

Each(visited) ==
    IF linked \subseteq visited THEN {<<>>}
    ELSE {ReadRegistrations(p) \o <<Do("each", visited \cup {p})>> : p \in linked \ visited}

-------------------------------------------------------------------------------
Init ==
    /\ calls = [t \in Thread |-> <<>>]
    /\ holds = [t \in Thread |-> <<>>]
    /\ resolving = {}
    /\ linked = {}
    /\ sink = [p \in Peer |-> "none"]
    /\ sessions = {}
    /\ promoted = {}

Call(t, call) ==
    /\ calls[t] = <<>>
    /\ calls' = [calls EXCEPT ![t] = call]
    /\ UNCHANGED <<holds, data>>

(* The client's worker connects to addresses.                              *)
CallDeclare(p) == \E identified \in BOOLEAN : Call("client", DeclareResolvingPeer(p, identified))
CallUndeclare(p) == p \in resolving /\ Call("client", UndeclareResolvingPeer(p))

(* Each worker serves its own sessions.                                    *)
CallStarted(e, p) == <<e, p>> \notin sessions /\ Call(e, OnSessionStarted(e, p))
CallReceived(e, p) == <<e, p>> \in sessions /\ Call(e, OnMessageReceived(e, p))
CallStopped(e, p) == <<e, p>> \in sessions /\ Call(e, OnSessionStopped(e, p))

(* The core thread answers authorized peers, and walks over all of them.   *)
CallSend(e, p) ==
    sink[p] = "authorized" /\ Call("core", SecurityContext(p) \o ScheduleSend(e, p))
CallForEach == linked # {} /\ Call("core", ForEachCachedIdentifier)

-------------------------------------------------------------------------------
Starts(t, act) == calls[t] # <<>> /\ Head(calls[t]).act = act
On(t) == Head(calls[t]).on
GoesOn(t, body) == calls' = [calls EXCEPT ![t] = body \o Tail(@)]

Holds(t, m) == \E k \in DOMAIN holds[t] : holds[t][k].mutex = m
HoldsAlone(t, m) == \E k \in DOMAIN holds[t] : holds[t][k] = [mutex |-> m, shared |-> FALSE]

(* Whom a thread that is about to take a mutex has to wait for.            *)
WaitsFor(t, u) ==
    \/ /\ Starts(t, "take")
       /\ Holds(u, On(t))
       /\ t # u \/ ~Recursive(On(t))
    \/ /\ Starts(t, "share")
       /\ HoldsAlone(u, On(t))

Take(t) ==
    /\ Starts(t, "take") \/ Starts(t, "share")
    /\ \A u \in Thread : ~WaitsFor(t, u)
    /\ holds' = [holds EXCEPT ![t] =
                    Append(@, [mutex |-> On(t), shared |-> Starts(t, "share")])]
    /\ GoesOn(t, <<>>)
    /\ UNCHANGED data

Drop(t) ==
    /\ Starts(t, "drop")
    /\ holds' = [holds EXCEPT ![t] = SubSeq(@, 1, Len(@) - 1)]
    /\ GoesOn(t, <<>>)
    /\ UNCHANGED data

Access(t) ==
    /\ Starts(t, "read") \/ Starts(t, "write") \/ Starts(t, "return") \/ Starts(t, "destroy")
    /\ GoesOn(t, <<>>)
    /\ UNCHANGED <<holds, data>>

Decide(t) ==
    /\ \/ Starts(t, "link") /\ GoesOn(t, Link(On(t)[1], On(t)[2]))
       \/ Starts(t, "collect") /\ \E body \in Collect(On(t)[1], On(t)[2]) : GoesOn(t, body)
       \/ Starts(t, "each") /\ \E body \in Each(On(t)) : GoesOn(t, body)
    /\ UNCHANGED <<holds, data>>

Change(t) ==
    /\ \E act \in {"declare", "undeclare", "track", "none", "exchange", "authorized", "start",
                   "stop", "promote"} : Starts(t, act)
    /\ resolving' = CASE Starts(t, "declare") -> resolving \cup {On(t)}
                      [] Starts(t, "undeclare") -> resolving \ {On(t)}
                      [] OTHER -> resolving
    /\ linked' = IF Starts(t, "track") THEN linked \cup {On(t)} ELSE linked
    /\ sink' = IF \E value \in {"none", "exchange", "authorized"} : Starts(t, value)
               THEN [sink EXCEPT ![On(t)] = Head(calls[t]).act] ELSE sink
    /\ sessions' = CASE Starts(t, "start") -> sessions \cup {On(t)}
                     [] Starts(t, "stop") -> sessions \ {On(t)}
                     [] OTHER -> sessions
    /\ promoted' = CASE Starts(t, "promote") -> promoted \cup {On(t)}
                     [] Starts(t, "stop") -> promoted \ {On(t)}
                     [] OTHER -> promoted
    /\ GoesOn(t, <<>>)
    /\ UNCHANGED holds

Step(t) == Take(t) \/ Drop(t) \/ Access(t) \/ Decide(t) \/ Change(t)

Next ==
    \/ \E p \in Peer : CallDeclare(p) \/ CallUndeclare(p)
    \/ \E e \in Endpoint, p \in Peer :
          CallStarted(e, p) \/ CallReceived(e, p) \/ CallStopped(e, p) \/ CallSend(e, p)
    \/ CallForEach
    \/ \E t \in Thread : Step(t)

Spec == Init /\ [][Next]_vars

(* A thread goes on, and gets a mutex that is free again and again.        *)
FairSpec == Spec /\ \A t \in Thread : SF_vars(Step(t))

-------------------------------------------------------------------------------
Mutex == {Peers, Resolving} \cup {Connections(e) : e \in Endpoint}
         \cup UNION {{Registrations(p), Receiver(p), Attached(p), Security(p)} : p \in Peer}

(* The state has the types of the members and the stacks it models.       *)
TypeOK ==
    /\ holds \in [Thread -> Seq([mutex : Mutex, shared : BOOLEAN])]
    /\ resolving \subseteq Peer
    /\ linked \subseteq Peer
    /\ sink \in [Peer -> {"none", "exchange", "authorized"}]
    /\ sessions \subseteq Connection
    /\ promoted \subseteq sessions
    /\ \A t \in Thread : calls[t] = <<>> => holds[t] = <<>>

(***************************************************************************)
(* What makes the locking correct.                                         *)
(***************************************************************************)
Deadlocked(ts) == \A t \in ts : \E u \in ts : WaitsFor(t, u)

(* A session that stops, whose peer is told under the tracker's mutex.     *)
Stopping(t) == \E k \in DOMAIN calls[t] : calls[t][k].act = "stop"

(* Threads wait for each other in a circle only if one of them stops a     *)
(* session: everywhere else a peer is locked before a tracker.             *)
DeadlockNeedsStop ==
    \A ts \in (SUBSET Thread) \ {{}} : Deadlocked(ts) => \E t \in ts : Stopping(t)

Accesses(t, c) == (Starts(t, "read") \/ Starts(t, "write")) /\ On(t) = c
Race(t, u, c) ==
    t # u /\ Accesses(t, c) /\ Accesses(u, c) /\ (Starts(t, "write") \/ Starts(u, "write"))

(* No two threads are in a container of which one changes it, except in    *)
(* the unlocked accesses of LinkPeer to m_resolving and of                 *)
(* OnMessageReceived to the tracker.                                       *)
RaceNeedsUnlocked ==
    \A t, u \in Thread, c \in Mutex :
       Race(t, u, c) => \/ c = Resolving /\ \E v \in {t, u} : Holds(v, Peers)
                        \/ \E e \in Endpoint : c = Connections(e) /\ e \in {t, u} /\ ~Holds(e, c)

InProcessor(t, p) == \E k \in DOMAIN calls[t] : calls[t][k] = Do("return", p)

(* While a thread is in an exchange processor, no other destroys it: this  *)
(* is what the mutex of the receiver is for.                               *)
ProcessorOutlivesUse ==
    \A t, u \in Thread, p \in Peer :
       t # u /\ InProcessor(t, p) => ~(Starts(u, "destroy") /\ On(u) = p)

(* Endpoint::ScheduleSend says that a message whose session is not found is *)
(* dropped: sending ends.                                                  *)
SendReturns == calls["core"] # <<>> ~> calls["core"] = <<>>

===============================================================================
