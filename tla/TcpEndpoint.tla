----------------------------- MODULE TcpEndpoint -----------------------------
(***************************************************************************)
(* The life of one TCP endpoint: the thread that owns it schedules events, *)
(* starts it up and shuts it down; the worker takes events from a queue    *)
(* and polls the context, which runs the coroutines of the listener, of    *)
(* connections and of sessions.  Shutdown polls the context itself, while  *)
(* it resets the connections.                                              *)
(*                                                                         *)
(* Each Startup has a worker and a listener of its own, so that what the   *)
(* one before left behind can be told apart.  Who the peer of a session is *)
(* and what the messages say is the matter of PeerExchange.                *)
(***************************************************************************)
EXTENDS Naturals, Sequences, FiniteSets

CONSTANTS
    Session,                \* sessions that may exist at a time
    NoSession,
    EventProcessingLimit,   \* events that a cycle of the worker takes
    MaxStarts,              \* bound: calls of Startup that start a worker
    MaxEvents               \* bound: length of the queue of events

ASSUME LimitsAssumption ==
    /\ EventProcessingLimit \in Nat \ {0}
    /\ MaxStarts \in Nat
    /\ MaxEvents \in Nat
ASSUME NoSessionAssumption == NoSession \notin Session

Start == 1..MaxStarts
Event == [type : {"Bind", "Connect"}, session : {NoSession}]
         \cup [type : {"Dispatch"}, session : Session]
BindEvent == [type |-> "Bind", session |-> NoSession]
ConnectEvent == [type |-> "Connect", session |-> NoSession]
DispatchEvent(s) == [type |-> "Dispatch", session |-> s]

VARIABLES
    operation,  \* m_operation
    active,     \* m_active
    owner,      \* where the owner is in Startup or Shutdown
    starts,     \* workers started so far
    joinable,   \* m_worker: the start it belongs to, or 0
    worker,     \* where each worker is in ProcessEvents
    stopping,   \* the stop tokens that were requested
    batch,      \* the events that each worker has taken
    listener,   \* the ListenProcessor of each start
    open,       \* m_acceptor is open
    stopped,    \* m_context is stopped
    bound,      \* m_binding is valid
    events,     \* m_events
    session,    \* the phase of each session
    reading,    \* sessions with a Receiver coroutine
    tracked,    \* m_tracker
    unvisited,  \* connections that ResetConnections has not come to
    picked,     \* the session that a ScheduleSend of the owner has translated
    errored,    \* history: the listener ended by an error
    leftover    \* history: sessions that a Shutdown has not stopped

threads == <<owner, starts, joinable, worker, stopping, batch>>
network == <<open, bound, session, reading, tracked>>
history == <<errored, leftover>>
vars == <<operation, active, threads, listener, stopped, network, events, unvisited,
          picked, history>>

Polling == owner = "polling" \/ \E i \in Start : worker[i] = "poll"

(* Handlers that a poll finds ready without anything else happening.       *)
Stopped(s) == session[s] \in {"stopped", "broken"}
Ready == \/ \E i \in Start : listener[i] \in {"spawned", "aborted"}
         \/ \E s \in Session : Stopped(s) /\ s \in reading
         \/ \E s \in Session : session[s] = "cancelled"

(* Nothing refers to a session any more, or there is none yet.             *)
Available(s) ==
    /\ session[s] = "free" \/ Stopped(s)
    /\ s \notin tracked \cup reading \cup {picked}
    /\ \A k \in DOMAIN events : events[k].session # s
    /\ \A i \in Start : \A k \in DOMAIN batch[i] : batch[i][k].session # s

-------------------------------------------------------------------------------
Init ==
    /\ operation \in {"Server", "Client"}
    /\ active = FALSE
    /\ owner = "idle"
    /\ starts = 0
    /\ joinable = 0
    /\ worker = [i \in Start |-> "none"]
    /\ stopping = {}
    /\ batch = [i \in Start |-> <<>>]
    /\ listener = [i \in Start |-> "none"]
    /\ open = FALSE
    /\ stopped = FALSE
    /\ bound = FALSE
    /\ events = <<>>
    /\ session = [s \in Session |-> "free"]
    /\ reading = {}
    /\ tracked = {}
    /\ unvisited = {}
    /\ picked = NoSession
    /\ errored = FALSE
    /\ leftover = {}

(***************************************************************************)
(* The owner.  A binding is scheduled once before each start, as the       *)
(* endpoint manager does; connections and messages at any time.            *)
(***************************************************************************)
Schedule(e) ==
    /\ Len(events) < MaxEvents
    /\ events' = Append(events, e)

ScheduleBind ==
    /\ owner = "idle"
    /\ operation = "Server"
    /\ joinable = 0
    /\ \A k \in DOMAIN events : events[k] # BindEvent
    /\ Schedule(BindEvent)
    /\ bound' = TRUE
    /\ UNCHANGED <<operation, active, threads, listener, stopped, open, session, reading,
                   tracked, unvisited, picked, history>>

ScheduleConnect ==
    /\ owner = "idle"
    /\ operation = "Client"
    /\ Schedule(ConnectEvent)
    /\ UNCHANGED <<operation, active, threads, listener, stopped, network, unvisited,
                   picked, history>>

(* ScheduleSend looks for the session, and later queues the message for it. *)
Translate(s) ==
    /\ owner = "idle"
    /\ picked = NoSession
    /\ s \in tracked
    /\ session[s] = "active"
    /\ picked' = s
    /\ UNCHANGED <<operation, active, threads, listener, stopped, network, events,
                   unvisited, history>>

ScheduleSend ==
    /\ picked # NoSession
    /\ Schedule(DispatchEvent(picked))
    /\ picked' = NoSession
    /\ UNCHANGED <<operation, active, threads, listener, stopped, network, unvisited,
                   history>>

StartupDetached ==                                  \* mutant: the old worker is not stopped
    /\ owner = "idle"
    /\ picked = NoSession
    /\ ~active
    /\ starts < MaxStarts
    /\ starts' = starts + 1
    /\ active' = TRUE
    /\ worker' = [worker EXCEPT ![starts'] = "loop"]
    /\ listener' = [listener EXCEPT ![starts'] =
                        IF operation = "Server" THEN "spawned" ELSE "none"]
    /\ joinable' = starts'
    /\ UNCHANGED <<operation, owner, stopping, batch, stopped, network, events, unvisited,
                   picked, history>>

(* The new thread runs before the assignment has joined the old one.       *)
Startup ==
    /\ owner = "idle"
    /\ picked = NoSession
    /\ ~active
    /\ starts < MaxStarts
    /\ starts' = starts + 1
    /\ active' = TRUE
    /\ worker' = [worker EXCEPT ![starts'] = "loop"]
    /\ listener' = [listener EXCEPT ![starts'] =
                        IF operation = "Server" THEN "spawned" ELSE "none"]
    /\ IF joinable = 0
       THEN joinable' = starts' /\ UNCHANGED <<owner, stopping>>
       ELSE /\ owner' = "replacing"
            /\ stopping' = stopping \cup {joinable}
            /\ UNCHANGED joinable
    /\ UNCHANGED <<operation, batch, stopped, network, events, unvisited, picked, history>>

ReplaceWorker ==
    /\ owner = "replacing"
    /\ worker[joinable] = "done"
    /\ joinable' = starts
    /\ owner' = "idle"
    /\ UNCHANGED <<operation, active, starts, worker, stopping, batch, listener, stopped,
                   network, events, unvisited, picked, history>>

(* What Shutdown calls operating.                                          *)
Operating == joinable # 0 \/ open \/ ~stopped \/ tracked # {}

ShutdownUnjoined ==                                 \* mutant: the worker is never joined
    /\ owner = "idle"
    /\ picked = NoSession
    /\ Operating
    /\ owner' = "closing"
    /\ stopping' = IF active THEN stopping \cup {joinable} ELSE stopping
    /\ UNCHANGED <<operation, active, starts, joinable, worker, batch, listener, stopped,
                   network, events, unvisited, picked, history>>

(* Only an active worker is stopped and joined.                            *)
Shutdown ==
    /\ owner = "idle"
    /\ picked = NoSession
    /\ Operating
    /\ IF active
       THEN owner' = "joining" /\ stopping' = stopping \cup {joinable}
       ELSE owner' = "closing" /\ UNCHANGED stopping
    /\ UNCHANGED <<operation, active, starts, joinable, worker, batch, listener, stopped,
                   network, events, unvisited, picked, history>>

JoinWorker ==
    /\ owner = "joining"
    /\ worker[joinable] = "done"
    /\ joinable' = 0
    /\ owner' = "closing"
    /\ UNCHANGED <<operation, active, starts, worker, stopping, batch, listener, stopped,
                   network, events, unvisited, picked, history>>

(* Closing or cancelling the acceptor aborts an accept that has not completed. *)
Aborted == [i \in Start |-> IF listener[i] = "accepting" THEN "aborted" ELSE listener[i]]
Resolving == {s \in Session : session[s] = "resolving"}

CloseAcceptor ==
    /\ owner = "closing"
    /\ open' = FALSE
    /\ listener' = Aborted
    /\ session' = [s \in Session |-> IF s \in Resolving THEN "cancelled" ELSE session[s]]
    /\ unvisited' = tracked
    /\ owner' = "resetting"
    /\ UNCHANGED <<operation, active, starts, joinable, worker, stopping, batch, stopped,
                   bound, reading, tracked, events, picked, history>>

(* ResetConnections stops a session and polls until its handlers have run. *)
StopSession(s) ==
    /\ owner = "resetting"
    /\ s \in unvisited
    /\ unvisited' = unvisited \ {s}
    /\ session' = [session EXCEPT ![s] = "stopped"]
    /\ stopped' = FALSE
    /\ owner' = "polling"
    /\ UNCHANGED <<operation, active, starts, joinable, worker, stopping, batch, listener,
                   open, bound, reading, tracked, events, picked, history>>

EndPoll ==
    /\ owner = "polling"
    /\ ~Ready
    /\ owner' = "resetting"
    /\ UNCHANGED <<operation, active, starts, joinable, worker, stopping, batch, listener,
                   stopped, network, events, unvisited, picked, history>>

ClearConnections ==
    /\ owner = "resetting"
    /\ unvisited = {}
    /\ tracked' = {}
    /\ stopped' = TRUE
    /\ owner' = "idle"
    /\ leftover' = {s \in Session : session[s] = "active"}
    /\ UNCHANGED <<operation, active, starts, joinable, worker, stopping, batch, listener,
                   open, bound, session, reading, events, unvisited, picked, errored>>

-------------------------------------------------------------------------------
(***************************************************************************)
(* The worker.                                                             *)
(***************************************************************************)
Moves(i, from, to) == worker[i] = from /\ worker' = [worker EXCEPT ![i] = to]

TakeAllButOne(i) ==                                 \* mutant: the last event is left
    /\ i \notin stopping
    /\ Moves(i, "loop", "events")
    /\ LET n == IF Len(events) < 1 THEN 0 ELSE Len(events) - 1
       IN /\ batch' = [batch EXCEPT ![i] = SubSeq(events, 1, n)]
          /\ events' = SubSeq(events, n + 1, Len(events))
    /\ UNCHANGED <<operation, active, owner, starts, joinable, stopping, listener, stopped,
                   network, unvisited, picked, history>>

TakeUnstopped(i) ==                                 \* mutant: the stop token is ignored
    /\ Moves(i, "loop", "events")
    /\ batch' = [batch EXCEPT ![i] = events]
    /\ events' = <<>>
    /\ UNCHANGED <<operation, active, owner, starts, joinable, stopping, listener, stopped,
                   network, unvisited, picked, history>>

TakeEvents(i) ==
    /\ i \notin stopping
    /\ Moves(i, "loop", "events")
    /\ LET n == IF Len(events) < EventProcessingLimit THEN Len(events) ELSE EventProcessingLimit
       IN /\ batch' = [batch EXCEPT ![i] = SubSeq(events, 1, n)]
          /\ events' = SubSeq(events, n + 1, Len(events))
    /\ UNCHANGED <<operation, active, owner, starts, joinable, stopping, listener, stopped,
                   network, unvisited, picked, history>>

ProcessNext(i, e) ==
    /\ worker[i] = "events"
    /\ batch[i] # <<>>
    /\ Head(batch[i]) = e
    /\ batch' = [batch EXCEPT ![i] = Tail(@)]

(* An acceptor that is open cannot be opened again.                        *)
Bind(i) ==
    /\ ProcessNext(i, BindEvent)
    /\ \/ /\ ~open
          /\ open' = TRUE
          /\ bound' = TRUE
          /\ UNCHANGED listener
       \/ /\ open' = FALSE
          /\ bound' = FALSE
          /\ listener' = Aborted
    /\ UNCHANGED <<operation, active, owner, starts, joinable, worker, stopping, stopped,
                   session, reading, tracked, events, unvisited, picked, history>>

(* A reflection or a duplicate is ignored.                                 *)
Connect(i) ==
    /\ ProcessNext(i, ConnectEvent)
    /\ \/ \E s \in Session : /\ Available(s)
                             /\ session' = [session EXCEPT ![s] = "resolving"]
       \/ UNCHANGED session
    /\ UNCHANGED <<operation, active, owner, starts, joinable, worker, stopping, listener,
                   stopped, open, bound, reading, tracked, events, unvisited, picked, history>>

ProcessDispatchEvent(i) ==
    /\ \E s \in Session : ProcessNext(i, DispatchEvent(s))
    /\ UNCHANGED <<operation, active, owner, starts, joinable, worker, stopping, listener,
                   stopped, network, events, unvisited, picked, history>>

StartPoll(i) ==
    /\ batch[i] = <<>>
    /\ Moves(i, "events", "poll")
    /\ stopped' = FALSE
    /\ UNCHANGED <<operation, active, owner, starts, joinable, stopping, batch, listener,
                   network, events, unvisited, picked, history>>

FinishPoll(i) ==
    /\ ~Ready
    /\ Moves(i, "poll", "loop")
    /\ UNCHANGED <<operation, active, owner, starts, joinable, stopping, batch, listener,
                   stopped, network, events, unvisited, picked, history>>

StopWorker(i) ==
    /\ i \in stopping
    /\ Moves(i, "loop", "exit")
    /\ UNCHANGED <<operation, active, owner, starts, joinable, stopping, batch, listener,
                   stopped, network, events, unvisited, picked, history>>

ExitActive(i) ==                                    \* mutant: m_active stays set
    /\ Moves(i, "exit", "done")
    /\ UNCHANGED <<operation, active, owner, starts, joinable, stopping, batch, listener,
                   stopped, network, events, unvisited, picked, history>>

ExitWorker(i) ==
    /\ Moves(i, "exit", "done")
    /\ active' = FALSE
    /\ UNCHANGED <<operation, owner, starts, joinable, stopping, batch, listener, stopped,
                   network, events, unvisited, picked, history>>

-------------------------------------------------------------------------------
(***************************************************************************)
(* Handlers that a poll runs.  ListenProcessor waits for an acceptor that  *)
(* is closed without leaving its thread.                                   *)
(***************************************************************************)
ListenOnce(j) ==                                    \* mutant: one connection is accepted
    /\ listener' = [listener EXCEPT ![j] =
                        IF listener[j] = "spawned" /\ active /\ open THEN "accepting" ELSE "done"]
    /\ UNCHANGED worker

Listen(j) ==
    \/ /\ ~active
       /\ listener' = [listener EXCEPT ![j] = "done"]
       /\ UNCHANGED worker
    \/ /\ active
       /\ open
       /\ listener' = [listener EXCEPT ![j] = "accepting"]
       /\ UNCHANGED worker
    \/ /\ active
       /\ ~open
       /\ listener' = [listener EXCEPT ![j] = "spinning"]
       /\ \E i \in Start : Moves(i, "poll", "spin")

ListenProcessor(j) ==
    /\ Polling
    /\ listener[j] = "spawned"
    /\ Listen(j)
    /\ UNCHANGED <<operation, active, owner, starts, joinable, stopping, batch, stopped,
                   network, events, unvisited, picked, history>>

StopSpinning(i, j) ==
    /\ ~active
    /\ listener[j] = "spinning"
    /\ Moves(i, "spin", "poll")
    /\ listener' = [listener EXCEPT ![j] = "done"]
    /\ UNCHANGED <<operation, active, owner, starts, joinable, stopping, batch, stopped,
                   network, events, unvisited, picked, history>>

OnSessionStarted(s) ==
    /\ session' = [session EXCEPT ![s] = "active"]
    /\ tracked' = tracked \cup {s}
    /\ reading' = reading \cup {s}
    /\ leftover' = leftover \ {s}

Accept(j, s) ==
    /\ Polling
    /\ listener[j] = "accepting"
    /\ Available(s)
    /\ OnSessionStarted(s)
    /\ Listen(j)
    /\ UNCHANGED <<operation, active, owner, starts, joinable, stopping, batch, stopped, open,
                   bound, events, unvisited, picked, errored>>

(* Accepting fails, or the peer has gone before its address could be read. *)
AcceptFails(j) ==
    /\ Polling
    /\ listener[j] = "accepting"
    /\ listener' = [listener EXCEPT ![j] = "done"]
    /\ active' = FALSE
    /\ errored' = TRUE
    /\ UNCHANGED <<operation, threads, stopped, network, events, unvisited, picked,
                   leftover>>

AcceptAborted(j) ==
    /\ Polling
    /\ listener[j] = "aborted"
    /\ listener' = [listener EXCEPT ![j] = "done"]
    /\ UNCHANGED <<operation, active, threads, stopped, network, events, unvisited, picked,
                   history>>

(* ConnectionProcessor up to the declaration of the resolving peer.        *)
Resolve(s) ==
    /\ Polling
    /\ session[s] = "resolving"
    /\ \E phase \in {"connecting", "free"} : session' = [session EXCEPT ![s] = phase]
    /\ UNCHANGED <<operation, active, threads, listener, stopped, open, bound, reading,
                   tracked, events, unvisited, picked, history>>

ResolveCancelled(s) ==
    /\ Polling
    /\ session[s] = "cancelled"
    /\ session' = [session EXCEPT ![s] = "free"]
    /\ UNCHANGED <<operation, active, threads, listener, stopped, open, bound, reading,
                   tracked, events, unvisited, picked, history>>

(* A connection may be tracked while ResetConnections walks the tracker.   *)
Connected(s) ==
    /\ Polling
    /\ session[s] = "connecting"
    /\ OnSessionStarted(s)
    /\ unvisited' \in IF owner = "polling" THEN {unvisited, unvisited \cup {s}} ELSE {unvisited}
    /\ UNCHANGED <<operation, active, threads, listener, stopped, open, bound, events, picked,
                   errored>>

ConnectFails(s) ==
    /\ Polling
    /\ session[s] = "connecting"
    /\ session' = [session EXCEPT ![s] = "free"]
    /\ UNCHANGED <<operation, active, threads, listener, stopped, open, bound, reading,
                   tracked, events, unvisited, picked, history>>

OnSessionStoppedKept(s) == tracked' = tracked       \* mutant: a stopped session is kept

(* Only an active endpoint stops to track a session that has stopped.      *)
OnSessionStopped(s) == tracked' = IF active THEN tracked \ {s} ELSE tracked

(* The Receiver ends with the session, or the Dispatcher fails first.      *)
SessionEnds(s) ==
    /\ Polling
    /\ session[s] = "active"
    /\ OnSessionStopped(s)
    /\ \/ /\ s \in reading
          /\ reading' = reading \ {s}
          /\ session' = [session EXCEPT ![s] = "stopped"]
       \/ /\ session' = [session EXCEPT ![s] = "broken"]
          /\ UNCHANGED reading
    /\ UNCHANGED <<operation, active, threads, listener, stopped, open, bound, events,
                   unvisited, picked, history>>

ReceiveAborted(s) ==
    /\ Polling
    /\ Stopped(s)
    /\ s \in reading
    /\ reading' = reading \ {s}
    /\ OnSessionStopped(s)
    /\ UNCHANGED <<operation, active, threads, listener, stopped, open, bound, session,
                   events, unvisited, picked, history>>

(* A message is answered at once or refused; otherwise nothing changes here. *)
OnMessageReceived(s) ==
    /\ Polling
    /\ session[s] = "active"
    /\ s \in reading
    /\ \/ /\ Schedule(DispatchEvent(s))
          /\ s \in tracked
          /\ UNCHANGED reading
       \/ /\ reading' = reading \ {s}
          /\ UNCHANGED events
    /\ UNCHANGED <<operation, active, threads, listener, stopped, open, bound, session,
                   tracked, unvisited, picked, history>>

(* A read had completed by the time a write failed and stopped the session. *)
ReceivedLate(s) ==
    /\ Polling
    /\ session[s] = "broken"
    /\ s \in reading
    /\ reading' = reading \ {s}
    /\ UNCHANGED <<operation, active, threads, listener, stopped, open, bound, session,
                   tracked, events, unvisited, picked, history>>

-------------------------------------------------------------------------------
OwnerStep ==
    \/ ReplaceWorker
    \/ JoinWorker
    \/ CloseAcceptor
    \/ \E s \in Session : StopSession(s)
    \/ EndPoll
    \/ ClearConnections

WorkerStep(i) ==
    \/ TakeEvents(i)
    \/ Bind(i)
    \/ Connect(i)
    \/ ProcessDispatchEvent(i)
    \/ StartPoll(i)
    \/ FinishPoll(i)
    \/ StopWorker(i)
    \/ ExitWorker(i)
    \/ \E j \in Start : StopSpinning(i, j)

(* What a poll finds ready is run by it.                                   *)
ReadyHandler ==
    \/ \E j \in Start : ListenProcessor(j) \/ AcceptAborted(j)
    \/ \E s \in Session : ResolveCancelled(s) \/ ReceiveAborted(s) \/ ReceivedLate(s)

NetworkHandler ==
    \/ \E j \in Start : AcceptFails(j) \/ \E s \in Session : Accept(j, s)
    \/ \E s \in Session : \/ Resolve(s) \/ Connected(s) \/ ConnectFails(s)
                          \/ SessionEnds(s) \/ OnMessageReceived(s)

Next ==
    \/ ScheduleBind
    \/ ScheduleConnect
    \/ \E s \in Session : Translate(s)
    \/ ScheduleSend
    \/ Startup
    \/ Shutdown
    \/ OwnerStep
    \/ \E i \in Start : WorkerStep(i)
    \/ ReadyHandler
    \/ NetworkHandler

Spec == Init /\ [][Next]_vars

(* The threads run, and a poll catches up with the network and returns,    *)
(* however many connections come and go meanwhile.                         *)
FairSpec ==
    /\ Spec
    /\ []<>~Ready
    /\ WF_vars(OwnerStep) /\ SF_vars(EndPoll)
    /\ \A i \in Start : WF_vars(WorkerStep(i)) /\ SF_vars(FinishPoll(i))
    /\ WF_vars(ReadyHandler)

-------------------------------------------------------------------------------
(* The state has the types of the members it models.                       *)
TypeOK ==
    /\ operation \in {"Server", "Client"}
    /\ active \in BOOLEAN
    /\ owner \in {"idle", "replacing", "joining", "closing", "resetting", "polling"}
    /\ starts \in 0..MaxStarts
    /\ joinable \in 0..MaxStarts
    /\ worker \in [Start -> {"none", "loop", "events", "poll", "spin", "exit", "done"}]
    /\ stopping \subseteq Start
    /\ batch \in [Start -> Seq(Event)]
    /\ listener \in [Start -> {"none", "spawned", "accepting", "spinning", "aborted", "done"}]
    /\ open \in BOOLEAN
    /\ stopped \in BOOLEAN
    /\ bound \in BOOLEAN
    /\ events \in Seq(Event)
    /\ session \in [Session -> {"free", "resolving", "cancelled", "connecting", "active",
                               "broken", "stopped"}]
    /\ reading \subseteq Session
    /\ tracked \subseteq Session
    /\ unvisited \subseteq Session
    /\ picked \in Session \cup {NoSession}
    /\ errored \in BOOLEAN
    /\ leftover \subseteq Session
    /\ joinable <= starts
    /\ \A i \in Start : worker[i] = "none" <=> i > starts
    /\ operation = "Client" => ~open /\ \A i \in Start : listener[i] = "none"

(***************************************************************************)
(* What makes the endpoint correct.  An error of the listener clears       *)
(* m_active although the worker goes on: `errored' excludes it where the   *)
(* code does not cope with it.                                             *)
(***************************************************************************)
Running(i) == worker[i] \in {"loop", "events", "poll", "spin", "exit"}

(* Whatever the listener, Startup and Shutdown do to m_active, only the    *)
(* thread that m_worker holds runs, or the one that is about to replace it. *)
WorkerIsOwned ==
    \A i \in Start : Running(i) => i = joinable \/ (owner = "replacing" /\ i = starts)

(* IsActive tells whether a worker runs.                                   *)
ActiveIsRunning == ~errored => (active <=> \E i \in Start : Running(i))

(* Shutdown has stopped the context, and nothing was started since.        *)
IsShut == owner = "idle" /\ stopped /\ ~active

(* Shutdown leaves no thread, no acceptor, no connection and no live       *)
(* session behind, except connections established while it walks the       *)
(* tracker.                                                                *)
ShutdownLeavesNothing ==
    IsShut /\ ~errored =>
        /\ ~Operating
        /\ \A i \in Start : ~Running(i)
        /\ \A s \in Session \ leftover : session[s] # "active"

(* What the comment in Shutdown calls its post condition: nothing of the   *)
(* endpoint operates any more.                                             *)
ShutdownPostcondition == IsShut => ~Operating

(* The tracker offers a session for sending exactly while it is active.    *)
TrackedIffActive ==
    ~errored /\ owner \notin {"resetting", "polling"} =>
        \A s \in Session \ leftover : s \in tracked <=> session[s] = "active"

(* While an active server has an open acceptor, some coroutine accepts.    *)
ListenerServes ==
    active /\ open => errored \/ \E i \in Start : listener[i] \in {"spawned", "accepting"}

(* ProcessDispatchEvent and ScheduleSend assert that the session of a      *)
(* queued message is active.                                               *)
DispatchFindsSession ==
    \A i \in Start, s \in Session :
        worker[i] = "events" /\ batch[i] # <<>> /\ Head(batch[i]) = DispatchEvent(s) =>
            session[s] = "active"

(* A message that arrives after the first on its session finds a peer.     *)
ReceiveFindsPeer ==
    \A s \in reading : Polling /\ session[s] \in {"active", "broken"} => s \in tracked

Spinning == \E i \in Start : worker[i] = "spin"

(* Startup and Shutdown return, unless the listener spins.                 *)
CallsReturn == owner # "idle" ~> owner = "idle" \/ Spinning

(* What is scheduled with an active endpoint is taken by its worker,       *)
(* whatever else is scheduled, unless the listener spins or the endpoint   *)
(* is shut down.                                                           *)
Within(type, queue) == \E k \in DOMAIN queue : queue[k].type = type
EventsAreTaken ==
    \A type \in {"Bind", "Connect", "Dispatch"} :
        active /\ Within(type, events) ~>
            (\E i \in Start : Within(type, batch[i])) \/ Spinning \/ ~active

===============================================================================
