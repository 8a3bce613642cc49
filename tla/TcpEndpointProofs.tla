-------------------------- MODULE TcpEndpointProofs --------------------------
(***************************************************************************)
(* What a TCP endpoint promises for every number of sessions and starts    *)
(* and every length of the queue of events.                                *)
(***************************************************************************)
EXTENDS TcpEndpoint, SequenceTheorems, TLAPS

(***************************************************************************)
(* The inductive invariant.  Outside a call that joins it, the worker that *)
(* m_worker holds runs and nobody has asked it to stop; only a start that  *)
(* an error of the listener let through replaces a worker.                 *)
(***************************************************************************)
Ownership ==
    /\ stopping \subseteq 1..starts
    /\ \A i \in Start : worker[i] = "exit" => i \in stopping
    /\ active => joinable # 0
    /\ owner \in {"joining", "replacing"} => joinable # 0
    /\ owner = "joining" /\ active => Running(joinable)
    /\ owner = "replacing" => /\ joinable < starts
                              /\ Running(starts)
                              /\ starts \notin stopping
    /\ owner \notin {"joining", "replacing"} /\ joinable # 0 =>
           Running(joinable) /\ joinable \notin stopping

(* Until the listener fails, m_active tells whether a worker runs, and a   *)
(* Shutdown past its join has no worker to reckon with.                    *)
Undisturbed ==
    ~errored =>
        /\ owner # "replacing"
        /\ active <=> joinable # 0 /\ Running(joinable)
        /\ owner \in {"closing", "resetting", "polling"} => joinable = 0
        /\ owner \in {"resetting", "polling"} => ~open

HoldsBind(queue) == \E k \in DOMAIN queue : queue[k] = BindEvent
BindsAtMostOnce(queue) ==
    \A k, l \in DOMAIN queue : queue[k] = BindEvent /\ queue[l] = BindEvent => k = l

(* A client is given no binding, and a server one at a time.               *)
ClientNeverBinds ==
    operation = "Client" => ~HoldsBind(events) /\ \A i \in Start : ~HoldsBind(batch[i])

BindsOnce ==
    /\ BindsAtMostOnce(events)
    /\ \A i \in Start :
           /\ batch[i] # <<>> => worker[i] = "events"
           /\ BindsAtMostOnce(batch[i])
           /\ HoldsBind(batch[i]) => ~HoldsBind(events)

(* The listener of an active server accepts, or will once the acceptor is  *)
(* open, or no binding is left that could open the acceptor again.         *)
ListenerInv ==
    ~errored /\ active /\ operation = "Server" =>
        /\ listener[joinable] # "none"
        /\ open => listener[joinable] \in {"spawned", "accepting"}
        /\ listener[joinable] = "spinning" => worker[joinable] = "spin"
        /\ listener[joinable] \in {"aborted", "done"} =>
               ~HoldsBind(events) /\ ~HoldsBind(batch[joinable])

TypeInv == TypeOK /\ ClientNeverBinds /\ Ownership
IInv == TypeInv /\ WorkerIsOwned /\ Undisturbed /\ BindsOnce /\ ListenerInv

-------------------------------------------------------------------------------
(***************************************************************************)
(* Lemmas about the queues.                                                *)
(***************************************************************************)
(* Appending keeps what a queue holds and adds one event.                  *)
LEMMA AppendToQueue ==
    ASSUME NEW q \in Seq(Event), NEW e \in Event
    PROVE  /\ Append(q, e) \in Seq(Event)
           /\ HoldsBind(Append(q, e)) <=> HoldsBind(q) \/ e = BindEvent
           /\ BindsAtMostOnce(q) /\ (e = BindEvent => ~HoldsBind(q)) =>
                  BindsAtMostOnce(Append(q, e))
<1> DEFINE r == Append(q, e)
<1>1. /\ r \in Seq(Event)
      /\ Len(r) = Len(q) + 1
      /\ \A k \in 1..Len(q) : r[k] = q[k]
      /\ r[Len(q) + 1] = e
  BY AppendProperties
<1>2. Len(q) \in Nat /\ DOMAIN q = 1..Len(q) /\ DOMAIN r = 1..(Len(q) + 1)
  BY <1>1
<1> HIDE DEF r
<1>3. HoldsBind(r) <=> HoldsBind(q) \/ e = BindEvent
  BY <1>1, <1>2 DEF HoldsBind
<1>4. BindsAtMostOnce(q) /\ (e = BindEvent => ~HoldsBind(q)) => BindsAtMostOnce(r)
  BY <1>1, <1>2 DEF HoldsBind, BindsAtMostOnce
<1> QED
  BY <1>1, <1>3, <1>4 DEF r

(* Taking the head leaves a queue with the rest of its bindings.           *)
LEMMA RestOfQueue ==
    ASSUME NEW q \in Seq(Event), q # <<>>
    PROVE  /\ Head(q) \in Event
           /\ Tail(q) \in Seq(Event)
           /\ Head(q) = BindEvent => HoldsBind(q)
           /\ HoldsBind(Tail(q)) => HoldsBind(q)
           /\ BindsAtMostOnce(q) => BindsAtMostOnce(Tail(q))
           /\ BindsAtMostOnce(q) /\ Head(q) = BindEvent => ~HoldsBind(Tail(q))
<1> DEFINE r == Tail(q)
<1>1. /\ r \in Seq(Event)
      /\ Len(r) = Len(q) - 1
      /\ \A k \in 1..Len(r) : r[k] = q[k + 1]
      /\ Head(q) = q[1]
      /\ Len(q) \in Nat \ {0}
  BY HeadTailProperties, EmptySeq
<1>2. DOMAIN q = 1..Len(q) /\ DOMAIN r = 1..(Len(q) - 1)
  BY <1>1
<1> HIDE DEF r
<1>3. q[1] \in Event /\ 1 \in DOMAIN q
  BY <1>1, <1>2
<1>4. \A k \in DOMAIN r : k + 1 \in DOMAIN q /\ k + 1 # 1 /\ r[k] = q[k + 1]
  BY <1>1, <1>2
<1>5. HoldsBind(r) => HoldsBind(q)
  BY <1>4 DEF HoldsBind
<1>6. BindsAtMostOnce(q) => BindsAtMostOnce(r)
  BY <1>2, <1>4 DEF BindsAtMostOnce
<1>7. BindsAtMostOnce(q) /\ q[1] = BindEvent => ~HoldsBind(r)
  BY <1>3, <1>4 DEF BindsAtMostOnce, HoldsBind
<1> QED
  BY <1>1, <1>3, <1>5, <1>6, <1>7 DEF r, HoldsBind

(* A worker that takes the first events leaves the others, and a binding   *)
(* is on one side only.                                                    *)
LEMMA SplitQueue ==
    ASSUME NEW q \in Seq(Event), NEW n \in 0..Len(q)
    PROVE  LET taken == SubSeq(q, 1, n)
               left == SubSeq(q, n + 1, Len(q))
           IN  /\ taken \in Seq(Event) /\ left \in Seq(Event)
               /\ HoldsBind(taken) \/ HoldsBind(left) => HoldsBind(q)
               /\ BindsAtMostOnce(q) => /\ BindsAtMostOnce(taken)
                                        /\ BindsAtMostOnce(left)
                                        /\ HoldsBind(taken) => ~HoldsBind(left)
<1> DEFINE taken == SubSeq(q, 1, n)
           left == SubSeq(q, n + 1, Len(q))
<1>0. Len(q) \in Nat /\ n \in Nat /\ n <= Len(q) /\ DOMAIN q = 1..Len(q)
  OBVIOUS
<1>1. /\ taken \in Seq(Event) /\ Len(taken) = n
      /\ \A k \in 1..n : taken[k] = q[k]
  BY <1>0, SubSeqProperties
<1>2. /\ left \in Seq(Event) /\ Len(left) = Len(q) - n
      /\ \A k \in 1..(Len(q) - n) : left[k] = q[k + n]
  <2> DEFINE m == n + 1
  <2>1. m \in 1..(Len(q) + 1) /\ Len(q) \in (m - 1)..Len(q)
    BY <1>0
  <2>2. /\ left \in Seq(Event)
        /\ Len(left) = Len(q) - m + 1
        /\ \A k \in 1..(Len(q) - m + 1) : left[k] = q[m + k - 1]
    <3> HIDE DEF m
    <3> SUFFICES /\ SubSeq(q, m, Len(q)) \in Seq(Event)
                 /\ Len(SubSeq(q, m, Len(q))) = Len(q) - m + 1
                 /\ \A k \in 1..(Len(q) - m + 1) : SubSeq(q, m, Len(q))[k] = q[m + k - 1]
      BY DEF m
    <3> QED
      BY <2>1, SubSeqProperties
  <2> HIDE DEF left
  <2> QED
    BY <1>0, <2>2
<1>3. DOMAIN taken = 1..n /\ DOMAIN left = 1..(Len(q) - n)
  BY <1>1, <1>2
<1> HIDE DEF taken, left
<1>4. \A k \in DOMAIN taken : k \in DOMAIN q /\ k \in Nat /\ k <= n /\ taken[k] = q[k]
  BY <1>0, <1>1, <1>3
<1>5. \A k \in DOMAIN left : k \in Nat \ {0} /\ k + n \in DOMAIN q /\ left[k] = q[k + n]
  BY <1>0, <1>2, <1>3
<1>6. HoldsBind(taken) \/ HoldsBind(left) => HoldsBind(q)
  BY <1>4, <1>5 DEF HoldsBind
<1>7. ASSUME BindsAtMostOnce(q) PROVE BindsAtMostOnce(taken) /\ BindsAtMostOnce(left)
  <2>1. BindsAtMostOnce(taken)
    BY <1>4, <1>7 DEF BindsAtMostOnce
  <2>2. BindsAtMostOnce(left)
    BY <1>0, <1>5, <1>7 DEF BindsAtMostOnce
  <2> QED
    BY <2>1, <2>2
<1>8. ASSUME BindsAtMostOnce(q), HoldsBind(taken), HoldsBind(left) PROVE FALSE
  <2>1. PICK k \in DOMAIN taken : taken[k] = BindEvent
    BY <1>8 DEF HoldsBind
  <2>2. PICK l \in DOMAIN left : left[l] = BindEvent
    BY <1>8 DEF HoldsBind
  <2>3. k = l + n
    BY <1>4, <1>5, <1>8, <2>1, <2>2 DEF BindsAtMostOnce
  <2> QED
    BY <1>0, <1>4, <1>5, <2>3
<1> QED
  BY <1>1, <1>2, <1>6, <1>7, <1>8 DEF taken, left

-------------------------------------------------------------------------------
(***************************************************************************)
(* What each kind of step does to the queues.                              *)
(***************************************************************************)
(* Scheduling an event adds nothing but that event.                        *)
LEMMA ScheduleOK ==
    ASSUME TypeOK, NEW e \in Event, Schedule(e)
    PROVE  /\ events' \in Seq(Event)
           /\ HoldsBind(events') <=> HoldsBind(events) \/ e = BindEvent
           /\ BindsAtMostOnce(events) /\ (e = BindEvent => ~HoldsBind(events)) =>
                  BindsAtMostOnce(events')
BY AppendToQueue DEF TypeOK, Schedule

(* Processing an event takes it from the batch of the worker.              *)
LEMMA ProcessNextOK ==
    ASSUME TypeOK, NEW i \in Start, NEW e, ProcessNext(i, e)
    PROVE  /\ batch' \in [Start -> Seq(Event)]
           /\ \A m \in Start : m # i => batch'[m] = batch[m]
           /\ worker[i] = "events"
           /\ e = BindEvent => HoldsBind(batch[i])
           /\ HoldsBind(batch'[i]) => HoldsBind(batch[i])
           /\ BindsAtMostOnce(batch[i]) => BindsAtMostOnce(batch'[i])
           /\ BindsAtMostOnce(batch[i]) /\ e = BindEvent => ~HoldsBind(batch'[i])
<1>1. /\ batch[i] \in Seq(Event) /\ batch[i] # <<>> /\ Head(batch[i]) = e
      /\ batch' = [batch EXCEPT ![i] = Tail(batch[i])]
      /\ batch \in [Start -> Seq(Event)]
  BY DEF TypeOK, ProcessNext
<1>2. batch'[i] = Tail(batch[i])
  BY <1>1
<1>3. batch' \in [Start -> Seq(Event)] /\ \A m \in Start : m # i => batch'[m] = batch[m]
  BY <1>1, RestOfQueue
<1> QED
  BY <1>1, <1>2, <1>3, RestOfQueue DEF ProcessNext

(* Taking events moves them from the queue to the batch.                   *)
LEMMA TakeEventsOK ==
    ASSUME TypeOK, NEW i \in Start, TakeEvents(i)
    PROVE  /\ events' \in Seq(Event)
           /\ batch' \in [Start -> Seq(Event)]
           /\ \A m \in Start : m # i => batch'[m] = batch[m]
           /\ HoldsBind(events') \/ HoldsBind(batch'[i]) => HoldsBind(events)
           /\ BindsAtMostOnce(events) => /\ BindsAtMostOnce(events')
                                         /\ BindsAtMostOnce(batch'[i])
                                         /\ HoldsBind(batch'[i]) => ~HoldsBind(events')
<1> DEFINE n == IF Len(events) < EventProcessingLimit THEN Len(events)
                ELSE EventProcessingLimit
<1>1. events \in Seq(Event) /\ batch \in [Start -> Seq(Event)]
  BY DEF TypeOK
<1>2. n \in 0..Len(events)
  BY <1>1, LimitsAssumption
<1>3. /\ batch' = [batch EXCEPT ![i] = SubSeq(events, 1, n)]
      /\ events' = SubSeq(events, n + 1, Len(events))
  BY DEF TakeEvents
<1> HIDE DEF n
<1>4. SubSeq(events, 1, n) \in Seq(Event)
  BY <1>1, <1>2, SplitQueue
<1>5. /\ batch' \in [Start -> Seq(Event)]
      /\ batch'[i] = SubSeq(events, 1, n)
      /\ \A m \in Start : m # i => batch'[m] = batch[m]
  BY <1>1, <1>3, <1>4
<1> QED
  BY <1>1, <1>2, <1>3, <1>5, SplitQueue


-------------------------------------------------------------------------------
(***************************************************************************)
(* The steps, one conjunct of the invariant after the other.  Every action *)
(* leaves each variable in the set of values of its member.                *)
(***************************************************************************)
LEMMA TypeStep ==
    ASSUME TypeInv, [Next]_vars
    PROVE  TypeOK'
<1> USE LimitsAssumption DEF TypeInv
<1>1. CASE ScheduleBind
  <2>1. BindEvent \in Event /\ Schedule(BindEvent)
    BY <1>1 DEF ScheduleBind, Event, BindEvent
  <2> QED
    BY <1>1, <2>1, ScheduleOK DEF ScheduleBind, TypeOK, threads, network, history
<1>2. CASE ScheduleConnect
  <2>1. ConnectEvent \in Event /\ Schedule(ConnectEvent)
    BY <1>2 DEF ScheduleConnect, Event, ConnectEvent
  <2> QED
    BY <1>2, <2>1, ScheduleOK DEF ScheduleConnect, TypeOK, threads, network, history
<1>3. ASSUME NEW s \in Session, Translate(s) PROVE TypeOK'
  BY <1>3 DEF Translate, TypeOK, Start, threads, network, history
<1>4. CASE ScheduleSend
  <2>1. DispatchEvent(picked) \in Event /\ Schedule(DispatchEvent(picked))
    BY <1>4 DEF ScheduleSend, Event, DispatchEvent, TypeOK
  <2> QED
    BY <1>4, <2>1, ScheduleOK DEF ScheduleSend, TypeOK, threads, network, history
<1>5. CASE Startup
  <2>1. /\ starts' = starts + 1 /\ starts' \in 1..MaxStarts
        /\ worker' = [worker EXCEPT ![starts'] = "loop"]
        /\ listener' = [listener EXCEPT ![starts'] =
                            IF operation = "Server" THEN "spawned" ELSE "none"]
    BY <1>5 DEF Startup, TypeOK
  <2>2. /\ worker' \in [Start -> {"none", "loop", "events", "poll", "spin", "exit", "done"}]
        /\ listener' \in [Start -> {"none", "spawned", "accepting", "spinning", "aborted",
                                    "done"}]
    BY <2>1 DEF TypeOK, Start
  <2>3. joinable' \in 0..MaxStarts /\ joinable' <= starts' /\ stopping' \subseteq Start
    <3>1. CASE joinable = 0
      BY <1>5, <2>1, <3>1 DEF Startup, TypeOK
    <3>2. CASE joinable # 0
      <4>1. joinable \in Start /\ joinable <= starts /\ stopping' = stopping \cup {joinable}
            /\ joinable' = joinable
        BY <1>5, <3>2 DEF Startup, TypeOK, Start
      <4> QED
        BY <2>1, <4>1 DEF TypeOK, Start
    <3> QED
      BY <3>1, <3>2
  <2>4. \A i \in Start : worker'[i] = "none" <=> i > starts'
    BY <2>1 DEF TypeOK, Start
  <2>5. operation = "Client" => \A i \in Start : listener'[i] = "none"
    BY <2>1 DEF TypeOK, Start
  <2> QED
    BY <1>5, <2>1, <2>2, <2>3, <2>4, <2>5 DEF Startup, TypeOK, threads, network, history
<1>6. CASE Shutdown
  <2>1. active => joinable \in Start
    BY DEF Ownership, TypeOK, Start
  <2>2. stopping' \subseteq Start
    BY <1>6, <2>1 DEF Shutdown, TypeOK
  <2> QED
    BY <1>6, <2>2 DEF Shutdown, TypeOK, threads, network, history
<1>7. CASE ReplaceWorker
  BY <1>7 DEF ReplaceWorker, TypeOK, Start, network, history
<1>8. CASE JoinWorker
  BY <1>8 DEF JoinWorker, TypeOK, Start, network, history
<1>9. CASE CloseAcceptor
  BY <1>9 DEF CloseAcceptor, TypeOK, Start, Aborted, history
<1>10. ASSUME NEW s \in Session, StopSession(s) PROVE TypeOK'
  BY <1>10 DEF StopSession, TypeOK, Start, history
<1>11. CASE EndPoll
  BY <1>11 DEF EndPoll, TypeOK, Start, network, history
<1>12. CASE ClearConnections
  BY <1>12 DEF ClearConnections, TypeOK, Start
<1>13. ASSUME NEW i \in Start, TakeEvents(i) PROVE TypeOK'
  BY <1>13, TakeEventsOK DEF TakeEvents, Moves, TypeOK, threads, network, history
<1>14. ASSUME NEW i \in Start, Bind(i) PROVE TypeOK'
  <2>1. batch' \in [Start -> Seq(Event)] /\ HoldsBind(batch[i])
    BY <1>14, ProcessNextOK DEF Bind
  <2>2. operation = "Server"
    BY <2>1 DEF ClientNeverBinds, TypeOK
  <2> QED
    BY <1>14, <2>1, <2>2 DEF Bind, Aborted, TypeOK, threads, network, history
<1>15. ASSUME NEW i \in Start, Connect(i) PROVE TypeOK'
  <2>1. batch' \in [Start -> Seq(Event)]
    BY <1>15, ProcessNextOK DEF Connect
  <2>2. session' \in [Session -> {"free", "resolving", "cancelled", "connecting", "active",
                                 "broken", "stopped"}]
    BY <1>15 DEF Connect, TypeOK
  <2> QED
    BY <1>15, <2>1, <2>2 DEF Connect, TypeOK, history
<1>16. ASSUME NEW i \in Start, ProcessDispatchEvent(i) PROVE TypeOK'
  <2>1. batch' \in [Start -> Seq(Event)]
    BY <1>16, ProcessNextOK DEF ProcessDispatchEvent
  <2> QED
    BY <1>16, <2>1 DEF ProcessDispatchEvent, TypeOK, threads, network, history
<1>17. ASSUME NEW i \in Start, StartPoll(i) PROVE TypeOK'
  BY <1>17 DEF StartPoll, TypeOK, Start, Moves, network, history
<1>18. ASSUME NEW i \in Start, FinishPoll(i) PROVE TypeOK'
  BY <1>18 DEF FinishPoll, TypeOK, Start, Moves, network, history
<1>19. ASSUME NEW i \in Start, StopWorker(i) PROVE TypeOK'
  BY <1>19 DEF StopWorker, TypeOK, Start, Moves, network, history
<1>20. ASSUME NEW i \in Start, ExitWorker(i) PROVE TypeOK'
  BY <1>20 DEF ExitWorker, TypeOK, Start, Moves, network, history
<1>21. ASSUME NEW i \in Start, NEW j \in Start, StopSpinning(i, j) PROVE TypeOK'
  BY <1>21 DEF StopSpinning, TypeOK, Start, Moves, network, history
<1>22. ASSUME NEW j \in Start, ListenProcessor(j) PROVE TypeOK'
  BY <1>22 DEF ListenProcessor, TypeOK, Start, Moves, Listen, network, history
<1>23. ASSUME NEW j \in Start, AcceptAborted(j) PROVE TypeOK'
  BY <1>23 DEF AcceptAborted, TypeOK, Start, threads, network, history
<1>24. ASSUME NEW s \in Session, ResolveCancelled(s) PROVE TypeOK'
  BY <1>24 DEF ResolveCancelled, TypeOK, Start, threads, history
<1>25. ASSUME NEW s \in Session, ReceiveAborted(s) PROVE TypeOK'
  BY <1>25 DEF ReceiveAborted, TypeOK, Start, OnSessionStopped, threads, history
<1>26. ASSUME NEW s \in Session, ReceivedLate(s) PROVE TypeOK'
  BY <1>26 DEF ReceivedLate, TypeOK, Start, threads, history
<1>27. ASSUME NEW j \in Start, AcceptFails(j) PROVE TypeOK'
  BY <1>27 DEF AcceptFails, TypeOK, Start, threads, network
<1>28. ASSUME NEW j \in Start, NEW s \in Session, Accept(j, s) PROVE TypeOK'
  BY <1>28 DEF Accept, TypeOK, Start, Moves, Listen, OnSessionStarted
<1>29. ASSUME NEW s \in Session, Resolve(s) PROVE TypeOK'
  BY <1>29 DEF Resolve, TypeOK, Start, threads, history
<1>30. ASSUME NEW s \in Session, Connected(s) PROVE TypeOK'
  BY <1>30 DEF Connected, TypeOK, Start, OnSessionStarted, threads
<1>31. ASSUME NEW s \in Session, ConnectFails(s) PROVE TypeOK'
  BY <1>31 DEF ConnectFails, TypeOK, Start, threads, history
<1>32. ASSUME NEW s \in Session, SessionEnds(s) PROVE TypeOK'
  <2>1. session' \in [Session -> {"free", "resolving", "cancelled", "connecting", "active",
                                  "broken", "stopped"}]
    BY <1>32 DEF SessionEnds, TypeOK
  <2>2. reading' \subseteq Session /\ tracked' \subseteq Session
    BY <1>32 DEF SessionEnds, OnSessionStopped, TypeOK
  <2> QED
    BY <1>32, <2>1, <2>2 DEF SessionEnds, TypeOK, threads, network, history
<1>33. ASSUME NEW s \in Session, OnMessageReceived(s) PROVE TypeOK'
  <2>1. CASE Schedule(DispatchEvent(s)) /\ UNCHANGED reading
    <3>1. DispatchEvent(s) \in Event
      BY DEF Event, DispatchEvent
    <3> QED
      BY <1>33, <2>1, <3>1, ScheduleOK
         DEF OnMessageReceived, TypeOK, threads, network, history
  <2>2. CASE reading' = reading \ {s} /\ UNCHANGED events
    BY <1>33, <2>2 DEF OnMessageReceived, TypeOK, threads, network, history
  <2> QED
    BY <1>33, <2>1, <2>2 DEF OnMessageReceived
<1>34. CASE UNCHANGED vars
  BY <1>34 DEF TypeOK, Start, threads, network, history, vars
<1> QED
  BY <1>1, <1>2, <1>3, <1>4, <1>5, <1>6, <1>7, <1>8, <1>9, <1>10, <1>11, <1>12,
     <1>13, <1>14, <1>15, <1>16, <1>17, <1>18, <1>19, <1>20, <1>21, <1>22, <1>23,
     <1>24, <1>25, <1>26, <1>27, <1>28, <1>29, <1>30, <1>31, <1>32, <1>33, <1>34
     DEF Next, OwnerStep, WorkerStep, ReadyHandler, NetworkHandler
-------------------------------------------------------------------------------
(***************************************************************************)
(* What the steps do to the threads, and to the queues.  Most of them      *)
(* leave both alone; the proofs below go through the others only.          *)
(***************************************************************************)
Cycle == {"loop", "events", "poll", "spin"}

(* A worker goes from one part of its loop to another.                     *)
WorkerMoves(i) ==
    /\ worker[i] \in Cycle
    /\ \E position \in Cycle : worker' = [worker EXCEPT ![i] = position]
    /\ UNCHANGED <<active, owner, starts, joinable, stopping, open, errored>>

(* Shutdown goes on after the join, the acceptor closed by its first step. *)
ShutdownMoves ==
    /\ \/ owner = "closing" /\ owner' = "resetting" /\ ~open'
       \/ /\ owner \in {"resetting", "polling"}
          /\ owner' \in {"resetting", "polling", "idle"}
          /\ UNCHANGED open
    /\ UNCHANGED <<active, starts, joinable, worker, stopping, errored>>

(* The threads stay where they are, and only a worker opens the acceptor.  *)
ThreadsStay ==
    /\ UNCHANGED <<active, owner, starts, joinable, worker, stopping, errored>>
    /\ open' => open \/ \E i \in Start : worker[i] = "events"

(* What each action does to the owner and to the workers.                  *)
LEMMA ThreadSteps ==
    ASSUME TypeOK, [Next]_vars
    PROVE  \/ Startup \/ Shutdown \/ ReplaceWorker \/ JoinWorker
           \/ \E i \in Start : StopWorker(i) \/ ExitWorker(i) \/ WorkerMoves(i)
           \/ \E j \in Start : AcceptFails(j)
           \/ ShutdownMoves
           \/ ThreadsStay
<1>1. ASSUME ScheduleBind \/ ScheduleConnect \/ (\E s \in Session : Translate(s))
             \/ ScheduleSend \/ UNCHANGED vars
      PROVE  ThreadsStay
  BY <1>1 DEF ScheduleBind, ScheduleConnect, Translate, ScheduleSend, ThreadsStay,
     vars, threads, network, history
<1>2. CASE CloseAcceptor \/ (\E s \in Session : StopSession(s)) \/ EndPoll
           \/ ClearConnections
  BY <1>2 DEF CloseAcceptor, StopSession, EndPoll, ClearConnections, ShutdownMoves,
     network, history
<1>3. ASSUME NEW i \in Start, TakeEvents(i) \/ StartPoll(i) \/ FinishPoll(i)
             \/ \E j \in Start : StopSpinning(i, j)
      PROVE  WorkerMoves(i)
  BY <1>3 DEF TakeEvents, StartPoll, FinishPoll, StopSpinning, Moves, WorkerMoves,
     Cycle, network, history
<1>4. ASSUME NEW i \in Start, Bind(i) \/ Connect(i) \/ ProcessDispatchEvent(i)
      PROVE  ThreadsStay
  BY <1>4 DEF Bind, Connect, ProcessDispatchEvent, ProcessNext, ThreadsStay, network,
     history
<1>5. ASSUME NEW j \in Start, ListenProcessor(j) \/ \E s \in Session : Accept(j, s)
      PROVE  ThreadsStay \/ \E i \in Start : WorkerMoves(i)
  <2>1. /\ UNCHANGED <<active, owner, starts, joinable, stopping, open, errored>>
        /\ UNCHANGED worker \/ \E i \in Start : Moves(i, "poll", "spin")
    BY <1>5 DEF ListenProcessor, Accept, Listen, network, history
  <2> QED
    BY <2>1 DEF Moves, WorkerMoves, ThreadsStay, Cycle
<1>6. ASSUME NEW j \in Start, AcceptAborted(j) PROVE ThreadsStay
  BY <1>6 DEF AcceptAborted, ThreadsStay, threads, network, history
<1>7. ASSUME NEW s \in Session,
             \/ ResolveCancelled(s) \/ ReceiveAborted(s) \/ ReceivedLate(s)
             \/ Resolve(s) \/ Connected(s) \/ ConnectFails(s)
             \/ SessionEnds(s) \/ OnMessageReceived(s)
      PROVE  ThreadsStay
  BY <1>7 DEF ResolveCancelled, ReceiveAborted, ReceivedLate, Resolve, Connected,
     ConnectFails, SessionEnds, OnMessageReceived, ThreadsStay, threads, history
<1> QED
  BY <1>1, <1>2, <1>3, <1>4, <1>5, <1>6, <1>7
     DEF Next, OwnerStep, WorkerStep, ReadyHandler, NetworkHandler

(* Any other event than a binding.                                         *)
OtherEvent == Event \ {BindEvent}

(* What each action does to the queue of events and to the batches.        *)
LEMMA QueueSteps ==
    ASSUME TypeOK, [Next]_vars
    PROVE  \/ ScheduleBind
           \/ /\ \E e \in OtherEvent : Schedule(e)
              /\ UNCHANGED <<operation, worker, batch>>
           \/ \E i \in Start : TakeEvents(i) \/ Bind(i)
           \/ /\ \E i \in Start : \E e \in OtherEvent : ProcessNext(i, e)
              /\ UNCHANGED <<operation, worker, events>>
           \/ /\ UNCHANGED <<operation, batch, events>>
              /\ \A i \in Start : worker[i] = "events" /\ batch[i] # <<>> =>
                                      worker'[i] = "events"
<1> DEFINE Same ==
        /\ UNCHANGED <<operation, batch, events>>
        /\ \A i \in Start : worker[i] = "events" /\ batch[i] # <<>> =>
                                worker'[i] = "events"
<1>1. ConnectEvent \in OtherEvent /\ \A s \in Session : DispatchEvent(s) \in OtherEvent
  BY DEF OtherEvent, Event, BindEvent, ConnectEvent, DispatchEvent
<1>2. CASE ScheduleConnect
  BY <1>1, <1>2 DEF ScheduleConnect, threads
<1>3. CASE ScheduleSend
  BY <1>1, <1>3 DEF ScheduleSend, TypeOK, threads
<1>4. ASSUME NEW s \in Session, OnMessageReceived(s)
      PROVE  Same \/ (Schedule(DispatchEvent(s)) /\ UNCHANGED <<operation, worker, batch>>)
  BY <1>4 DEF OnMessageReceived, threads
<1>5. ASSUME NEW i \in Start, Connect(i) \/ ProcessDispatchEvent(i)
      PROVE  /\ \E e \in OtherEvent : ProcessNext(i, e)
             /\ UNCHANGED <<operation, worker, events>>
  BY <1>1, <1>5 DEF Connect, ProcessDispatchEvent
<1>6. ASSUME (\E s \in Session : Translate(s) \/ StopSession(s)) \/ Shutdown
             \/ ReplaceWorker \/ JoinWorker \/ CloseAcceptor \/ EndPoll
             \/ ClearConnections \/ UNCHANGED vars
      PROVE  Same
  BY <1>6 DEF Translate, StopSession, Shutdown, ReplaceWorker, JoinWorker,
     CloseAcceptor, EndPoll, ClearConnections, vars, threads
<1>7. CASE Startup
  BY <1>7 DEF Startup, TypeOK, Start, network
<1>8. ASSUME NEW i \in Start, StartPoll(i) \/ FinishPoll(i) \/ StopWorker(i)
             \/ ExitWorker(i) \/ \E j \in Start : StopSpinning(i, j)
      PROVE  Same
  BY <1>8 DEF StartPoll, FinishPoll, StopWorker, ExitWorker, StopSpinning, Moves, TypeOK
<1>9. ASSUME NEW j \in Start, ListenProcessor(j) \/ AcceptAborted(j) \/ AcceptFails(j)
             \/ \E s \in Session : Accept(j, s)
      PROVE  Same
  BY <1>9 DEF ListenProcessor, AcceptAborted, AcceptFails, Accept, Listen, Moves,
     TypeOK, threads
<1>10. ASSUME NEW s \in Session,
              \/ ResolveCancelled(s) \/ ReceiveAborted(s) \/ ReceivedLate(s)
              \/ Resolve(s) \/ Connected(s) \/ ConnectFails(s) \/ SessionEnds(s)
       PROVE  Same
  BY <1>10 DEF ResolveCancelled, ReceiveAborted, ReceivedLate, Resolve, Connected,
     ConnectFails, SessionEnds, threads
<1> QED
  BY <1>1, <1>2, <1>3, <1>4, <1>5, <1>6, <1>7, <1>8, <1>9, <1>10
     DEF Next, OwnerStep, WorkerStep, ReadyHandler, NetworkHandler

-------------------------------------------------------------------------------
(***************************************************************************)
(* The threads.                                                            *)
(***************************************************************************)
(* Nothing but Startup sets a worker going, and m_worker lets go of it only *)
(* when it is done.                                                        *)
LEMMA OwnedStep ==
    ASSUME TypeOK, TypeOK', WorkerIsOwned, [Next]_vars
    PROVE  WorkerIsOwned'
<1> USE DEF WorkerIsOwned, Running, TypeOK, Start
<1>1. CASE Startup
  BY <1>1 DEF Startup
<1>2. CASE Shutdown
  BY <1>2 DEF Shutdown
<1>3. CASE ReplaceWorker
  BY <1>3 DEF ReplaceWorker
<1>4. CASE JoinWorker
  BY <1>4 DEF JoinWorker
<1>5. ASSUME NEW i \in Start, StopWorker(i) \/ ExitWorker(i) PROVE WorkerIsOwned'
  BY <1>5 DEF StopWorker, ExitWorker, Moves
<1>6. ASSUME NEW i \in Start, WorkerMoves(i) PROVE WorkerIsOwned'
  BY <1>6 DEF WorkerMoves, Cycle
<1>7. ASSUME NEW j \in Start, AcceptFails(j) PROVE WorkerIsOwned'
  BY <1>7 DEF AcceptFails, threads
<1>8. CASE ShutdownMoves
  BY <1>8 DEF ShutdownMoves
<1>9. CASE ThreadsStay
  BY <1>9 DEF ThreadsStay
<1> QED
  BY <1>1, <1>2, <1>3, <1>4, <1>5, <1>6, <1>7, <1>8, <1>9, ThreadSteps

(* Only Startup and Shutdown request a stop, and each waits for the worker  *)
(* to be done before m_worker lets go of it.                                *)
LEMMA OwnershipStep ==
    ASSUME TypeOK, TypeOK', Ownership, WorkerIsOwned, [Next]_vars
    PROVE  Ownership'
<1> USE DEF Ownership, Running, TypeOK, Start
<1>1. CASE Startup
  BY <1>1 DEF Startup
<1>2. CASE Shutdown
  BY <1>2 DEF Shutdown
<1>3. CASE ReplaceWorker
  BY <1>3 DEF ReplaceWorker
<1>4. CASE JoinWorker
  BY <1>4 DEF JoinWorker
<1>5. ASSUME NEW i \in Start, StopWorker(i) PROVE Ownership'
  BY <1>5 DEF StopWorker, Moves, network, history
<1>6. ASSUME NEW i \in Start, ExitWorker(i) PROVE Ownership'
  BY <1>6 DEF ExitWorker, Moves, network, history
<1>7. ASSUME NEW i \in Start, WorkerMoves(i) PROVE Ownership'
  BY <1>7 DEF WorkerMoves, Cycle
<1>8. ASSUME NEW j \in Start, AcceptFails(j) PROVE Ownership'
  BY <1>8 DEF AcceptFails, threads
<1>9. CASE ShutdownMoves
  BY <1>9 DEF ShutdownMoves
<1>10. CASE ThreadsStay
  BY <1>10 DEF ThreadsStay
<1> QED
  BY <1>1, <1>2, <1>3, <1>4, <1>5, <1>6, <1>7, <1>8, <1>9, <1>10, ThreadSteps

(* Until the listener fails, m_active is set by Startup alone and cleared   *)
(* by the only worker there is.                                             *)
LEMMA UndisturbedStep ==
    ASSUME TypeOK, TypeOK', Ownership, WorkerIsOwned, Undisturbed, [Next]_vars
    PROVE  Undisturbed'
<1> USE DEF Undisturbed, Ownership, WorkerIsOwned, Running, TypeOK, Start
<1>1. CASE Startup
  BY <1>1 DEF Startup, network, history
<1>2. CASE Shutdown
  BY <1>2 DEF Shutdown, network, history
<1>3. CASE ReplaceWorker
  BY <1>3 DEF ReplaceWorker, network, history
<1>4. CASE JoinWorker
  BY <1>4 DEF JoinWorker, network, history
<1>5. ASSUME NEW i \in Start, StopWorker(i) PROVE Undisturbed'
  BY <1>5 DEF StopWorker, Moves, network, history
<1>6. ASSUME NEW i \in Start, ExitWorker(i) PROVE Undisturbed'
  BY <1>6 DEF ExitWorker, Moves, network, history
<1>7. ASSUME NEW i \in Start, WorkerMoves(i) PROVE Undisturbed'
  BY <1>7 DEF WorkerMoves, Cycle
<1>8. ASSUME NEW j \in Start, AcceptFails(j) PROVE Undisturbed'
  BY <1>8 DEF AcceptFails
<1>9. CASE ShutdownMoves
  BY <1>9 DEF ShutdownMoves
<1>10. CASE ThreadsStay
  BY <1>10 DEF ThreadsStay
<1> QED
  BY <1>1, <1>2, <1>3, <1>4, <1>5, <1>6, <1>7, <1>8, <1>9, <1>10, ThreadSteps

(* So m_active tells whether a worker runs: the one that m_worker holds.   *)
LEMMA UndisturbedIsActive ==
    ASSUME TypeOK, WorkerIsOwned, Undisturbed
    PROVE  ActiveIsRunning
BY DEF ActiveIsRunning, WorkerIsOwned, Undisturbed, TypeOK, Start, Running

-------------------------------------------------------------------------------
(***************************************************************************)
(* The bindings and the listener.                                          *)
(***************************************************************************)
(* Bindings are scheduled for a server only.                               *)
LEMMA ClientStep ==
    ASSUME TypeOK, ClientNeverBinds, [Next]_vars
    PROVE  ClientNeverBinds'
<1> USE DEF ClientNeverBinds
<1>1. CASE ScheduleBind
  BY <1>1 DEF ScheduleBind
<1>2. ASSUME NEW e \in OtherEvent, Schedule(e), UNCHANGED <<operation, worker, batch>>
      PROVE  ClientNeverBinds'
  BY <1>2, ScheduleOK DEF OtherEvent
<1>3. ASSUME NEW i \in Start, TakeEvents(i) PROVE ClientNeverBinds'
  BY <1>3, TakeEventsOK DEF TakeEvents
<1>4. ASSUME NEW i \in Start, Bind(i) PROVE ClientNeverBinds'
  BY <1>4, ProcessNextOK DEF Bind
<1>5. ASSUME NEW i \in Start, NEW e \in OtherEvent, ProcessNext(i, e),
             UNCHANGED <<operation, worker, events>>
      PROVE  ClientNeverBinds'
  BY <1>5, ProcessNextOK
<1>6. CASE UNCHANGED <<operation, batch, events>>
  BY <1>6
<1> QED
  BY <1>1, <1>2, <1>3, <1>4, <1>5, <1>6, QueueSteps

(* A binding is scheduled while no worker runs, and none is left that could *)
(* hold another.                                                            *)
LEMMA BindsStep ==
    ASSUME TypeOK, WorkerIsOwned, BindsOnce, [Next]_vars
    PROVE  BindsOnce'
<1>1. CASE ScheduleBind
  <2>1. \A i \in Start : ~Running(i)
    BY <1>1 DEF ScheduleBind, WorkerIsOwned, Start
  <2>2. \A i \in Start : batch[i] = <<>>
    BY <2>1 DEF BindsOnce, Running
  <2>3. BindEvent \in Event /\ Schedule(BindEvent) /\ ~HoldsBind(events)
    BY <1>1 DEF ScheduleBind, Event, BindEvent, HoldsBind
  <2>4. BindsAtMostOnce(events')
    BY <2>3, ScheduleOK DEF BindsOnce
  <2>5. ~HoldsBind(<<>>)
    BY DEF HoldsBind
  <2> QED
    BY <1>1, <2>2, <2>4, <2>5 DEF ScheduleBind, BindsOnce, threads
<1>2. ASSUME NEW e \in OtherEvent, Schedule(e), UNCHANGED <<operation, worker, batch>>
      PROVE  BindsOnce'
  BY <1>2, ScheduleOK DEF BindsOnce, OtherEvent
<1>3. ASSUME NEW i \in Start, TakeEvents(i) PROVE BindsOnce'
  BY <1>3, TakeEventsOK DEF BindsOnce, TakeEvents, Moves, TypeOK
<1>4. ASSUME NEW i \in Start, Bind(i) PROVE BindsOnce'
  BY <1>4, ProcessNextOK DEF BindsOnce, Bind
<1>5. ASSUME NEW i \in Start, NEW e \in OtherEvent, ProcessNext(i, e),
             UNCHANGED <<operation, worker, events>>
      PROVE  BindsOnce'
  BY <1>5, ProcessNextOK DEF BindsOnce
<1>6. ASSUME UNCHANGED <<operation, batch, events>>,
             \A i \in Start : worker[i] = "events" /\ batch[i] # <<>> =>
                                  worker'[i] = "events"
      PROVE  BindsOnce'
  BY <1>6 DEF BindsOnce
<1> QED
  BY <1>1, <1>2, <1>3, <1>4, <1>5, <1>6, QueueSteps

(* While a server is active, its queues gain no binding.                   *)
LEMMA ActiveGainsNoBinding ==
    ASSUME TypeOK, Ownership, active, ~HoldsBind(events), ~HoldsBind(batch[joinable]),
           [Next]_vars
    PROVE  ~HoldsBind(events') /\ ~HoldsBind(batch'[joinable])
<1>1. joinable \in Start
  BY DEF Ownership, TypeOK, Start
<1>2. ~ScheduleBind
  BY DEF ScheduleBind, Ownership
<1>3. ASSUME NEW e \in OtherEvent, Schedule(e), UNCHANGED <<operation, worker, batch>>
      PROVE  ~HoldsBind(events') /\ ~HoldsBind(batch'[joinable])
  BY <1>3, ScheduleOK DEF OtherEvent
<1>4. ASSUME NEW i \in Start, TakeEvents(i)
      PROVE  ~HoldsBind(events') /\ ~HoldsBind(batch'[joinable])
  BY <1>1, <1>4, TakeEventsOK
<1>5. ASSUME NEW i \in Start, NEW e, ProcessNext(i, e), UNCHANGED events
      PROVE  ~HoldsBind(events') /\ ~HoldsBind(batch'[joinable])
  BY <1>1, <1>5, ProcessNextOK
<1>6. ASSUME NEW i \in Start, Bind(i)
      PROVE  ~HoldsBind(events') /\ ~HoldsBind(batch'[joinable])
  BY <1>5, <1>6 DEF Bind
<1> QED
  BY <1>2, <1>3, <1>4, <1>5, <1>6, QueueSteps

(* The steps that leave the listener of an active server alone.            *)
ListenerStays ==
    /\ UNCHANGED <<listener, open, joinable>>
    /\ \A i \in Start : worker[i] = "spin" => worker'[i] = "spin"

(* The other steps of an active server are those of its listener; a        *)
(* failure of the listener ends what is claimed.                           *)
LEMMA ListenerSteps ==
    ASSUME TypeOK, Ownership, WorkerIsOwned, Undisturbed, ~errored, active, [Next]_vars,
           ~errored', active'
    PROVE  \/ ListenerStays
           \/ \E i \in Start : Bind(i)
           \/ \E j \in Start : ListenProcessor(j) \/ AcceptAborted(j)
           \/ \E j \in Start : \E s \in Session : Accept(j, s)
<1>1. /\ owner \notin {"replacing", "closing", "resetting", "polling"}
      /\ Running(joinable)
      /\ owner = "joining" => worker[joinable] # "done"
  BY DEF Undisturbed, Running
<1>2. ASSUME ScheduleBind \/ ScheduleConnect \/ (\E s \in Session : Translate(s))
             \/ ScheduleSend \/ Shutdown \/ UNCHANGED vars
      PROVE  ListenerStays
  BY <1>2 DEF ScheduleBind, ScheduleConnect, Translate, ScheduleSend, Shutdown,
     ListenerStays, vars, threads, network
<1>3. /\ ~Startup /\ ~ReplaceWorker /\ ~JoinWorker /\ ~CloseAcceptor /\ ~EndPoll
      /\ ~ClearConnections
      /\ \A s \in Session : ~StopSession(s)
  BY <1>1 DEF Startup, ReplaceWorker, JoinWorker, CloseAcceptor, EndPoll,
     ClearConnections, StopSession
<1>4. ASSUME NEW i \in Start,
             \/ TakeEvents(i) \/ Connect(i) \/ ProcessDispatchEvent(i)
             \/ StartPoll(i) \/ FinishPoll(i) \/ StopWorker(i)
      PROVE  ListenerStays
  BY <1>4 DEF TakeEvents, Connect, ProcessDispatchEvent, StartPoll, FinishPoll,
     StopWorker, Moves, ListenerStays, TypeOK, network
<1>5. /\ \A i \in Start : ~ExitWorker(i)
      /\ \A i, j \in Start : ~StopSpinning(i, j)
      /\ \A j \in Start : ~AcceptFails(j)
  BY DEF ExitWorker, StopSpinning, AcceptFails
<1>6. ASSUME NEW s \in Session,
             \/ ResolveCancelled(s) \/ ReceiveAborted(s) \/ ReceivedLate(s)
             \/ Resolve(s) \/ Connected(s) \/ ConnectFails(s)
             \/ SessionEnds(s) \/ OnMessageReceived(s)
      PROVE  ListenerStays
  BY <1>6 DEF ResolveCancelled, ReceiveAborted, ReceivedLate, Resolve, Connected,
     ConnectFails, SessionEnds, OnMessageReceived, ListenerStays, threads
<1> QED
  BY <1>2, <1>3, <1>4, <1>5, <1>6
     DEF Next, OwnerStep, WorkerStep, ReadyHandler, NetworkHandler

(* The listener of an active server gives up only after its binding failed. *)
LEMMA ListenerStep ==
    ASSUME TypeOK, TypeOK', Ownership, WorkerIsOwned, Undisturbed, BindsOnce, ListenerInv,
           [Next]_vars
    PROVE  ListenerInv'
<1>1. CASE Startup
  <2>1. ~errored' => \/ joinable' = starts' /\ listener'[starts'] = "spawned"
                     \/ operation # "Server"
    BY <1>1 DEF Startup, Undisturbed, Ownership, TypeOK, Start, history
  <2> QED
    BY <1>1, <2>1 DEF Startup, ListenerInv, network
<1>2. ASSUME ~Startup, ~errored', active', operation' = "Server"
      PROVE  ListenerInv'
  <2>1. ~errored /\ active /\ operation = "Server"
    <3>1. operation' = operation
      BY QueueSteps DEF ScheduleBind, TakeEvents, Bind
    <3>2. (active' => active) /\ (errored => errored')
      <4>1. ASSUME NEW i \in Start, StopWorker(i) \/ ExitWorker(i) \/ WorkerMoves(i)
            PROVE  (active' => active) /\ (errored => errored')
        BY <4>1 DEF StopWorker, ExitWorker, WorkerMoves, history
      <4>2. ASSUME NEW j \in Start, AcceptFails(j)
            PROVE  (active' => active) /\ (errored => errored')
        BY <4>2 DEF AcceptFails
      <4>3. ASSUME Shutdown \/ ReplaceWorker \/ JoinWorker \/ ShutdownMoves \/ ThreadsStay
            PROVE  (active' => active) /\ (errored => errored')
        BY <4>3 DEF Shutdown, ReplaceWorker, JoinWorker, ShutdownMoves, ThreadsStay, history
      <4> QED
        BY <1>2, <4>1, <4>2, <4>3, ThreadSteps
    <3> QED
      BY <1>2, <3>1, <3>2
  <2>2. joinable \in Start /\ \A i \in Start : Running(i) => i = joinable
    BY <2>1 DEF Undisturbed, Ownership, WorkerIsOwned, TypeOK, Start
  <2>3. ASSUME ~HoldsBind(events), ~HoldsBind(batch[joinable])
        PROVE  ~HoldsBind(events') /\ ~HoldsBind(batch'[joinable])
    BY <2>1, <2>3, ActiveGainsNoBinding
  <2>4. CASE ListenerStays
    BY <2>1, <2>2, <2>3, <2>4 DEF ListenerStays, ListenerInv
  <2>5. ASSUME NEW i \in Start, Bind(i) PROVE ListenerInv'
    <3>1. /\ worker[i] = "events" /\ i = joinable
          /\ UNCHANGED <<joinable, worker, events>>
      BY <2>2, <2>5, ProcessNextOK DEF Bind, Running
    <3>2. HoldsBind(batch[i]) /\ ~HoldsBind(events) /\ ~HoldsBind(batch'[i])
      BY <2>5, ProcessNextOK DEF Bind, BindsOnce
    <3>3. listener[i] \in {"spawned", "accepting"}
      BY <2>1, <3>1, <3>2 DEF ListenerInv, TypeOK
    <3>4. CASE open' /\ UNCHANGED listener
      BY <3>1, <3>3, <3>4 DEF ListenerInv
    <3>5. CASE ~open' /\ listener' = Aborted
      <4>1. listener'[i] \in {"spawned", "aborted"}
        BY <3>3, <3>5 DEF Aborted
      <4> QED
        BY <3>1, <3>2, <3>5, <4>1 DEF ListenerInv
    <3> QED
      BY <2>5, <3>4, <3>5 DEF Bind
  <2>6. ASSUME NEW j \in Start,
               ListenProcessor(j) \/ \E s \in Session : Accept(j, s)
        PROVE  ListenerInv'
    <3>1. /\ Listen(j)
          /\ listener[j] \in {"spawned", "accepting"}
          /\ UNCHANGED <<open, joinable>>
      BY <2>6 DEF ListenProcessor, Accept, network
    <3>2. CASE j = joinable
      <4>1. /\ open => listener'[j] = "accepting"
            /\ ~open => listener'[j] = "spinning" /\ worker'[j] = "spin"
        BY <2>1, <2>2, <3>1, <3>2 DEF Listen, Moves, Running, TypeOK
      <4> QED
        BY <2>3, <3>1, <3>2, <4>1 DEF ListenerInv
    <3>3. CASE j # joinable
      <4>1. listener'[joinable] = listener[joinable]
        BY <2>2, <3>1, <3>3 DEF Listen, TypeOK
      <4>2. worker[joinable] = "spin" => worker'[joinable] = "spin"
        BY <2>2, <3>1 DEF Listen, Moves, TypeOK
      <4> QED
        BY <2>1, <2>3, <3>1, <4>1, <4>2 DEF ListenerInv
    <3> QED
      BY <3>2, <3>3
  <2>7. ASSUME NEW j \in Start, AcceptAborted(j) PROVE ListenerInv'
    <3>1. /\ listener[j] = "aborted" /\ listener' = [listener EXCEPT ![j] = "done"]
          /\ UNCHANGED <<open, joinable, worker>>
      BY <2>7 DEF AcceptAborted, network, threads
    <3> QED
      BY <2>1, <2>2, <2>3, <3>1 DEF ListenerInv, TypeOK
  <2> QED
    BY <1>2, <2>1, <2>4, <2>5, <2>6, <2>7, ListenerSteps
<1> QED
  BY <1>1, <1>2 DEF ListenerInv

(* An acceptor is open for a server only, and its listener accepts.        *)
LEMMA ListenerInvServes ==
    ASSUME TypeOK, Ownership, ListenerInv
    PROVE  ListenerServes
BY DEF ListenerServes, ListenerInv, Ownership, TypeOK, Start

-------------------------------------------------------------------------------
(***************************************************************************)
(* The connections.                                                        *)
(***************************************************************************)
(* With no worker and no call of the owner nobody polls the context, and   *)
(* nothing changes but what the owner schedules or starts next.            *)
LEMMA IdleSteps ==
    ASSUME TypeOK, owner = "idle", \A i \in Start : ~Running(i), [Next]_vars
    PROVE  \/ Startup \/ Shutdown
           \/ UNCHANGED <<active, owner, joinable, worker, stopped, open, session, tracked,
                          errored, leftover>>
<1>1. ~Polling /\ \A i \in Start : worker[i] \in {"none", "done"}
  BY DEF Polling, Running, TypeOK
<1>2. CASE ScheduleBind \/ ScheduleConnect \/ (\E s \in Session : Translate(s))
           \/ ScheduleSend \/ UNCHANGED vars
  BY <1>2 DEF ScheduleBind, ScheduleConnect, Translate, ScheduleSend, vars, threads,
     network, history
<1>3. ~OwnerStep
  BY DEF OwnerStep, ReplaceWorker, JoinWorker, CloseAcceptor, StopSession, EndPoll,
     ClearConnections
<1>4. \A i \in Start : ~WorkerStep(i)
  BY <1>1 DEF WorkerStep, TakeEvents, Bind, Connect, ProcessDispatchEvent, StartPoll,
     FinishPoll, StopWorker, ExitWorker, StopSpinning, ProcessNext, Moves
<1>5. ~ReadyHandler /\ ~NetworkHandler
  BY <1>1 DEF ReadyHandler, NetworkHandler, ListenProcessor, AcceptAborted,
     ResolveCancelled, ReceiveAborted, ReceivedLate, AcceptFails, Accept, Resolve,
     Connected, ConnectFails, SessionEnds, OnMessageReceived
<1> QED
  BY <1>2, <1>3, <1>4, <1>5 DEF Next

(* Only the last step of a Shutdown stops the context.                     *)
LEMMA ShutSteps ==
    ASSUME TypeOK, Ownership, WorkerIsOwned, Undisturbed, [Next]_vars, ~errored', IsShut'
    PROVE  ClearConnections \/ (~errored /\ IsShut)
<1> DEFINE Kept == UNCHANGED <<active, owner, stopped, errored>>
<1>1. ~Startup /\ ~Shutdown /\ ~ReplaceWorker /\ ~CloseAcceptor
      /\ ~EndPoll /\ ~JoinWorker
  BY DEF Startup, Shutdown, ReplaceWorker, CloseAcceptor, EndPoll, JoinWorker, IsShut,
     Undisturbed, history
<1>2. ASSUME ScheduleBind \/ ScheduleConnect \/ (\E s \in Session : Translate(s))
             \/ ScheduleSend \/ UNCHANGED vars
      PROVE  Kept
  BY <1>2 DEF ScheduleBind, ScheduleConnect, Translate, ScheduleSend, vars, threads,
     history
<1>3. \A s \in Session : ~StopSession(s)
  BY DEF StopSession, IsShut
<1>4. ASSUME NEW i \in Start,
             \/ TakeEvents(i) \/ Bind(i) \/ Connect(i) \/ ProcessDispatchEvent(i)
             \/ FinishPoll(i) \/ StopWorker(i) \/ \E j \in Start : StopSpinning(i, j)
      PROVE  Kept
  BY <1>4 DEF TakeEvents, Bind, Connect, ProcessDispatchEvent, FinishPoll, StopWorker,
     StopSpinning, history
<1>5. \A i \in Start : ~StartPoll(i)
  BY DEF StartPoll, IsShut
<1>6. ASSUME NEW i \in Start, ExitWorker(i) PROVE FALSE
  <2>1. ~errored /\ owner = "idle" /\ worker[i] = "exit"
    BY <1>6 DEF ExitWorker, Moves, IsShut, history
  <2>2. i = joinable /\ i \in stopping
    BY <2>1 DEF WorkerIsOwned, Running, Ownership
  <2> QED
    BY <2>1, <2>2 DEF Ownership, Start
<1>7. ASSUME NEW j \in Start,
             ListenProcessor(j) \/ AcceptAborted(j) \/ \E s \in Session : Accept(j, s)
      PROVE  Kept
  BY <1>7 DEF ListenProcessor, AcceptAborted, Accept, threads, history
<1>8. \A j \in Start : ~AcceptFails(j)
  BY DEF AcceptFails
<1>9. ASSUME NEW s \in Session,
             \/ ResolveCancelled(s) \/ ReceiveAborted(s) \/ ReceivedLate(s)
             \/ Resolve(s) \/ Connected(s) \/ ConnectFails(s)
             \/ SessionEnds(s) \/ OnMessageReceived(s)
      PROVE  Kept
  BY <1>9 DEF ResolveCancelled, ReceiveAborted, ReceivedLate, Resolve, Connected,
     ConnectFails, SessionEnds, OnMessageReceived, threads, history
<1>10. CASE Kept
  BY <1>10 DEF IsShut
<1> QED
  BY <1>1, <1>2, <1>3, <1>4, <1>5, <1>6, <1>7, <1>8, <1>9, <1>10
     DEF Next, OwnerStep, WorkerStep, ReadyHandler, NetworkHandler

(* What a Shutdown has cleaned stays clean until the next Startup.         *)
LEMMA ShutdownStep ==
    ASSUME TypeOK, Ownership, WorkerIsOwned, Undisturbed, ShutdownLeavesNothing,
           [Next]_vars
    PROVE  ShutdownLeavesNothing'
<1> SUFFICES ASSUME ~errored', IsShut' PROVE ShutdownLeavesNothing'
  BY DEF ShutdownLeavesNothing
<1>1. CASE ClearConnections
  <2>1. joinable = 0 /\ ~open
    BY <1>1 DEF ClearConnections, Undisturbed
  <2>2. \A i \in Start : ~Running(i)
    BY <1>1, <2>1 DEF ClearConnections, WorkerIsOwned, Start
  <2> QED
    BY <1>1, <2>1, <2>2 DEF ClearConnections, ShutdownLeavesNothing, Operating, Running
<1>2. CASE ~errored /\ IsShut
  <2>1. /\ ~Operating
        /\ \A i \in Start : ~Running(i)
        /\ \A s \in Session \ leftover : session[s] # "active"
    BY <1>2 DEF ShutdownLeavesNothing
  <2>2. ~Startup /\ ~Shutdown
    BY <2>1 DEF Startup, Shutdown, IsShut
  <2>3. UNCHANGED <<joinable, worker, stopped, open, session, tracked, leftover>>
    BY <1>2, <2>1, <2>2, IdleSteps DEF IsShut
  <2> QED
    BY <2>1, <2>3 DEF ShutdownLeavesNothing, Operating, Running
<1> QED
  BY <1>1, <1>2, ShutSteps

(* While a worker runs and the listener has not failed, a session that ends *)
(* is no longer tracked; ResetConnections clears what is left.             *)
LEMMA TrackedStep ==
    ASSUME TypeOK, TypeOK', Ownership, WorkerIsOwned, Undisturbed, TrackedIffActive,
           [Next]_vars
    PROVE  TrackedIffActive'
<1> SUFFICES ASSUME ~errored', owner' \notin {"resetting", "polling"}
             PROVE  TrackedIffActive'
  BY DEF TrackedIffActive
<1>1. CASE ClearConnections
  BY <1>1 DEF ClearConnections, TrackedIffActive
<1>2. ~CloseAcceptor /\ ~EndPoll /\ \A s \in Session : ~StopSession(s)
  BY DEF CloseAcceptor, EndPoll, StopSession
<1>3. \A j \in Start : ~AcceptFails(j)
  BY DEF AcceptFails
<1> DEFINE Same == UNCHANGED <<session, tracked, leftover>> /\ (errored => errored')
                   /\ (owner \in {"resetting", "polling"} => owner' = owner)
<1>4. ASSUME \/ ScheduleBind \/ ScheduleConnect \/ (\E s \in Session : Translate(s))
             \/ ScheduleSend \/ Startup \/ Shutdown \/ ReplaceWorker \/ JoinWorker
             \/ UNCHANGED vars
      PROVE  Same
  BY <1>4 DEF ScheduleBind, ScheduleConnect, Translate, ScheduleSend, Startup, Shutdown,
     ReplaceWorker, JoinWorker, vars, threads, network, history
<1>5. ASSUME NEW i \in Start,
             \/ TakeEvents(i) \/ Bind(i) \/ ProcessDispatchEvent(i) \/ StartPoll(i)
             \/ FinishPoll(i) \/ StopWorker(i) \/ ExitWorker(i)
             \/ \E j \in Start : StopSpinning(i, j)
      PROVE  Same
  BY <1>5 DEF TakeEvents, Bind, ProcessDispatchEvent, StartPoll, FinishPoll, StopWorker,
     ExitWorker, StopSpinning, network, history
<1>6. ASSUME NEW j \in Start, ListenProcessor(j) \/ AcceptAborted(j)
      PROVE  Same
  BY <1>6 DEF ListenProcessor, AcceptAborted, threads, network, history
<1>7. ASSUME NEW s \in Session, ReceivedLate(s) \/ OnMessageReceived(s)
      PROVE  Same
  BY <1>7 DEF ReceivedLate, OnMessageReceived, threads, history
<1>8. CASE Same
  BY <1>8 DEF TrackedIffActive, TypeOK
<1>9. ASSUME \E i \in Start : Connect(i)
      PROVE  TrackedIffActive'
  BY <1>9 DEF Connect, Available, Stopped, TrackedIffActive, TypeOK, history
<1>10. ASSUME NEW s \in Session, Resolve(s) \/ ResolveCancelled(s) \/ ConnectFails(s)
       PROVE  TrackedIffActive'
  BY <1>10 DEF Resolve, ResolveCancelled, ConnectFails, TrackedIffActive, TypeOK,
     threads, history
<1>11. ASSUME NEW s \in Session, Connected(s) \/ \E j \in Start : Accept(j, s)
       PROVE  TrackedIffActive'
  BY <1>11 DEF Connected, Accept, OnSessionStarted, TrackedIffActive, TypeOK, threads
<1>12. ASSUME NEW s \in Session, SessionEnds(s) \/ ReceiveAborted(s)
       PROVE  TrackedIffActive'
  <2>1. Polling /\ OnSessionStopped(s)
        /\ UNCHANGED <<owner, active, worker, errored, leftover>>
    BY <1>12 DEF SessionEnds, ReceiveAborted, threads, history
  <2>2. active /\ tracked' = tracked \ {s}
    BY <2>1 DEF Polling, OnSessionStopped, Undisturbed, WorkerIsOwned, Running, Start
  <2>3. CASE SessionEnds(s)
    BY <2>1, <2>2, <2>3 DEF SessionEnds, TrackedIffActive, TypeOK
  <2>4. CASE ReceiveAborted(s)
    BY <2>1, <2>2, <2>4 DEF ReceiveAborted, Stopped, TrackedIffActive, TypeOK
  <2> QED
    BY <1>12, <2>3, <2>4
<1> QED
  BY <1>1, <1>2, <1>3, <1>4, <1>5, <1>6, <1>7, <1>8, <1>9, <1>10, <1>11, <1>12
     DEF Next, OwnerStep, WorkerStep, ReadyHandler, NetworkHandler

-------------------------------------------------------------------------------
(***************************************************************************)
(* The theorems.                                                           *)
(***************************************************************************)
LEMMA InitInv ==
    ASSUME Init
    PROVE  TypeInv /\ IInv /\ ShutdownLeavesNothing /\ TrackedIffActive
<1>1. TypeOK
  <2>1. <<>> \in Seq(Event) /\ 0 \in 0..MaxStarts /\ 0 <= 0
    BY LimitsAssumption
  <2>2. \A i \in Start : i > 0
    BY DEF Start
  <2> QED
    BY <2>1, <2>2 DEF Init, TypeOK
<1>2. \A q : q = <<>> => ~HoldsBind(q) /\ BindsAtMostOnce(q)
  BY DEF HoldsBind, BindsAtMostOnce
<1>3. ClientNeverBinds /\ BindsOnce
  BY <1>2 DEF Init, ClientNeverBinds, BindsOnce
<1>4. Ownership /\ WorkerIsOwned /\ Undisturbed /\ ListenerInv
  BY DEF Init, Ownership, WorkerIsOwned, Undisturbed, ListenerInv, Running
<1>5. ShutdownLeavesNothing /\ TrackedIffActive
  BY DEF Init, ShutdownLeavesNothing, IsShut, TrackedIffActive
<1> QED
  BY <1>1, <1>3, <1>4, <1>5 DEF TypeInv, IInv

(* Together the parts of the invariant keep each other.                    *)
LEMMA InvStep ==
    ASSUME IInv, [Next]_vars
    PROVE  IInv'
<1>1. TypeInv /\ TypeOK /\ ClientNeverBinds /\ Ownership
  BY DEF IInv, TypeInv
<1>2. TypeOK'
  BY <1>1, TypeStep
<1>3. ClientNeverBinds' /\ Ownership' /\ WorkerIsOwned'
  BY <1>1, <1>2, ClientStep, OwnershipStep, OwnedStep DEF IInv
<1>4. Undisturbed' /\ BindsOnce' /\ ListenerInv'
  BY <1>1, <1>2, UndisturbedStep, BindsStep, ListenerStep DEF IInv
<1> QED
  BY <1>2, <1>3, <1>4 DEF IInv, TypeInv

(* The inductive invariant holds, whatever the network and the owner do.   *)
THEOREM InvariantHolds == Spec => []IInv
<1>1. Init => IInv
  BY InitInv
<1>2. IInv /\ [Next]_vars => IInv'
  BY InvStep
<1> QED
  BY <1>1, <1>2, PTL DEF Spec

(* Every variable keeps the type of the member it models; in particular no *)
(* client gets an acceptor or a listener, and m_worker is a started thread. *)
THEOREM TypeCorrect == Spec => []TypeOK
<1>1. IInv => TypeOK
  BY DEF IInv, TypeInv
<1> QED
  BY <1>1, InvariantHolds, PTL

(* No more than one worker runs that is not about to be joined: the one    *)
(* that m_worker holds, or the one whose start has yet to be assigned.     *)
THEOREM WorkerOwned == Spec => []WorkerIsOwned
<1>1. IInv => WorkerIsOwned
  BY DEF IInv
<1> QED
  BY <1>1, InvariantHolds, PTL

(* Until an error of the listener, m_active tells whether a worker runs.   *)
THEOREM ActiveIsTrue == Spec => []ActiveIsRunning
<1>1. IInv => ActiveIsRunning
  BY UndisturbedIsActive DEF IInv, TypeInv
<1> QED
  BY <1>1, InvariantHolds, PTL

(* While an active server has an open acceptor, a coroutine accepts on it. *)
THEOREM ListenerAccepts == Spec => []ListenerServes
<1>1. IInv => ListenerServes
  BY ListenerInvServes DEF IInv, TypeInv
<1> QED
  BY <1>1, InvariantHolds, PTL

(* After Shutdown returns and until the next Startup there is no thread, no *)
(* acceptor, no connection in the tracker and no live session that a        *)
(* Shutdown could have seen.                                               *)
THEOREM ShutdownIsClean == Spec => []ShutdownLeavesNothing
<1>1. Init => ShutdownLeavesNothing
  BY InitInv
<1>2. IInv /\ ShutdownLeavesNothing /\ [Next]_vars => ShutdownLeavesNothing'
  BY ShutdownStep DEF IInv, TypeInv
<1> QED
  BY <1>1, <1>2, InvariantHolds, PTL DEF Spec

(* Outside ResetConnections the tracker holds the sessions that are active, *)
(* except those that a Shutdown let slip.                                  *)
THEOREM TrackerIsExact == Spec => []TrackedIffActive
<1>1. Init => TrackedIffActive
  BY InitInv
<1>2. IInv /\ IInv' /\ TrackedIffActive /\ [Next]_vars => TrackedIffActive'
  BY TrackedStep DEF IInv, TypeInv
<1> QED
  BY <1>1, <1>2, InvariantHolds, PTL DEF Spec

===============================================================================
