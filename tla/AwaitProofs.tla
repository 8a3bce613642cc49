----------------------------- MODULE AwaitProofs -----------------------------
(***************************************************************************)
(* What Await promises for every set of peers, requests and keys, with     *)
(* colliding keys too.                                                     *)
(***************************************************************************)
EXTENDS Await, FiniteSetTheorems, TLAPS

(***************************************************************************)
(* The inductive invariant.  A tracker's counters agree with its entries   *)
(* and leave room for those that have not answered; a tracker belongs to   *)
(* its key and to a request that was handled, and holds exactly what was   *)
(* accepted for it.                                                        *)
(***************************************************************************)
TrackerOK(t) ==
    /\ t.filled \subseteq t.entries
    /\ t.received = Cardinality(t.filled)
    /\ Cardinality(t.entries) <= t.expected
    /\ Requestor[t.request] \notin t.entries
    /\ t.status = "Fulfilled" => t.received = t.expected

TrackersOK == \A k \in DOMAIN awaiting : TrackerOK(awaiting[k])

Accounted ==
    /\ \A k \in DOMAIN awaiting :
        /\ awaiting[k].request \in handled
        /\ KeyOf[awaiting[k].request] = k
        /\ awaiting[k].filled = accepted[awaiting[k].request]
    /\ \A a \in answers : a[1] \in handled
    /\ \A r \in Request \ handled : accepted[r] = {}

IInv == TypeOK /\ TrackersOK /\ Accounted /\ AnswerHoldsAccepted /\ OneAnswer

-------------------------------------------------------------------------------
(***************************************************************************)
(* Lemmas about the tracker.                                               *)
(***************************************************************************)
(* Nodes are finitely many, so every set of them can be counted.           *)
LEMMA FiniteNodes == ASSUME NEW S \in SUBSET Node PROVE IsFiniteSet(S)
<1>1. IsFiniteSet(Node)
  BY PeerAssumption, FS_AddElement DEF Node
<1> QED
  BY <1>1, FS_Subset

(* SendNotice's constructor: the requestor is counted in m_expected and has *)
(* no entry, so there are never more entries than are expected.            *)
LEMMA NewTrackerOK ==
    ASSUME NEW r \in Request, NEW identifiers \in SUBSET Node
    PROVE  /\ NewTracker(r, identifiers) \in Tracker
           /\ TrackerOK(NewTracker(r, identifiers))
<1> DEFINE t == NewTracker(r, identifiers)
<1>1. IsFiniteSet(identifiers)
  BY FiniteNodes
<1>2. Cardinality(identifiers) \in Nat
  BY <1>1, FS_CardinalityType
<1>3. /\ IsFiniteSet(identifiers \ {Requestor[r]})
      /\ Cardinality(identifiers \ {Requestor[r]}) <= Cardinality(identifiers)
  BY <1>1, FS_Subset
<1>4. t \in Tracker
  BY <1>2 DEF NewTracker, Tracker
<1>5. TrackerOK(t)
  BY <1>3, FS_EmptySet DEF NewTracker, TrackerOK
<1> QED
  BY <1>4, <1>5

(* UpdateResponse counts one response of one more node, and the count stays *)
(* within m_expected because the entries are.                              *)
LEMMA UpdateResponseOK ==
    ASSUME NEW t \in Tracker, TrackerOK(t), NEW p, Expects(t, p)
    PROVE  /\ UpdateResponse(t, p) \in Tracker
           /\ TrackerOK(UpdateResponse(t, p))
           /\ UpdateResponse(t, p).request = t.request
           /\ UpdateResponse(t, p).filled = t.filled \cup {p}
<1> DEFINE u == UpdateResponse(t, p)
<1>1. /\ t.entries \in SUBSET Node /\ t.filled \in SUBSET Node
      /\ t.received \in Nat /\ t.expected \in Nat
      /\ p \in t.entries /\ p \notin t.filled
  BY DEF Tracker, Expects
<1>2. /\ IsFiniteSet(t.filled)
      /\ IsFiniteSet(t.entries)
      /\ Cardinality(t.entries) \in Nat
  BY <1>1, FiniteNodes, FS_CardinalityType
<1>3. Cardinality(t.filled \cup {p}) = t.received + 1
  BY <1>1, <1>2, FS_AddElement DEF TrackerOK
<1>4. Cardinality(t.filled \cup {p}) <= Cardinality(t.entries)
  <2>1. t.filled \cup {p} \subseteq t.entries
    BY <1>1 DEF TrackerOK
  <2> QED
    BY <2>1, <1>2, FS_Subset
<1>5. /\ u.request = t.request /\ u.expected = t.expected /\ u.entries = t.entries
      /\ u.due = t.due
      /\ u.filled = t.filled \cup {p} /\ u.received = t.received + 1
      /\ u.status = IF t.received + 1 >= t.expected THEN "Fulfilled" ELSE t.status
  BY DEF UpdateResponse, Tracker
<1>6. u \in Tracker
  <2>1. t.filled \cup {p} \in SUBSET Node /\ t.received + 1 \in Nat
    BY <1>1
  <2>2. u.status \in {"Unfulfilled", "Fulfilled"}
    BY <1>5 DEF Tracker
  <2>3. u = [t EXCEPT !.filled = u.filled, !.received = u.received, !.status = u.status]
    BY <1>5 DEF UpdateResponse, Tracker
  <2> HIDE DEF u
  <2> QED
    BY <1>5, <2>1, <2>2, <2>3 DEF Tracker
<1>7. TrackerOK(u)
  <2>1. t.received + 1 <= t.expected
    BY <1>1, <1>2, <1>3, <1>4 DEF TrackerOK
  <2>2. u.status = "Fulfilled" => u.received = u.expected
    BY <2>1, <1>1, <1>5 DEF TrackerOK
  <2> QED
    BY <2>2, <1>1, <1>3, <1>5 DEF TrackerOK
<1> QED
  BY <1>5, <1>6, <1>7

(* A tracker that is ready and not out of time has all that it expected.   *)
LEMMA ReadyMeansReceived ==
    ASSUME NEW t \in Tracker, TrackerOK(t), Ready(t)
    PROVE  t.due \/ t.received = t.expected
BY DEF Ready, TrackerOK, Tracker

-------------------------------------------------------------------------------
(***************************************************************************)
(* The steps.                                                              *)
(***************************************************************************)
(* PushResponse keeps the invariant of any table of trackers it is given.  *)
LEMMA PushResponseOK ==
    ASSUME NEW trackers, NEW k, NEW p \in Node, NEW h \in SUBSET Request,
           trackers \in [DOMAIN trackers -> Tracker],
           DOMAIN trackers \subseteq Key,
           \A j \in DOMAIN trackers :
               /\ TrackerOK(trackers[j])
               /\ trackers[j].request \in h
               /\ KeyOf[trackers[j].request] = j
               /\ trackers[j].filled = accepted[trackers[j].request]
               /\ \A a \in answers : a[1] # trackers[j].request,
           TypeOK, AnswerHoldsAccepted, OneAnswer,
           \A a \in answers : a[1] \in h,
           \A r \in Request \ h : accepted[r] = {},
           PushResponse(trackers, k, p),
           handled' = h, UNCHANGED <<connected, answers>>
    PROVE  IInv'
<1>1. CASE ~Accepts(trackers, k, p)
  <2>1. awaiting' = trackers /\ accepted' = accepted /\ phase' = "process"
        /\ pass' = DOMAIN awaiting'
    BY <1>1 DEF PushResponse
  <2>2. TypeOK'
    BY <2>1 DEF TypeOK
  <2>3. TrackersOK' /\ Accounted'
    BY <2>1 DEF TrackersOK, Accounted
  <2>4. AnswerHoldsAccepted' /\ OneAnswer'
    BY <2>1 DEF AnswerHoldsAccepted, OneAnswer
  <2> QED
    BY <2>2, <2>3, <2>4 DEF IInv
<1>2. CASE Accepts(trackers, k, p)
  <2> DEFINE t == trackers[k]
             u == UpdateResponse(t, p)
  <2>1. /\ awaiting' = [trackers EXCEPT ![k] = u]
        /\ accepted' = [accepted EXCEPT ![t.request] = @ \cup {p}]
        /\ phase' = "process"
        /\ pass' = DOMAIN awaiting'
        /\ k \in DOMAIN trackers
        /\ Expects(t, p)
    BY <1>2 DEF PushResponse, Accepts
  <2>2. t \in Tracker /\ TrackerOK(t) /\ t.request \in h
    BY <2>1
  <2>3. /\ u \in Tracker
        /\ TrackerOK(u)
        /\ u.request = t.request
        /\ u.filled = t.filled \cup {p}
    BY <2>1, <2>2, UpdateResponseOK
  <2>4. /\ DOMAIN awaiting' = DOMAIN trackers
        /\ awaiting'[k] = u
        /\ \A j \in DOMAIN trackers : j # k => awaiting'[j] = trackers[j]
    BY <2>1
  <2>5. accepted \in [Request -> SUBSET Node]
    BY DEF TypeOK
  <2>6. /\ accepted' \in [Request -> SUBSET Node]
        /\ accepted'[t.request] = accepted[t.request] \cup {p}
        /\ \A r \in Request : r # t.request => accepted'[r] = accepted[r]
    BY <2>1, <2>2, <2>5
  <2>7. TypeOK'
    <3>1. awaiting' \in [DOMAIN awaiting' -> Tracker]
      BY <2>1, <2>3
    <3> QED
      BY <3>1, <2>1, <2>4, <2>6 DEF TypeOK
  <2>8. TrackersOK'
    BY <2>3, <2>4 DEF TrackersOK
  <2>9. Accounted'
    <3>1. ASSUME NEW j \in DOMAIN awaiting'
          PROVE  /\ awaiting'[j].request \in handled'
                 /\ KeyOf[awaiting'[j].request] = j
                 /\ awaiting'[j].filled = accepted'[awaiting'[j].request]
      <4>1. CASE j = k
        BY <4>1, <2>2, <2>3, <2>4, <2>6
      <4>2. CASE j # k
        <5>1. trackers[j].request # t.request
          BY <4>2, <2>1, <2>4
        <5> QED
          BY <5>1, <4>2, <2>4, <2>6
      <4> QED
        BY <4>1, <4>2
    <3>2. \A r \in Request \ handled' : accepted'[r] = {}
      BY <2>2, <2>6
    <3> QED
      BY <3>1, <3>2 DEF Accounted
  <2>10. AnswerHoldsAccepted'
    <3>1. \A a \in answers : a[1] \in Request /\ a[1] # t.request
      BY <2>1 DEF TypeOK
    <3> QED
      BY <3>1, <2>6 DEF AnswerHoldsAccepted
  <2>11. OneAnswer'
    BY <2>3, <2>4 DEF OneAnswer
  <2> QED
    BY <2>7, <2>8, <2>9, <2>10, <2>11 DEF IInv
<1> QED
  BY <1>1, <1>2

LEMMA InitOK == ASSUME Init PROVE IInv
<1>1. DOMAIN awaiting = {}
  BY DEF Init
<1>2. TypeOK
  BY <1>1 DEF Init, TypeOK
<1> QED
  BY <1>1, <1>2 DEF Init, IInv, TrackersOK, Accounted, AnswerHoldsAccepted, OneAnswer

(* SendNotice hands PushResponse the table with the new tracker in it.     *)
LEMMA FloodHandlerOK ==
    ASSUME IInv, NEW r \in Request, FloodHandler(r)
    PROVE  IInv'
<1> DEFINE k == KeyOf[r]
           peers == connected \cup {Self}
           new == NewTracker(r, peers)
           trackers == PushRequest(r, peers)
           h == handled \cup {r}
<1>1. /\ TypeOK /\ TrackersOK /\ Accounted /\ AnswerHoldsAccepted /\ OneAnswer
      /\ r \notin handled
      /\ PushResponse(trackers, k, Self)
      /\ handled' = h
      /\ UNCHANGED <<connected, answers>>
  BY DEF IInv, FloodHandler, SendNotice, CachedIdentifiers
<1>2. k \in Key
  BY KeyAssumption
<1>3. peers \in SUBSET Node /\ Self \in Node
  BY <1>1 DEF TypeOK, Node
<1>4. new \in Tracker /\ TrackerOK(new)
  BY <1>3, NewTrackerOK
<1>5. new.request = r /\ new.filled = {}
  BY DEF NewTracker
<1>6. /\ DOMAIN trackers = DOMAIN awaiting \cup {k}
      /\ \A j \in DOMAIN awaiting : trackers[j] = awaiting[j]
      /\ \A j \in DOMAIN trackers : j \notin DOMAIN awaiting => j = k /\ trackers[j] = new
  BY DEF PushRequest
<1>7. trackers \in [DOMAIN trackers -> Tracker]
  <2>1. \A j \in DOMAIN trackers : trackers[j] \in Tracker
    BY <1>1, <1>4, <1>6 DEF TypeOK
  <2>2. trackers = [j \in DOMAIN trackers |-> trackers[j]]
    BY DEF PushRequest
  <2> QED
    BY <2>1, <2>2
<1>8. DOMAIN trackers \subseteq Key
  BY <1>1, <1>2, <1>6 DEF TypeOK
<1>9. ASSUME NEW j \in DOMAIN trackers
      PROVE  /\ TrackerOK(trackers[j])
             /\ trackers[j].request \in h
             /\ KeyOf[trackers[j].request] = j
             /\ trackers[j].filled = accepted[trackers[j].request]
             /\ \A a \in answers : a[1] # trackers[j].request
  <2>1. CASE j \in DOMAIN awaiting
    <3>1. trackers[j] = awaiting[j]
      BY <2>1, <1>6
    <3>2. /\ TrackerOK(awaiting[j])
          /\ awaiting[j].request \in h
          /\ KeyOf[awaiting[j].request] = j
          /\ awaiting[j].filled = accepted[awaiting[j].request]
          /\ \A a \in answers : a[1] # awaiting[j].request
      BY <2>1, <1>1 DEF TrackersOK, Accounted, OneAnswer
    <3> HIDE DEF trackers, h
    <3> QED
      BY <3>1, <3>2
  <2>2. CASE j \notin DOMAIN awaiting
    <3>1. j = k /\ trackers[j] = new
      BY <2>2, <1>6
    <3>2. accepted[r] = {} /\ \A a \in answers : a[1] # r
      BY <1>1 DEF Accounted
    <3> QED
      BY <3>1, <3>2, <1>4, <1>5
  <2> QED
    BY <2>1, <2>2
<1>10. /\ \A a \in answers : a[1] \in h
       /\ \A q \in Request \ h : accepted[q] = {}
  BY <1>1 DEF Accounted
<1>11. h \in SUBSET Request
  BY <1>1 DEF TypeOK
<1> HIDE DEF trackers, h, k
<1> QED
  BY <1>1, <1>3, <1>7, <1>8, <1>9, <1>10, <1>11, PushResponseOK

LEMMA AggregateHandlerOK ==
    ASSUME IInv, NEW p \in Peer, NEW k \in Key, AggregateHandler(p, k)
    PROVE  IInv'
<1>1. /\ TypeOK /\ TrackersOK /\ Accounted /\ AnswerHoldsAccepted /\ OneAnswer
      /\ PushResponse(awaiting, k, p)
      /\ handled' = handled /\ UNCHANGED <<connected, answers>>
  BY DEF IInv, AggregateHandler
<1>2. /\ awaiting \in [DOMAIN awaiting -> Tracker] /\ DOMAIN awaiting \subseteq Key
      /\ handled \in SUBSET Request
      /\ p \in Node
  BY <1>1 DEF TypeOK, Node
<1>3. \A j \in DOMAIN awaiting :
          /\ TrackerOK(awaiting[j])
          /\ awaiting[j].request \in handled
          /\ KeyOf[awaiting[j].request] = j
          /\ awaiting[j].filled = accepted[awaiting[j].request]
          /\ \A a \in answers : a[1] # awaiting[j].request
  BY <1>1 DEF TrackersOK, Accounted, OneAnswer
<1>4. /\ \A a \in answers : a[1] \in handled
      /\ \A r \in Request \ handled : accepted[r] = {}
  BY <1>1 DEF Accounted
<1> QED
  BY <1>1, <1>2, <1>3, <1>4, PushResponseOK

(* Erasing a tracker leaves the others alone; what is sent for it is what  *)
(* was accepted for it, for a request that no other tracker has.           *)
LEMMA VisitOK ==
    ASSUME IInv, NEW k \in Key, Visit(k)
    PROVE  IInv'
<1>1. /\ TypeOK /\ TrackersOK /\ Accounted /\ AnswerHoldsAccepted /\ OneAnswer
      /\ k \in pass /\ pass' = pass \ {k}
      /\ UNCHANGED <<connected, phase, handled, accepted>>
  BY DEF IInv, Visit
<1>2. CASE UNCHANGED <<awaiting, answers>>
  BY <1>1, <1>2 DEF IInv, TypeOK, TrackersOK, Accounted, AnswerHoldsAccepted, OneAnswer
<1>3. ASSUME Ready(awaiting[k]), awaiting' = Erased(k),
             \/ answers' = answers
             \/ answers' = answers \cup {<<awaiting[k].request, awaiting[k].filled>>}
      PROVE  IInv'
  <2> DEFINE t == awaiting[k]
  <2>1. /\ k \in DOMAIN awaiting
        /\ t \in Tracker /\ TrackerOK(t)
        /\ t.request \in handled /\ t.request \in Request
        /\ t.filled = accepted[t.request]
        /\ t.filled \in SUBSET Node
    BY <1>1 DEF TypeOK, TrackersOK, Accounted, Tracker
  <2>2. /\ DOMAIN awaiting' = DOMAIN awaiting \ {k}
        /\ \A j \in DOMAIN awaiting' : awaiting'[j] = awaiting[j]
    BY <1>3 DEF Erased
  <2>3. TypeOK'
    <3>1. awaiting' \in [DOMAIN awaiting' -> Tracker]
      BY <1>1, <1>3 DEF Erased, TypeOK
    <3>2. answers' \subseteq Request \X SUBSET Node
      BY <1>1, <1>3, <2>1 DEF TypeOK
    <3> QED
      BY <3>1, <3>2, <2>2, <1>1 DEF TypeOK
  <2>4. TrackersOK'
    BY <1>1, <2>2 DEF TrackersOK
  <2>5. Accounted'
    BY <1>1, <1>3, <2>1, <2>2 DEF Accounted
  <2>6. AnswerHoldsAccepted'
    <3>1. Requestor[t.request] \notin t.filled
      BY <2>1 DEF TrackerOK
    <3> QED
      BY <3>1, <1>1, <1>3, <2>1 DEF AnswerHoldsAccepted
  <2>7. OneAnswer'
    <3>1. \A a \in answers : a[1] # t.request
      BY <1>1, <2>1 DEF OneAnswer
    <3>2. \A j \in DOMAIN awaiting' : awaiting'[j].request # t.request
      BY <1>1, <2>1, <2>2 DEF Accounted
    <3> QED
      BY <3>1, <3>2, <1>1, <1>3, <2>2 DEF OneAnswer
  <2> QED
    BY <2>3, <2>4, <2>5, <2>6, <2>7 DEF IInv
<1> QED
  BY <1>2, <1>3 DEF Visit

LEMMA ExpireOK ==
    ASSUME IInv, NEW k \in Key, Expire(k)
    PROVE  IInv'
<1> DEFINE t == awaiting[k]
           u == [t EXCEPT !.due = TRUE]
<1>1. /\ TypeOK /\ TrackersOK /\ Accounted /\ AnswerHoldsAccepted /\ OneAnswer
      /\ k \in DOMAIN awaiting
      /\ awaiting' = [awaiting EXCEPT ![k] = u]
      /\ UNCHANGED <<connected, phase, pass, handled, accepted, answers>>
  BY DEF IInv, Expire
<1>2. t \in Tracker /\ TrackerOK(t)
  BY <1>1 DEF TypeOK, TrackersOK
<1>3. /\ u.request = t.request /\ u.expected = t.expected /\ u.received = t.received
      /\ u.entries = t.entries /\ u.filled = t.filled /\ u.status = t.status
      /\ u \in Tracker
  BY <1>2 DEF Tracker
<1>4. TrackerOK(u)
  BY <1>2, <1>3 DEF TrackerOK
<1>5. /\ DOMAIN awaiting' = DOMAIN awaiting
      /\ awaiting'[k] = u
      /\ \A j \in DOMAIN awaiting : j # k => awaiting'[j] = awaiting[j]
  BY <1>1
<1>6. \A j \in DOMAIN awaiting' :
          /\ awaiting'[j].request = awaiting[j].request
          /\ awaiting'[j].filled = awaiting[j].filled
  BY <1>3, <1>5
<1>7. TypeOK'
  <2>1. awaiting' \in [DOMAIN awaiting' -> Tracker]
    BY <1>1, <1>3, <1>5 DEF TypeOK
  <2> QED
    BY <2>1, <1>1, <1>5 DEF TypeOK
<1>8. TrackersOK'
  BY <1>1, <1>4, <1>5 DEF TrackersOK
<1>9. Accounted' /\ AnswerHoldsAccepted' /\ OneAnswer'
  BY <1>1, <1>5, <1>6 DEF Accounted, AnswerHoldsAccepted, OneAnswer
<1> QED
  BY <1>7, <1>8, <1>9 DEF IInv

LEMMA StepOK == ASSUME IInv, [Next]_vars PROVE IInv'
<1>1. ASSUME NEW r \in Request, FloodHandler(r) PROVE IInv'
  BY <1>1, FloodHandlerOK
<1>2. ASSUME NEW p \in Peer, NEW k \in Key, AggregateHandler(p, k) PROVE IInv'
  BY <1>2, AggregateHandlerOK
<1>3. CASE OtherMessage
  BY <1>3 DEF OtherMessage, IInv, TypeOK, TrackersOK, Accounted, AnswerHoldsAccepted,
              OneAnswer
<1>4. ASSUME NEW k \in Key, Visit(k) PROVE IInv'
  BY <1>4, VisitOK
<1>5. CASE EndPass
  BY <1>5 DEF EndPass, IInv, TypeOK, TrackersOK, Accounted, AnswerHoldsAccepted, OneAnswer
<1>6. ASSUME NEW p \in Peer, Connected(p) \/ Disconnected(p) PROVE IInv'
  BY <1>6 DEF Connected, Disconnected, IInv, TypeOK, TrackersOK, Accounted,
              AnswerHoldsAccepted, OneAnswer
<1>7. ASSUME NEW k \in Key, Expire(k) PROVE IInv'
  BY <1>7, ExpireOK
<1>8. CASE UNCHANGED vars
  BY <1>8 DEF vars, IInv, TypeOK, TrackersOK, Accounted, AnswerHoldsAccepted, OneAnswer
<1> QED
  BY <1>1, <1>2, <1>3, <1>4, <1>5, <1>6, <1>7, <1>8 DEF Next, Cycle

-------------------------------------------------------------------------------
(* The state of the trackers stays well formed and accounted for, whatever *)
(* order messages, cycles, disconnections and expirations come in.         *)
THEOREM Accounting == Spec => []IInv
<1>1. Init => IInv
  BY InitOK
<1>2. IInv /\ [Next]_vars => IInv'
  BY StepOK
<1> QED
  BY <1>1, <1>2, PTL DEF Spec

(* Every variable keeps its type.                                          *)
THEOREM TypeCorrect == Spec => []TypeOK
<1>1. IInv => TypeOK
  BY DEF IInv
<1> QED
  BY <1>1, Accounting, PTL

(* m_received counts distinct, asked nodes and never steps over m_expected, *)
(* so CheckResponseStatus's test for equality cannot miss.                 *)
THEOREM ReceivedCounted == Spec => []ReceivedCountsPacks
<1>1. IInv => ReceivedCountsPacks
  <2> SUFFICES ASSUME IInv, NEW k \in DOMAIN awaiting
               PROVE  /\ awaiting[k].filled \subseteq awaiting[k].entries
                      /\ awaiting[k].received = Cardinality(awaiting[k].filled)
                      /\ awaiting[k].received <= awaiting[k].expected
    BY DEF ReceivedCountsPacks
  <2>1. awaiting[k] \in Tracker /\ TrackerOK(awaiting[k])
    BY DEF IInv, TypeOK, TrackersOK
  <2>2. /\ awaiting[k].filled \subseteq awaiting[k].entries
        /\ awaiting[k].entries \in SUBSET Node
        /\ awaiting[k].expected \in Nat
    BY <2>1 DEF TrackerOK, Tracker
  <2>3. IsFiniteSet(awaiting[k].entries)
    BY <2>2, FiniteNodes
  <2>4. /\ Cardinality(awaiting[k].filled) <= Cardinality(awaiting[k].entries)
        /\ Cardinality(awaiting[k].filled) \in Nat
        /\ Cardinality(awaiting[k].entries) \in Nat
    BY <2>2, <2>3, FS_Subset, FS_CardinalityType
  <2> QED
    BY <2>1, <2>2, <2>4 DEF TrackerOK
<1> QED
  BY <1>1, Accounting, PTL

(* What a requestor is sent is exactly what was accepted on its behalf.    *)
THEOREM AnswersFaithful == Spec => []AnswerHoldsAccepted
<1>1. IInv => AnswerHoldsAccepted
  BY DEF IInv
<1> QED
  BY <1>1, Accounting, PTL

(* No request is answered twice, even when keys collide.                   *)
THEOREM AnsweredOnce == Spec => []OneAnswer
<1>1. IInv => OneAnswer
  BY DEF IInv
<1> QED
  BY <1>1, Accounting, PTL

(* No step gives a tracker up before its responses or its time are in.     *)
THEOREM NeverEarly == Spec => NoEarlyAnswer
<1>1. IInv /\ [Next]_vars =>
        [\A k \in DOMAIN awaiting :
            k \notin DOMAIN awaiting' =>
                awaiting[k].due \/ awaiting[k].received = awaiting[k].expected]_vars
  <2> SUFFICES ASSUME IInv, Next, NEW k \in DOMAIN awaiting, k \notin DOMAIN awaiting'
               PROVE  awaiting[k].due \/ awaiting[k].received = awaiting[k].expected
    OBVIOUS
  <2>1. awaiting[k] \in Tracker /\ TrackerOK(awaiting[k])
    BY DEF IInv, TypeOK, TrackersOK
  <2>2. Ready(awaiting[k])
    <3>1. ASSUME NEW r \in Request, FloodHandler(r) PROVE FALSE
      BY <3>1 DEF FloodHandler, SendNotice, PushResponse, PushRequest
    <3>2. ASSUME NEW p \in Peer, NEW j \in Key, AggregateHandler(p, j) PROVE FALSE
      BY <3>2 DEF AggregateHandler, PushResponse
    <3>3. CASE OtherMessage
      BY <3>3 DEF OtherMessage
    <3>4. ASSUME NEW j \in Key, Visit(j) PROVE Ready(awaiting[k])
      BY <3>4 DEF Visit, Erased
    <3>5. CASE EndPass
      BY <3>5 DEF EndPass
    <3>6. ASSUME NEW p \in Peer, Connected(p) \/ Disconnected(p) PROVE FALSE
      BY <3>6 DEF Connected, Disconnected
    <3>7. ASSUME NEW j \in Key, Expire(j) PROVE FALSE
      BY <3>7 DEF Expire
    <3> QED
      BY <3>1, <3>2, <3>3, <3>4, <3>5, <3>6, <3>7 DEF Next, Cycle
  <2> QED
    BY <2>1, <2>2, ReadyMeansReceived
<1> QED
  BY <1>1, Accounting, PTL DEF Spec, NoEarlyAnswer

===============================================================================
