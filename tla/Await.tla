-------------------------------- MODULE Await --------------------------------
(***************************************************************************)
(* The aggregation of responses: a flooded request (Query, Information) is *)
(* given a ResponseTracker by SendNotice, the TrackingManager hands it the *)
(* responses that name its key, and the core thread, once per cycle,       *)
(* answers and erases every tracker that is fulfilled or out of time.      *)
(*                                                                         *)
(* One thread runs handlers and cycles; connections come and go, and time  *)
(* passes, between any two of its steps.                                   *)
(***************************************************************************)
EXTENDS Naturals, FiniteSets

CONSTANTS
    Peer,       \* the other nodes
    Self,       \* this node
    Request,    \* the flood requests that reach the node, each of them once
    Requestor,  \* Requestor[r]: the peer that sent r
    Addressed,  \* requests with a destination identifier, not a cluster or network one
    Key,        \* values of a TrackerKey
    KeyOf       \* KeyOf[r]: the truncated digest of r's pack

ASSUME PeerAssumption == IsFiniteSet(Peer) /\ Self \notin Peer
ASSUME RequestorAssumption == Requestor \in [Request -> Peer]
ASSUME AddressedAssumption == Addressed \subseteq Request
ASSUME KeyAssumption == KeyOf \in [Request -> Key]

VARIABLES
    awaiting,   \* TrackingManager::m_awaiting, a function on the keys in use
    connected,  \* peers that are active and reachable over their endpoint
    phase,      \* what the core thread does: "handle" a message or "process"
    pass,       \* keys the current ProcessFulfilledRequests has yet to visit
    handled,    \* requests that were handled
    accepted,   \* history: the nodes whose response to a request was accepted
    answers     \* history: <<request, nodes in the aggregate>> that were sent

vars == <<awaiting, connected, phase, pass, handled, accepted, answers>>

Node == Peer \cup {Self}

Tracker == [request : Request,
            expected : Nat,             \* m_expected
            received : Nat,             \* m_received
            entries : SUBSET Node,      \* identifiers in m_responses
            filled : SUBSET Node,       \* of those, the ones with a pack
            status : {"Unfulfilled", "Fulfilled"},
            due : BOOLEAN]              \* m_expire has passed

-------------------------------------------------------------------------------
Init ==
    /\ awaiting = [k \in {} |-> {}]
    /\ connected = {}
    /\ phase = "handle"
    /\ pass = {}
    /\ handled = {}
    /\ accepted = [r \in Request |-> {}]
    /\ answers = {}

(***************************************************************************)
(* ResponseTracker.                                                        *)
(***************************************************************************)
(* Mutant: the requestor is asked for a response to its own request.       *)
NewTrackerAsksAll(r, identifiers) ==
    [request |-> r, expected |-> Cardinality(identifiers), received |-> 0,
     entries |-> identifiers, filled |-> {}, status |-> "Unfulfilled", due |-> FALSE]

(* Every identifier is counted, but the requestor gets no entry.           *)
NewTracker(r, identifiers) ==
    [request |-> r, expected |-> Cardinality(identifiers), received |-> 0,
     entries |-> identifiers \ {Requestor[r]}, filled |-> {},
     status |-> "Unfulfilled", due |-> FALSE]

(* UpdateResponse: an identifier without an entry, or with a pack already, *)
(* is Unexpected or, past the expiration, Expired; any other is accepted,  *)
(* even past the expiration.                                               *)
Expects(t, p) == p \in t.entries \ t.filled

UpdateResponse(t, p) ==
    [t EXCEPT !.filled = @ \cup {p},
              !.received = @ + 1,
              !.status = IF t.received + 1 >= t.expected THEN "Fulfilled" ELSE @]

(* CheckResponseStatus.                                                    *)
ReadyEarly(t) == t.received + 1 >= t.expected \/ t.due  \* mutant: off by one
ReadyNeverDue(t) == t.received = t.expected             \* mutant: no expiration
Ready(t) == t.received = t.expected \/ t.due \/ t.status = "Fulfilled"

(***************************************************************************)
(* TrackingManager.                                                        *)
(***************************************************************************)
(* emplace: a key that is in use keeps its tracker.                        *)
PushRequest(r, identifiers) ==
    [k \in DOMAIN awaiting \cup {KeyOf[r]} |->
        IF k \in DOMAIN awaiting THEN awaiting[k] ELSE NewTracker(r, identifiers)]

Accepts(trackers, k, p) == k \in DOMAIN trackers /\ Expects(trackers[k], p)

PushResponse(trackers, k, p) ==
    /\ phase = "handle"
    /\ \/ /\ Accepts(trackers, k, p)
          /\ awaiting' = [trackers EXCEPT ![k] = UpdateResponse(@, p)]
          /\ accepted' = [accepted EXCEPT ![trackers[k].request] = @ \cup {p}]
       \/ /\ ~Accepts(trackers, k, p)
          /\ awaiting' = trackers
          /\ UNCHANGED accepted
    /\ phase' = "process"
    /\ pass' = DOMAIN awaiting'

ErasedNone(k) == awaiting               \* mutant: the tracker stays
Erased(k) == [j \in DOMAIN awaiting \ {k} |-> awaiting[j]]

(***************************************************************************)
(* The core thread: one message, then one pass over the trackers.          *)
(***************************************************************************)
(* ForEachCachedIdentifier: the peers that are active, behind this node.   *)
CachedIdentifiers == connected \cup {Self}

(* The request is tracked, this node's own response is pushed, and a       *)
(* notice is built that is not sent yet.                                   *)
SendNotice(r) == PushResponse(PushRequest(r, CachedIdentifiers), KeyOf[r], Self)

FloodHandler(r) ==
    /\ r \notin handled
    /\ handled' = handled \cup {r}
    /\ SendNotice(r)
    /\ UNCHANGED <<connected, answers>>

(* AggregateHandler: the response of a peer, which names a key.            *)
AggregateHandler(p, k) ==
    /\ PushResponse(awaiting, k, p)
    /\ UNCHANGED <<connected, handled, answers>>

(* No message, or one that no tracker is concerned with.                   *)
OtherMessage ==
    /\ phase = "handle"
    /\ phase' = "process"
    /\ pass' = DOMAIN awaiting
    /\ UNCHANGED <<awaiting, connected, handled, accepted, answers>>

(* One iteration of ProcessFulfilledRequests: a tracker that is ready is   *)
(* erased whether or not SendFulfilledResponse could send the aggregate.   *)
Visit(k) ==
    LET t == awaiting[k]
        sends == t.request \in Addressed /\ Requestor[t.request] \in connected
    IN  /\ phase = "process"
        /\ k \in pass
        /\ pass' = pass \ {k}
        /\ \/ /\ ~Ready(t)
              /\ UNCHANGED <<awaiting, answers>>
           \/ /\ Ready(t)
              /\ awaiting' = Erased(k)
              /\ answers' = IF sends THEN answers \cup {<<t.request, t.filled>>} ELSE answers
        /\ UNCHANGED <<connected, phase, handled, accepted>>

EndPass ==
    /\ phase = "process"
    /\ pass = {}
    /\ phase' = "handle"
    /\ UNCHANGED <<awaiting, connected, pass, handled, accepted, answers>>

(***************************************************************************)
(* The rest of the node, and time.                                         *)
(***************************************************************************)
Connected(p) ==
    /\ p \notin connected
    /\ connected' = connected \cup {p}
    /\ UNCHANGED <<awaiting, phase, pass, handled, accepted, answers>>

Disconnected(p) ==
    /\ p \in connected
    /\ connected' = connected \ {p}
    /\ UNCHANGED <<awaiting, phase, pass, handled, accepted, answers>>

Expire(k) ==
    /\ k \in DOMAIN awaiting
    /\ ~awaiting[k].due
    /\ awaiting' = [awaiting EXCEPT ![k].due = TRUE]
    /\ UNCHANGED <<connected, phase, pass, handled, accepted, answers>>

Cycle ==
    \/ \E r \in Request : FloodHandler(r)
    \/ \E p \in Peer, k \in Key : AggregateHandler(p, k)
    \/ OtherMessage
    \/ \E k \in Key : Visit(k)
    \/ EndPass

Next ==
    \/ Cycle
    \/ \E p \in Peer : Connected(p) \/ Disconnected(p)
    \/ \E k \in Key : Expire(k)

Spec == Init /\ [][Next]_vars

(* BryptNode::StartLifecycle loops for ever, and time passes.              *)
Fairness == WF_vars(Cycle) /\ \A k \in Key : WF_vars(Expire(k))

FairSpec == Spec /\ Fairness

-------------------------------------------------------------------------------
TypeOK ==
    /\ DOMAIN awaiting \subseteq Key
    /\ awaiting \in [DOMAIN awaiting -> Tracker]
    /\ connected \subseteq Peer
    /\ phase \in {"handle", "process"}
    /\ pass \subseteq DOMAIN awaiting
    /\ handled \subseteq Request
    /\ accepted \in [Request -> SUBSET Node]
    /\ answers \subseteq Request \X SUBSET Node

(* m_received counts the packs of distinct nodes that were asked, and can  *)
(* step over neither m_expected nor CheckResponseStatus's test for         *)
(* equality (ResponseTracker.cpp:100, 117): no duplicate, late or          *)
(* misdirected response is counted.                                        *)
ReceivedCountsPacks ==
    \A k \in DOMAIN awaiting :
        LET t == awaiting[k] IN
            /\ t.filled \subseteq t.entries
            /\ t.received = Cardinality(t.filled)
            /\ t.received <= t.expected

(* The aggregate that is sent holds every response that was accepted for   *)
(* the request, and nothing of its requestor (PushResponse returned true   *)
(* for exactly those).                                                     *)
AnswerHoldsAccepted ==
    \A a \in answers : a[2] = accepted[a[1]] /\ Requestor[a[1]] \notin a[2]

(* A request is answered at most once, and never after its tracker was     *)
(* given to another request or to nobody.                                  *)
OneAnswer ==
    \A a \in answers :
        /\ \A b \in answers : a[1] = b[1] => a = b
        /\ \A k \in DOMAIN awaiting : awaiting[k].request # a[1]

(* A tracker is given up only when every expected response is there or its *)
(* time is over.                                                           *)
NoEarlyAnswer ==
    [][\A k \in DOMAIN awaiting :
          k \notin DOMAIN awaiting' =>
              awaiting[k].due \/ awaiting[k].received = awaiting[k].expected]_vars

(* Every request that is tracked and was sent to this node is answered, in *)
(* the end by the expiration, unless its requestor is not connected by     *)
(* then (TrackingManager.cpp:125-145 tries once).                          *)
EveryRequestAnswered ==
    \A r \in Addressed :
        (\E k \in DOMAIN awaiting : awaiting[k].request = r) ~>
            \/ \E a \in answers : a[1] = r
            \/ Requestor[r] \notin connected

(* ResponseTracker.cpp:111-112: "It is ready if it has m_received all      *)
(* responses requested, or it has timed-out."                              *)
ReadyWhenAllResponded ==
    \A k \in DOMAIN awaiting :
        awaiting[k].entries # {} /\ awaiting[k].entries = awaiting[k].filled
            => Ready(awaiting[k])

===============================================================================
