-------------------------- MODULE PeerExchangeProofs --------------------------
(***************************************************************************)
(* What PeerExchange promises for every number of nodes, connections,      *)
(* exchanges, restarts and losses; only DiscoveryOrdered supposes that no  *)
(* process dies.                                                           *)
(***************************************************************************)
EXTENDS PeerExchange, SequenceTheorems, TLAPS

(***************************************************************************)
(* The inductive invariant, by owner: the connections, the peers, and the  *)
(* rest.  A tracked session belongs to one of the two nodes of its         *)
(* connection, so that the end it is used for exists.                      *)
(***************************************************************************)
OpenOK ==
    \A s \in Session, n \in Node : <<s, n>> \in open =>
        opener[s] \in End /\ n \in {opener[s][1], opener[s][2]}

NetOK ==
    /\ opener \in [Session -> End \cup {NoEnd}]
    /\ open \subseteq Session \X Node
    /\ reading \subseteq open
    /\ promoted \subseteq open
    /\ linking \subseteq promoted
    /\ chan \in [Session \X Node -> Seq(Message)]
    /\ OpenOK

PeersOK ==
    /\ tracked \subseteq End
    /\ state \in [End -> {"Unauthorized", "Authorized"}]
    /\ processor \in [End -> {"none", "Synchronization", "Invalid"}]
    /\ strategy \in [End -> Strategy]
    /\ receiver \in [End -> {"none", "processor", "sink"}]
    /\ SinkMatchesMediator

RestOK ==
    /\ exchanges \in Exchange
    /\ restarts \in 0 .. MaxRestarts
    /\ dials \subseteq Dial
    /\ resolving \in [End -> Exchange]
    /\ registered \subseteq End \X Kind
    /\ inbox \in [Node -> Seq(Queued)]
    /\ granted \subseteq End \X Exchange

IInv == NetOK /\ PeersOK /\ RestOK

-------------------------------------------------------------------------------
(***************************************************************************)
(* Lemmas about the data.                                                  *)
(***************************************************************************)
LEMMA ExchangeType == /\ Exchange \subseteq Nat
                      /\ 0 \in Exchange
                      /\ \A x \in Exchange : x < MaxExchanges => x + 1 \in Exchange
BY BoundsAssumption DEF Exchange

(* NoEnd is not an end: the two kinds of opener are told apart.            *)
LEMMA NoEndIsNone == NoEnd \notin End
BY DEF NoEnd, End

LEMMA RevType == ASSUME NEW e \in End PROVE Rev(e) \in End /\ e[1] \in Node /\ e[2] \in Node
BY DEF End, Rev

(* The two nodes of the connection of a tracked session are an end.        *)
LEMMA EndOfType ==
    ASSUME NetOK, NEW s \in Session, NEW n \in Node, <<s, n>> \in open
    PROVE  /\ EndOf(s, n) \in End
           /\ EndOf(s, n)[1] = n
           /\ PeerOf(s, n) \in Node
           /\ KindOf(s, n) \in Kind
<1>1. opener[s] \in End /\ n \in {opener[s][1], opener[s][2]}
  BY DEF NetOK, OpenOK
<1>2. PICK a \in Node, b \in Node : opener[s] = <<a, b>> /\ a # b
  BY <1>1 DEF End
<1>3. CASE n = a
  BY <1>2, <1>3 DEF EndOf, PeerOf, KindOf, Kind, End
<1>4. CASE n = b
  BY <1>2, <1>4 DEF EndOf, PeerOf, KindOf, Kind, End
<1> QED
  BY <1>1, <1>2, <1>3, <1>4

LEMMA ReadableType ==
    ASSUME NetOK, NEW s \in Session, NEW n \in Node, Readable(s, n)
    PROVE  /\ <<s, n>> \in open
           /\ chan[<<s, n>>] \in Seq(Message)
           /\ Head(chan[<<s, n>>]) \in Message
           /\ Tail(chan[<<s, n>>]) \in Seq(Message)
<1>1. <<s, n>> \in open /\ chan[<<s, n>>] \in Seq(Message) /\ chan[<<s, n>>] # <<>>
  BY DEF NetOK, Readable
<1> QED
  BY <1>1, HeadTailProperties

LEMMA MsgType ==
    ASSUME NEW type \in {"Request", "Response", "Verification", "HeartbeatRequest",
                         "HeartbeatResponse", "DiscoveryRequest", "DiscoveryResponse"},
           NEW key \in Exchange
    PROVE  Msg(type, key) \in Message
BY DEF Msg, Message

-------------------------------------------------------------------------------
(***************************************************************************)
(* The connections.                                                        *)
(***************************************************************************)
LEMMA CarryType ==
    ASSUME NEW channels \in [Session \X Node -> Seq(Message)], NEW t, NEW to,
           NEW msgs \in Seq(Message)
    PROVE  Carry(channels, t, to, msgs) \in [Session \X Node -> Seq(Message)]
<1>1. \A q \in Seq(Message) : q \o msgs \in Seq(Message)
  BY ConcatProperties
<1> QED
  BY <1>1 DEF Carry

LEMMA TakenType ==
    ASSUME NetOK, NEW s \in Session, NEW n \in Node, Readable(s, n)
    PROVE  Taken(s, n) \in [Session \X Node -> Seq(Message)]
BY ReadableType DEF Taken, NetOK

LEMMA ConsumedOK ==
    ASSUME NetOK, NEW s \in Session, NEW n \in Node, Readable(s, n), Consumed(s, n)
    PROVE  NetOK'
BY TakenType DEF Consumed, NetOK, OpenOK

LEMMA RepliedOK ==
    ASSUME NetOK, NEW s \in Session, NEW n \in Node, Readable(s, n),
           NEW msgs \in Seq(Message), Replied(s, n, msgs)
    PROVE  NetOK'
<1>1. PICK t : chan' = Carry(Taken(s, n), t, PeerOf(s, n), msgs)
  BY DEF Replied
<1>2. Taken(s, n) \in [Session \X Node -> Seq(Message)]
  BY TakenType
<1>3. chan' \in [Session \X Node -> Seq(Message)]
  BY <1>1, <1>2, CarryType
<1> QED
  BY <1>3 DEF Replied, NetOK, OpenOK

LEMMA RefusedOK ==
    ASSUME NetOK, NEW s \in Session, NEW n \in Node, Refused(s, n),
           <<s, n>> \in reading
    PROVE  NetOK'
<1>1. <<>> \in Seq(Message)
  BY EmptySeq
<1> QED
  BY <1>1 DEF Refused, NetOK, OpenOK

(* A connection is only forgotten when no session of it is left.           *)
LEMMA CloseOK ==
    ASSUME NetOK, NEW sides \in SUBSET (Session \X Node), Close(sides)
    PROVE  NetOK'
<1>1. <<>> \in Seq(Message)
  BY EmptySeq
<1>2. chan' \in [Session \X Node -> Seq(Message)]
  BY <1>1 DEF Close, NetOK
<1>3. opener' \in [Session -> End \cup {NoEnd}]
  BY DEF Close, NetOK
<1>4. \A s \in Session, n \in Node : <<s, n>> \in open' =>
          <<s, n>> \in open /\ opener'[s] = opener[s]
  BY DEF Close
<1> QED
  BY <1>2, <1>3, <1>4 DEF Close, NetOK, OpenOK

-------------------------------------------------------------------------------
(***************************************************************************)
(* The peers: what the mediator does to one end.                           *)
(***************************************************************************)
LEMMA StrategyUpdate ==
    ASSUME strategy \in [End -> Strategy], NEW e \in End,
           NEW stage \in {"Initialization", "Verification", "Complete"},
           NEW key \in Exchange
    PROVE  [strategy EXCEPT ![e].stage = stage, ![e].key = key] \in [End -> Strategy]
<1>1. strategy[e] \in Strategy
  OBVIOUS
<1>2. [strategy[e] EXCEPT !.stage = stage, !.key = key] \in Strategy
  BY <1>1 DEF Strategy
<1>3. [strategy EXCEPT ![e].stage = stage, ![e].key = key]
        = [strategy EXCEPT ![e] = [strategy[e] EXCEPT !.stage = stage, !.key = key]]
  BY <1>1 DEF Strategy
<1> QED
  BY <1>2, <1>3

LEMMA NewStrategyType ==
    /\ NoStrategy \in Strategy
    /\ Accepting \in Strategy
    /\ \A x \in Exchange : Initiating(x) \in Strategy
BY ExchangeType DEF NoStrategy, Accepting, Initiating, Strategy

(* The exchange's sink hands over to the authorized one in one step.       *)
LEMMA AuthorizeOK ==
    ASSUME PeersOK, NEW e \in End, NEW key \in Exchange,
           receiver[e] = "processor", Authorize(e, key)
    PROVE  PeersOK'
<1>1. strategy' \in [End -> Strategy]
  BY StrategyUpdate DEF Authorize, PeersOK
<1>2. SinkMatchesMediator'
  BY DEF Authorize, PeersOK, SinkMatchesMediator
<1> QED
  BY <1>1, <1>2 DEF Authorize, PeersOK

LEMMA DeriveOK ==
    ASSUME PeersOK, NEW e \in End, NEW key \in Exchange, Derive(e, key)
    PROVE  PeersOK'
<1>1. strategy' \in [End -> Strategy]
  BY StrategyUpdate DEF Derive, PeersOK
<1> QED
  BY <1>1 DEF Derive, PeersOK, SinkMatchesMediator

LEMMA RevokeOK ==
    ASSUME PeersOK, NEW e \in End, Revoke(e)
    PROVE  PeersOK'
<1>1. strategy' \in [End -> Strategy]
  BY NewStrategyType DEF Revoke, PeersOK
<1>2. SinkMatchesMediator'
  BY DEF Revoke, PeersOK, SinkMatchesMediator
<1> QED
  BY <1>1, <1>2 DEF Revoke, PeersOK

-------------------------------------------------------------------------------
(***************************************************************************)
(* The steps: dialing.                                                     *)
(***************************************************************************)
LEMMA DialType ==
    ASSUME dials \subseteq Dial, NEW d \in dials, NEW x \in Exchange,
           NEW step \in {"scheduled", "resolving", "connecting"}
    PROVE  /\ [d EXCEPT !.step = step, !.exchange = x] \in Dial
           /\ d.end \in End
           /\ d.exchange \in Exchange
BY DEF Dial

LEMMA NewDialType ==
    ASSUME NEW e \in End, NEW via \in {"address", "identifier"}
    PROVE  NewDial(e, via) \in Dial
BY ExchangeType DEF NewDial, Dial

LEMMA AdvanceType ==
    ASSUME dials \subseteq Dial, NEW d \in dials, NEW x \in Exchange,
           NEW step \in {"scheduled", "resolving", "connecting"}, Advance(d, step, x)
    PROVE  dials' \subseteq Dial
BY DialType DEF Advance

LEMMA UnchangedNet == ASSUME NetOK, UNCHANGED netVars PROVE NetOK'
BY DEF NetOK, OpenOK, netVars

LEMMA UnchangedPeers == ASSUME PeersOK, UNCHANGED nodeVars PROVE PeersOK'
BY DEF PeersOK, SinkMatchesMediator, nodeVars

LEMMA ScheduleConnectOK ==
    ASSUME IInv, NEW e \in Bootstraps, ScheduleConnect(e)
    PROVE  IInv'
<1>1. e \in End
  BY BootstrapsAssumption
<1>2. RestOK'
  BY <1>1, NewDialType DEF ScheduleConnect, IInv, RestOK
<1> QED
  BY <1>2, UnchangedNet, UnchangedPeers DEF ScheduleConnect, IInv

LEMMA ConnectOK ==
    ASSUME IInv, NEW d \in dials, Connect(d)
    PROVE  IInv'
<1>1. dials' \subseteq Dial
  BY AdvanceType, ExchangeType DEF Connect, IInv, RestOK
<1>2. RestOK'
  BY <1>1 DEF Connect, IInv, RestOK
<1> QED
  BY <1>2, UnchangedNet, UnchangedPeers DEF Connect, IInv

LEMMA DeclareResolvingPeerOK ==
    ASSUME IInv, NEW d \in dials, DeclareResolvingPeer(d)
    PROVE  IInv'
<1>1. /\ dials \subseteq Dial /\ exchanges \in Exchange
      /\ resolving \in [End -> Exchange]
  BY DEF IInv, RestOK
<1>2. RestOK'
  <2>1. CASE dials' = dials \ {d} /\ UNCHANGED <<exchanges, resolving>>
    BY <2>1 DEF DeclareResolvingPeer, IInv, RestOK
  <2>2. CASE Advance(d, "connecting", 0) /\ UNCHANGED <<exchanges, resolving>>
    <3>1. dials' \subseteq Dial
      BY <2>2, <1>1, AdvanceType, ExchangeType
    <3> QED
      BY <3>1, <2>2 DEF DeclareResolvingPeer, IInv, RestOK
  <2>3. CASE /\ exchanges < MaxExchanges
             /\ exchanges' = exchanges + 1
             /\ resolving' = [resolving EXCEPT ![d.end] = exchanges + 1]
             /\ Advance(d, "connecting", exchanges + 1)
    <3>1. exchanges + 1 \in Exchange
      BY <2>3, <1>1, ExchangeType
    <3>2. dials' \subseteq Dial
      BY <2>3, <3>1, <1>1, AdvanceType
    <3>3. resolving' \in [End -> Exchange]
      BY <2>3, <3>1, <1>1
    <3> QED
      BY <2>3, <3>1, <3>2, <3>3 DEF DeclareResolvingPeer, IInv, RestOK
  <2> QED
    BY <2>1, <2>2, <2>3 DEF DeclareResolvingPeer
<1> QED
  BY <1>2, UnchangedNet, UnchangedPeers DEF DeclareResolvingPeer, IInv

(* Both sessions of the new connection belong to its two nodes.            *)
LEMMA OnSessionStartedOK ==
    ASSUME IInv, NEW d \in dials, OnSessionStarted(d)
    PROVE  IInv'
<1> DEFINE request == IF d.via = "address" THEN Msg("Request", d.exchange)
                                           ELSE Msg("HeartbeatRequest", 0)
           sides(s) == {<<s, d.end[1]>>, <<s, d.end[2]>>}
<1>1. PICK s \in Session :
          /\ opener' = [opener EXCEPT ![s] = d.end]
          /\ open' = open \cup sides(s)
          /\ reading' = reading \cup sides(s)
          /\ chan' = [chan EXCEPT ![<<s, d.end[2]>>] = <<request>>]
          /\ opener[s] = NoEnd
  BY DEF OnSessionStarted
<1>2. /\ UNCHANGED <<promoted, linking>>
      /\ NetOK /\ PeersOK /\ RestOK
  BY DEF OnSessionStarted, IInv
<1>3. d.end \in End /\ d.exchange \in Exchange
  BY <1>2 DEF RestOK, Dial
<1>4. d.end[1] \in Node /\ d.end[2] \in Node
  BY <1>3, RevType
<1>5. <<request>> \in Seq(Message)
  <2>1. request \in Message
    BY <1>3, MsgType, ExchangeType
  <2> QED
    BY <2>1
<1>6. chan' \in [Session \X Node -> Seq(Message)]
  BY <1>1, <1>2, <1>5 DEF NetOK
<1>7. opener' \in [Session -> End \cup {NoEnd}]
  BY <1>1, <1>2, <1>3 DEF NetOK
<1>8. OpenOK'
  <2> SUFFICES ASSUME NEW t \in Session, NEW m \in Node, <<t, m>> \in open'
               PROVE  opener'[t] \in End /\ m \in {opener'[t][1], opener'[t][2]}
    BY DEF OpenOK
  <2>1. CASE t = s
    <3>1. <<t, m>> \notin open
      BY <2>1, <1>1, <1>2, NoEndIsNone DEF NetOK, OpenOK
    <3>2. m = d.end[1] \/ m = d.end[2]
      BY <2>1, <3>1, <1>1
    <3>3. opener'[t] = d.end
      BY <2>1, <1>1, <1>2 DEF NetOK
    <3> QED
      BY <3>2, <3>3, <1>3
  <2>2. CASE t # s
    <3>1. <<t, m>> \in open /\ opener'[t] = opener[t]
      BY <2>2, <1>1, <1>2 DEF NetOK
    <3> QED
      BY <3>1, <1>2 DEF NetOK, OpenOK
  <2> QED
    BY <2>1, <2>2
<1>9. NetOK'
  BY <1>1, <1>2, <1>4, <1>6, <1>7, <1>8 DEF NetOK
<1>10. RestOK'
  BY <1>2 DEF OnSessionStarted, RestOK
<1>11. PeersOK'
  BY <1>2, UnchangedPeers DEF OnSessionStarted
<1> QED
  BY <1>9, <1>10, <1>11 DEF IInv

LEMMA ConnectFailsOK ==
    ASSUME IInv, NEW d \in dials, ConnectFails(d)
    PROVE  IInv'
<1>1. RestOK'
  BY ExchangeType DEF ConnectFails, IInv, RestOK
<1> QED
  BY <1>1, UnchangedNet, UnchangedPeers DEF ConnectFails, IInv

-------------------------------------------------------------------------------
(***************************************************************************)
(* The steps: receiving.                                                   *)
(***************************************************************************)
(* A new peer gets its mediator and the exchange's sink together; a tracked *)
(* one keeps what it has.                                                  *)
LEMMA LinkPeerOK ==
    ASSUME IInv, NEW s \in Session, NEW n \in Node, LinkPeer(s, n)
    PROVE  IInv'
<1> DEFINE e == EndOf(s, n)
           pending == IF KindOf(s, n) = "client" THEN resolving[e] ELSE 0
<1>1. NetOK /\ PeersOK /\ RestOK /\ Readable(s, n)
  BY DEF IInv, LinkPeer
<1>2. e \in End /\ KindOf(s, n) \in Kind /\ <<s, n>> \in open
  BY <1>1, ReadableType, EndOfType
<1>3. pending \in Exchange
  BY <1>1, <1>2, ExchangeType DEF RestOK
<1>4. RestOK'
  BY <1>1, <1>2, ExchangeType DEF LinkPeer, RestOK
<1>5. NetOK'
  BY <1>1, <1>2 DEF LinkPeer, NetOK, OpenOK
<1>6. PeersOK'
  <2>1. CASE UNCHANGED nodeVars
    BY <2>1, <1>1, UnchangedPeers
  <2>2. CASE /\ e \notin tracked
             /\ tracked' = tracked \cup {e}
             /\ strategy' = [strategy EXCEPT ![e] = MediatorFor(pending)]
             /\ processor' = [processor EXCEPT ![e] = "Synchronization"]
             /\ receiver' = [receiver EXCEPT ![e] = "processor"]
             /\ UNCHANGED state
    <3>1. MediatorFor(pending) \in Strategy
      BY <1>3, NewStrategyType DEF MediatorFor
    <3>2. SinkMatchesMediator'
      BY <2>2, <1>1, <1>2 DEF PeersOK, SinkMatchesMediator
    <3> QED
      BY <2>2, <3>1, <3>2, <1>1, <1>2 DEF PeersOK
  <2> QED
    BY <2>1, <2>2 DEF LinkPeer
<1> QED
  BY <1>4, <1>5, <1>6 DEF IInv

(* What every handler of a promoted session's message may rely on.         *)
LEMMA ReachesType ==
    ASSUME IInv, NEW s \in Session, NEW n \in Node, NEW sink, Reaches(s, n, sink)
    PROVE  /\ NetOK /\ PeersOK /\ RestOK
           /\ Readable(s, n)
           /\ <<s, n>> \in reading
           /\ EndOf(s, n) \in End
           /\ KindOf(s, n) \in Kind
           /\ receiver[EndOf(s, n)] = sink
           /\ Head(chan[<<s, n>>]) \in Message
<1>1. NetOK /\ PeersOK /\ RestOK /\ Readable(s, n)
  BY DEF IInv, Reaches
<1>2. <<s, n>> \in open /\ Head(chan[<<s, n>>]) \in Message
  BY <1>1, ReadableType
<1> QED
  BY <1>1, <1>2, EndOfType DEF Reaches, Readable

LEMMA NoSinkOK ==
    ASSUME IInv, NEW s \in Session, NEW n \in Node, NoSink(s, n)
    PROVE  IInv'
<1>1. NetOK'
  BY RefusedOK DEF NoSink, IInv, Readable
<1>2. RestOK'
  BY DEF NoSink, IInv, RestOK
<1> QED
  BY <1>1, <1>2, UnchangedPeers DEF NoSink, IInv

LEMMA ExchangeRefusesOK ==
    ASSUME IInv, NEW s \in Session, NEW n \in Node, ExchangeRefuses(s, n)
    PROVE  IInv'
<1>1. /\ NetOK /\ PeersOK /\ RestOK /\ <<s, n>> \in reading /\ EndOf(s, n) \in End
      /\ receiver[EndOf(s, n)] = "processor"
  BY ReachesType DEF ExchangeRefuses
<1>2. NetOK'
  BY <1>1, RefusedOK DEF ExchangeRefuses
<1>3. RestOK'
  BY <1>1 DEF ExchangeRefuses, RestOK
<1>4. PeersOK'
  <2>1. processor' \in {processor, [processor EXCEPT ![EndOf(s, n)] = "Invalid"]}
    BY DEF ExchangeRefuses
  <2>2. SinkMatchesMediator'
    BY <2>1, <1>1 DEF ExchangeRefuses, PeersOK, SinkMatchesMediator
  <2> QED
    BY <2>1, <2>2, <1>1 DEF ExchangeRefuses, PeersOK
<1> QED
  BY <1>2, <1>3, <1>4 DEF IInv

LEMMA SynchronizeRequestOK ==
    ASSUME IInv, NEW s \in Session, NEW n \in Node, SynchronizeRequest(s, n)
    PROVE  IInv'
<1> DEFINE e == EndOf(s, n)
           key == Head(chan[<<s, n>>]).key
<1>1. /\ NetOK /\ PeersOK /\ RestOK /\ Readable(s, n) /\ e \in End
      /\ key \in Exchange
  BY ReachesType DEF SynchronizeRequest, Negotiates, Message
<1>2. <<Msg("Response", key)>> \in Seq(Message)
  BY <1>1, MsgType
<1>3. NetOK'
  BY <1>1, <1>2, RepliedOK DEF SynchronizeRequest
<1>4. PeersOK'
  BY <1>1, DeriveOK DEF SynchronizeRequest
<1>5. granted' = granted
  BY DEF SynchronizeRequest, Derive
<1>6. RestOK'
  BY <1>1, <1>5 DEF SynchronizeRequest, RestOK
<1> QED
  BY <1>3, <1>4, <1>6 DEF IInv

LEMMA SynchronizeResponseOK ==
    ASSUME IInv, NEW s \in Session, NEW n \in Node, SynchronizeResponse(s, n)
    PROVE  IInv'
<1> DEFINE e == EndOf(s, n)
           key == Head(chan[<<s, n>>]).key
<1>1. /\ NetOK /\ PeersOK /\ RestOK /\ Readable(s, n) /\ e \in End
      /\ key \in Exchange /\ receiver[e] = "processor"
  BY ReachesType DEF SynchronizeResponse, Negotiates, Message
<1>2. FinishExchange(key) \in Seq(Message)
  BY <1>1, MsgType DEF FinishExchange
<1>3. NetOK'
  BY <1>1, <1>2, RepliedOK DEF SynchronizeResponse
<1>4. PeersOK'
  BY <1>1, AuthorizeOK DEF SynchronizeResponse
<1>5. granted' = granted \cup {<<e, key>>}
  BY DEF SynchronizeResponse, Authorize
<1>6. RestOK'
  BY <1>1, <1>5 DEF SynchronizeResponse, RestOK
<1> QED
  BY <1>3, <1>4, <1>6 DEF IInv

LEMMA SynchronizeVerificationOK ==
    ASSUME IInv, NEW s \in Session, NEW n \in Node, SynchronizeVerification(s, n)
    PROVE  IInv'
<1> DEFINE e == EndOf(s, n)
           key == strategy[e].key
<1>1. /\ NetOK /\ PeersOK /\ RestOK /\ Readable(s, n) /\ e \in End
      /\ receiver[e] = "processor"
  BY ReachesType DEF SynchronizeVerification, Negotiates
<1>2. key \in Exchange
  BY <1>1 DEF PeersOK, Strategy
<1>3. NetOK'
  BY <1>1, ConsumedOK DEF SynchronizeVerification
<1>4. PeersOK'
  BY <1>1, <1>2, AuthorizeOK DEF SynchronizeVerification
<1>5. granted' = granted \cup {<<e, key>>}
  BY DEF SynchronizeVerification, Authorize
<1>6. RestOK'
  BY <1>1, <1>2, <1>5 DEF SynchronizeVerification, RestOK
<1> QED
  BY <1>3, <1>4, <1>6 DEF IInv

LEMMA SynchronizeFailsOK ==
    ASSUME IInv, NEW s \in Session, NEW n \in Node, SynchronizeFails(s, n)
    PROVE  IInv'
<1>1. /\ NetOK /\ PeersOK /\ RestOK /\ <<s, n>> \in reading /\ EndOf(s, n) \in End
  BY ReachesType DEF SynchronizeFails, Negotiates
<1>2. NetOK'
  BY <1>1, RefusedOK DEF SynchronizeFails
<1>3. PeersOK'
  BY <1>1, RevokeOK DEF SynchronizeFails
<1>4. granted' = granted
  BY DEF SynchronizeFails, Revoke
<1>5. RestOK'
  BY <1>1, <1>4 DEF SynchronizeFails, RestOK
<1> QED
  BY <1>2, <1>3, <1>5 DEF IInv

LEMMA AuthorizedQueuesOK ==
    ASSUME IInv, NEW s \in Session, NEW n \in Node, AuthorizedQueues(s, n)
    PROVE  IInv'
<1> DEFINE e == EndOf(s, n)
           msg == Head(chan[<<s, n>>])
           item == [end |-> e, kind |-> KindOf(s, n), type |-> msg.type]
<1>1. /\ NetOK /\ PeersOK /\ RestOK /\ Readable(s, n) /\ <<s, n>> \in reading
      /\ e \in End /\ KindOf(s, n) \in Kind /\ IsApplication(msg)
  BY ReachesType DEF AuthorizedQueues
<1>2. item \in Queued
  BY <1>1 DEF Queued, IsApplication
<1>3. inbox' \in [Node -> Seq(Queued)]
  <2>1. \A q \in Seq(Queued) : Append(q, item) \in Seq(Queued)
    BY <1>2, AppendProperties
  <2>2. inbox' \in {inbox, [inbox EXCEPT ![n] = Append(@, item)]}
    BY DEF AuthorizedQueues, QueuedFor
  <2> HIDE DEF item
  <2> QED
    BY <2>1, <2>2, <1>1 DEF RestOK
<1>4. NetOK'
  BY <1>1, ConsumedOK, RefusedOK DEF AuthorizedQueues
<1>5. PeersOK'
  BY <1>1, UnchangedPeers DEF AuthorizedQueues
<1>6. RestOK'
  BY <1>1, <1>3 DEF AuthorizedQueues, RestOK
<1> QED
  BY <1>4, <1>5, <1>6 DEF IInv

LEMMA AuthorizedAnswersOK ==
    ASSUME IInv, NEW s \in Session, NEW n \in Node, AuthorizedAnswers(s, n)
    PROVE  IInv'
<1>1. NetOK /\ PeersOK /\ RestOK /\ Readable(s, n)
  BY ReachesType DEF AuthorizedAnswers
<1>2. /\ <<Msg("HeartbeatRequest", 0)>> \in Seq(Message)
      /\ <<Msg("HeartbeatResponse", 0)>> \in Seq(Message)
  BY MsgType, ExchangeType
<1>3. NetOK'
  BY <1>1, <1>2, RepliedOK, ConsumedOK DEF AuthorizedAnswers
<1>4. PeersOK'
  BY <1>1, UnchangedPeers DEF AuthorizedAnswers
<1>5. RestOK'
  BY <1>1 DEF AuthorizedAnswers, RestOK
<1> QED
  BY <1>3, <1>4, <1>5 DEF IInv

-------------------------------------------------------------------------------
(***************************************************************************)
(* The steps: the core thread, the end of a session and of a process.      *)
(***************************************************************************)
LEMMA HandleIncomingOK ==
    ASSUME IInv, NEW n \in Node, HandleIncoming(n)
    PROVE  IInv'
<1> DEFINE item == Head(inbox[n])
           e == item.end
<1>1. NetOK /\ PeersOK /\ RestOK
  BY DEF IInv
<1>2. inbox' \in [Node -> Seq(Queued)] /\ e \in End
  <2>1. inbox[n] \in Seq(Queued) /\ inbox[n] # <<>>
    BY <1>1 DEF RestOK, HandleIncoming
  <2>2. Tail(inbox[n]) \in Seq(Queued) /\ item \in Queued
    BY <2>1, HeadTailProperties
  <2> QED
    BY <2>2, <1>1 DEF RestOK, HandleIncoming, Queued
<1>3. CASE UNCHANGED <<dials, chan>>
  <2>1. UNCHANGED netVars /\ RestOK'
    BY <1>1, <1>2, <1>3 DEF HandleIncoming, RestOK, netVars
  <2> QED
    BY <2>1, <1>1, UnchangedNet, UnchangedPeers DEF HandleIncoming, IInv
<1>4. ASSUME item.type = "DiscoveryRequest",
             dials' = dials \cup {NewDial(e, "identifier")},
             \/ UNCHANGED chan
             \/ \E t \in Session :
                    chan' = Carry(chan, t, e[2],
                                  <<Msg("DiscoveryResponse", strategy[e].key)>>)
      PROVE  IInv'
  <2>1. <<Msg("DiscoveryResponse", strategy[e].key)>> \in Seq(Message)
    <3>1. strategy[e].key \in Exchange
      BY <1>1, <1>2 DEF PeersOK, Strategy
    <3> QED
      BY <3>1, MsgType
  <2>2. chan' \in [Session \X Node -> Seq(Message)]
    <3>1. chan \in [Session \X Node -> Seq(Message)]
      BY <1>1 DEF NetOK
    <3>2. ASSUME NEW t \in Session
          PROVE  Carry(chan, t, e[2], <<Msg("DiscoveryResponse", strategy[e].key)>>)
                     \in [Session \X Node -> Seq(Message)]
      BY <2>1, <3>1, CarryType
    <3> QED
      BY <3>1, <3>2, <1>4
  <2>3. NetOK'
    BY <2>2, <1>1 DEF HandleIncoming, NetOK, OpenOK
  <2>4. dials' \subseteq Dial
    BY <1>1, <1>2, <1>4, NewDialType DEF RestOK
  <2>5. RestOK'
    BY <2>4, <1>1, <1>2 DEF HandleIncoming, RestOK
  <2>6. PeersOK'
    BY <1>1, UnchangedPeers DEF HandleIncoming
  <2> QED
    BY <2>3, <2>5, <2>6 DEF IInv
<1>5. CASE item.type = "DiscoveryRequest" /\ ~UNCHANGED <<dials, chan>>
  BY <1>4, <1>5 DEF HandleIncoming, Routes
<1> QED
  BY <1>3, <1>5 DEF HandleIncoming

LEMMA OnSessionStoppedOK ==
    ASSUME IInv, NEW s \in Session, NEW n \in Node, OnSessionStopped(s, n)
    PROVE  IInv'
<1>1. NetOK'
  BY CloseOK DEF OnSessionStopped, IInv
<1>2. RestOK'
  BY DEF OnSessionStopped, IInv, RestOK
<1> QED
  BY <1>1, <1>2, UnchangedPeers DEF OnSessionStopped, IInv

(* A process that dies forgets its side of every relation, and only that.  *)
LEMMA RestartOK ==
    ASSUME IInv, NEW n \in Node, Restart(n)
    PROVE  IInv'
<1>1. NetOK /\ PeersOK /\ RestOK
  BY DEF IInv
<1>2. NetOK'
  <2>1. {c \in open : c[2] = n} \in SUBSET (Session \X Node)
    BY <1>1 DEF NetOK
  <2> QED
    BY <2>1, <1>1, CloseOK DEF Restart
<1>3. PeersOK'
  <2>1. SinkMatchesMediator'
    BY <1>1 DEF Restart, PeersOK, SinkMatchesMediator
  <2> QED
    BY <2>1, <1>1, NewStrategyType DEF Restart, PeersOK
<1>4. RestOK'
  <2>1. restarts' \in 0 .. MaxRestarts
    BY <1>1, BoundsAssumption DEF Restart, RestOK
  <2>2. inbox' \in [Node -> Seq(Queued)]
    BY <1>1, EmptySeq DEF Restart, RestOK
  <2>3. resolving' \in [End -> Exchange]
    BY <1>1, ExchangeType DEF Restart, RestOK
  <2> QED
    BY <2>1, <2>2, <2>3, <1>1 DEF Restart, RestOK
<1> QED
  BY <1>2, <1>3, <1>4 DEF IInv

-------------------------------------------------------------------------------
LEMMA InitOK == ASSUME Init PROVE IInv
<1>1. <<>> \in Seq(Message) /\ <<>> \in Seq(Queued)
  BY EmptySeq
<1>2. NetOK
  BY <1>1 DEF Init, NetOK, OpenOK
<1>3. PeersOK
  BY NewStrategyType DEF Init, PeersOK, SinkMatchesMediator
<1>4. RestOK
  BY <1>1, ExchangeType, BoundsAssumption DEF Init, RestOK
<1> QED
  BY <1>2, <1>3, <1>4 DEF IInv

LEMMA StepOK == ASSUME IInv, [Next]_vars PROVE IInv'
<1>1. ASSUME NEW e \in Bootstraps, ScheduleConnect(e) PROVE IInv'
  BY <1>1, ScheduleConnectOK
<1>2. CASE Dialing
  BY <1>2, ConnectOK, DeclareResolvingPeerOK, OnSessionStartedOK DEF Dialing
<1>3. ASSUME NEW s \in Session, NEW n \in Node, Receiving(s, n) PROVE IInv'
  BY <1>3, LinkPeerOK, NoSinkOK, ExchangeRefusesOK, SynchronizeRequestOK,
     SynchronizeResponseOK, SynchronizeVerificationOK, SynchronizeFailsOK,
     AuthorizedQueuesOK, AuthorizedAnswersOK, OnSessionStoppedOK
     DEF Receiving, SessionEnds
<1>4. ASSUME NEW n \in Node, HandleIncoming(n) PROVE IInv'
  BY <1>4, HandleIncomingOK
<1>5. ASSUME NEW d \in dials, ConnectFails(d) PROVE IInv'
  BY <1>5, ConnectFailsOK
<1>6. ASSUME NEW s \in Session, NEW n \in Node, SessionFails(s, n) PROVE IInv'
  BY <1>6, OnSessionStoppedOK DEF SessionFails
<1>7. ASSUME NEW n \in Node, Restart(n) PROVE IInv'
  BY <1>7, RestartOK
<1>8. CASE UNCHANGED vars
  <2>1. RestOK'
    BY <1>8 DEF vars, IInv, RestOK
  <2>2. UNCHANGED netVars /\ UNCHANGED nodeVars
    BY <1>8 DEF vars
  <2> QED
    BY <2>1, <2>2, UnchangedNet, UnchangedPeers DEF IInv
<1> QED
  BY <1>1, <1>2, <1>3, <1>4, <1>5, <1>6, <1>7, <1>8 DEF Next

(* Every session that is tracked belongs to its connection, every peer's   *)
(* sink to its mediator, and every variable to its type.                   *)
THEOREM Inductive == Spec => []IInv
<1>1. Init => IInv
  BY InitOK
<1>2. IInv /\ [Next]_vars => IInv'
  BY StepOK
<1> QED
  BY <1>1, <1>2, PTL DEF Spec

(* Every variable keeps its type.                                          *)
THEOREM TypeCorrect == Spec => []TypeOK
<1>1. IInv => TypeOK
  <2>1. NetOK => linking \subseteq open
    BY DEF NetOK
  <2> QED
    BY <2>1 DEF IInv, NetOK, PeersOK, RestOK, TypeOK
<1> QED
  BY <1>1, Inductive, PTL

(* The sink that receives a peer's messages is the one its mediator is in  *)
(* charge of, whatever two endpoints, the core thread and failures do.     *)
THEOREM SinkAgrees == Spec => []SinkMatchesMediator
<1>1. IInv => SinkMatchesMediator
  BY DEF IInv, PeersOK
<1> QED
  BY <1>1, Inductive, PTL

-------------------------------------------------------------------------------
(* Only a step that still negotiates touches a strategy, and an authorized *)
(* end no longer negotiates.                                               *)
LEMMA AuthorizedKept ==
    ASSUME IInv, Next, NEW e \in End, state[e] = "Authorized"
    PROVE  \/ state'[e] = "Authorized" /\ strategy'[e] = strategy[e]
           \/ e \notin tracked'
<1> DEFINE Kept == \/ state'[e] = "Authorized" /\ strategy'[e] = strategy[e]
                   \/ e \notin tracked'
<1>1. /\ PeersOK
      /\ receiver[e] = "sink" /\ e \in tracked
  BY DEF IInv, PeersOK, SinkMatchesMediator
<1>2. CASE UNCHANGED nodeVars
  BY <1>2 DEF nodeVars
<1>3. ASSUME NEW s \in Session, NEW n \in Node, Receiving(s, n) PROVE Kept
  <2> DEFINE d == EndOf(s, n)
  <2>1. CASE LinkPeer(s, n)
    BY <2>1, <1>1 DEF LinkPeer, PeersOK, nodeVars
  <2>2. ASSUME receiver[d] = "processor",
               \A c \in End : c # d => state'[c] = state[c] /\ strategy'[c] = strategy[c]
        PROVE  Kept
    BY <2>2, <1>1
  <2>3. CASE ExchangeRefuses(s, n)
    BY <2>3 DEF ExchangeRefuses
  <2>4. CASE SynchronizeRequest(s, n)
    BY <2>4, <2>2, <1>1 DEF SynchronizeRequest, Negotiates, Reaches, Derive, PeersOK
  <2>5. CASE SynchronizeResponse(s, n)
    BY <2>5, <2>2, <1>1 DEF SynchronizeResponse, Negotiates, Reaches, Authorize, PeersOK
  <2>6. CASE SynchronizeVerification(s, n)
    BY <2>6, <2>2, <1>1 DEF SynchronizeVerification, Negotiates, Reaches, Authorize, PeersOK
  <2>7. CASE SynchronizeFails(s, n)
    BY <2>7, <2>2, <1>1 DEF SynchronizeFails, Negotiates, Reaches, Revoke, PeersOK
  <2>8. CASE NoSink(s, n) \/ AuthorizedQueues(s, n) \/ AuthorizedAnswers(s, n)
    BY <2>8, <1>2 DEF NoSink, AuthorizedQueues, AuthorizedAnswers
  <2>9. CASE SessionEnds(s, n)
    BY <2>9, <1>2 DEF SessionEnds, OnSessionStopped
  <2> QED
    BY <1>3, <2>1, <2>3, <2>4, <2>5, <2>6, <2>7, <2>8, <2>9 DEF Receiving
<1>4. ASSUME NEW n \in Node, Restart(n) PROVE Kept
  BY <1>4, <1>1 DEF Restart
<1>5. CASE \E c \in Bootstraps : ScheduleConnect(c)
  BY <1>5, <1>2 DEF ScheduleConnect
<1>6. CASE Dialing
  BY <1>6, <1>2 DEF Dialing, Connect, DeclareResolvingPeer, OnSessionStarted
<1>7. CASE \E n \in Node : HandleIncoming(n)
  BY <1>7, <1>2 DEF HandleIncoming
<1>8. CASE \E d \in dials : ConnectFails(d)
  BY <1>8, <1>2 DEF ConnectFails
<1>9. CASE \E s \in Session, n \in Node : SessionFails(s, n)
  BY <1>9, <1>2 DEF SessionFails, OnSessionStopped
<1> QED
  BY <1>3, <1>4, <1>5, <1>6, <1>7, <1>8, <1>9 DEF Next

(* An authorized session is never downgraded or re-keyed by a late         *)
(* handshake, a second connection or a lost one: only the end of the       *)
(* process gives it up.                                                    *)
THEOREM AuthorizationStable == Spec => StableAuthorization
<1>1. IInv /\ [Next]_vars =>
        [\A e \in End :
            state[e] = "Authorized" =>
                \/ state'[e] = "Authorized" /\ strategy'[e] = strategy[e]
                \/ e \notin tracked']_vars
  BY AuthorizedKept
<1> QED
  BY <1>1, Inductive, PTL DEF Spec, StableAuthorization

-------------------------------------------------------------------------------
(***************************************************************************)
(* The core thread schedules a connection by identifier for the sender of  *)
(* a message that the authorized sink has queued.  Both outlive the        *)
(* session the message came by, so what makes the peer tracked must hold   *)
(* of the queue as well.                                                   *)
(***************************************************************************)
QueuedIsTracked ==
    \A n \in Node : \A i \in DOMAIN inbox[n] :
        inbox[n][i].end[1] = n /\ inbox[n][i].end \in tracked

TInv == IdentifierIsTracked /\ QueuedIsTracked

(* Steps that add neither a connection by identifier nor a queued message, *)
(* and forget no peer.                                                     *)
LEMMA TrackedKept ==
    ASSUME TInv, tracked \subseteq tracked', inbox' = inbox,
           \A d \in dials' : d.via = "identifier" => \E c \in dials : /\ c.end = d.end
                                                                     /\ c.via = d.via
    PROVE  TInv'
BY DEF TInv, IdentifierIsTracked, QueuedIsTracked

LEMMA DialingTracked ==
    ASSUME IInv, TInv, NEW d \in dials,
           Connect(d) \/ DeclareResolvingPeer(d) \/ OnSessionStarted(d)
    PROVE  TInv'
<1>1. d \in Dial
  BY DEF IInv, RestOK
<1>2. \A step, x : /\ [d EXCEPT !.step = step, !.exchange = x].end = d.end
                   /\ [d EXCEPT !.step = step, !.exchange = x].via = d.via
  BY <1>1 DEF Dial
<1>3. dials' \subseteq dials \/ \E step, x : Advance(d, step, x)
  BY DEF Connect, DeclareResolvingPeer, OnSessionStarted
<1>4. ASSUME NEW c \in dials' PROVE \E b \in dials : b.end = c.end /\ b.via = c.via
  <2>1. CASE c \in dials
    BY <2>1
  <2>2. CASE c \notin dials
    <3>1. PICK step, x : Advance(d, step, x)
      BY <1>3, <2>2
    <3>2. c = [d EXCEPT !.step = step, !.exchange = x]
      BY <3>1, <2>2 DEF Advance
    <3>3. d.end = c.end /\ d.via = c.via
      BY <3>2, <1>2
    <3> QED
      BY <3>3
  <2> QED
    BY <2>1, <2>2
<1>5. tracked' = tracked /\ inbox' = inbox
  BY DEF Connect, DeclareResolvingPeer, OnSessionStarted, nodeVars
<1> QED
  BY <1>4, <1>5, TrackedKept

LEMMA QueuesTracked ==
    ASSUME IInv, TInv, NEW s \in Session, NEW n \in Node, AuthorizedQueues(s, n)
    PROVE  TInv'
<1> DEFINE e == EndOf(s, n)
<1>1. /\ NetOK /\ PeersOK /\ RestOK
      /\ Readable(s, n) /\ receiver[e] = "sink"
      /\ dials' = dials /\ tracked' = tracked
  BY DEF IInv, AuthorizedQueues, Reaches, nodeVars
<1>2. e \in End /\ e[1] = n
  BY <1>1, ReadableType, EndOfType
<1>3. e \in tracked
  BY <1>1, <1>2 DEF PeersOK, SinkMatchesMediator
<1>4. CASE inbox' = inbox
  BY <1>1, <1>4, TrackedKept
<1>5. ASSUME NEW item, item.end = e, inbox' = [inbox EXCEPT ![n] = Append(@, item)],
             item \in Queued
      PROVE  TInv'
  <2>1. inbox \in [Node -> Seq(Queued)]
    BY <1>1 DEF RestOK
  <2>2. \A i \in DOMAIN inbox'[n] :
            \/ i \in DOMAIN inbox[n] /\ inbox'[n][i] = inbox[n][i]
            \/ inbox'[n][i] = item
    BY <1>5, <2>1, AppendProperties
  <2>3. \A m \in Node : m # n => inbox'[m] = inbox[m]
    BY <1>5, <2>1
  <2>4. QueuedIsTracked'
    BY <2>2, <2>3, <1>1, <1>2, <1>3, <1>5 DEF TInv, QueuedIsTracked
  <2> QED
    BY <2>4, <1>1 DEF TInv, IdentifierIsTracked
<1>6. Head(chan[<<s, n>>]).type \in {"DiscoveryRequest", "DiscoveryResponse"}
  BY DEF AuthorizedQueues, IsApplication
<1>7. KindOf(s, n) \in Kind
  BY <1>1, ReadableType, EndOfType
<1>8. [end |-> e, kind |-> KindOf(s, n), type |-> Head(chan[<<s, n>>]).type] \in Queued
  BY <1>2, <1>6, <1>7 DEF Queued
<1> QED
  BY <1>4, <1>5, <1>8 DEF AuthorizedQueues, QueuedFor

LEMMA HandleIncomingTracked ==
    ASSUME IInv, TInv, NEW n \in Node, HandleIncoming(n)
    PROVE  TInv'
<1> DEFINE item == Head(inbox[n])
<1>1. inbox \in [Node -> Seq(Queued)] /\ inbox[n] # <<>>
  BY DEF IInv, RestOK, HandleIncoming
<1>2. item = inbox[n][1] /\ 1 \in DOMAIN inbox[n]
  BY <1>1
<1>3. item.end \in tracked
  BY <1>2 DEF TInv, QueuedIsTracked
<1>4. tracked' = tracked
      /\ (dials' = dials \/ dials' = dials \cup {NewDial(item.end, "identifier")})
  BY DEF HandleIncoming, nodeVars
<1>5. IdentifierIsTracked'
  BY <1>3, <1>4 DEF TInv, IdentifierIsTracked, NewDial
<1>6. \A i \in DOMAIN Tail(inbox[n]) :
          i + 1 \in DOMAIN inbox[n] /\ Tail(inbox[n])[i] = inbox[n][i + 1]
  BY <1>1
<1>7. inbox' = [inbox EXCEPT ![n] = Tail(@)]
  BY DEF HandleIncoming
<1>8. QueuedIsTracked'
  BY <1>1, <1>4, <1>6, <1>7 DEF TInv, QueuedIsTracked
<1> QED
  BY <1>5, <1>8 DEF TInv

LEMMA RestartTracked ==
    ASSUME IInv, TInv, NEW n \in Node, Restart(n)
    PROVE  TInv'
<1>1. inbox \in [Node -> Seq(Queued)]
  BY DEF IInv, RestOK
<1>2. inbox' = [inbox EXCEPT ![n] = <<>>] /\ tracked' = {e \in tracked : e[1] # n}
      /\ dials' = {d \in dials : d.end[1] # n}
  BY DEF Restart
<1> QED
  BY <1>1, <1>2 DEF TInv, IdentifierIsTracked, QueuedIsTracked

(* PeerManager::DeclareResolvingPeer never falls through both generators   *)
(* (PeerManager.cpp:118): the identifier it is given is tracked, however   *)
(* long the event and the coroutine were on their way.                     *)
THEOREM NeverFallsThrough == Spec => []IdentifierIsTracked
<1>1. Init => TInv
  BY DEF Init, TInv, IdentifierIsTracked, QueuedIsTracked
<1>2. IInv /\ TInv /\ [Next]_vars => TInv'
  <2> SUFFICES ASSUME IInv, TInv, [Next]_vars PROVE TInv'
    OBVIOUS
  <2>1. ASSUME NEW e \in Bootstraps, ScheduleConnect(e) PROVE TInv'
    <3>1. \A d \in dials' : d.via = "identifier" => d \in dials
      BY <2>1 DEF ScheduleConnect, NewDial
    <3> QED
      BY <3>1, <2>1, TrackedKept DEF ScheduleConnect, nodeVars
  <2>2. CASE Dialing
    BY <2>2, DialingTracked DEF Dialing
  <2>3. ASSUME NEW s \in Session, NEW n \in Node, Receiving(s, n) PROVE TInv'
    <3>1. CASE AuthorizedQueues(s, n)
      BY <3>1, QueuesTracked
    <3>2. CASE ~AuthorizedQueues(s, n)
      <4>1. dials' = dials /\ inbox' = inbox /\ tracked \subseteq tracked'
        BY <2>3, <3>2 DEF Receiving, LinkPeer, NoSink, ExchangeRefuses,
           SynchronizeRequest, SynchronizeResponse, SynchronizeVerification,
           SynchronizeFails, AuthorizedAnswers, SessionEnds, OnSessionStopped,
           Authorize, Derive, Revoke, nodeVars
      <4> QED
        BY <4>1, TrackedKept
    <3> QED
      BY <3>1, <3>2
  <2>4. ASSUME NEW n \in Node, HandleIncoming(n) PROVE TInv'
    BY <2>4, HandleIncomingTracked
  <2>5. ASSUME NEW d \in dials, ConnectFails(d) PROVE TInv'
    BY <2>5, TrackedKept DEF ConnectFails, nodeVars
  <2>6. ASSUME NEW s \in Session, NEW n \in Node, SessionFails(s, n) PROVE TInv'
    BY <2>6, TrackedKept DEF SessionFails, OnSessionStopped, nodeVars
  <2>7. ASSUME NEW n \in Node, Restart(n) PROVE TInv'
    BY <2>7, RestartTracked
  <2>8. CASE UNCHANGED vars
    BY <2>8, TrackedKept DEF vars, nodeVars
  <2> QED
    BY <2>1, <2>2, <2>3, <2>4, <2>5, <2>6, <2>7, <2>8 DEF Next
<1>3. TInv => IdentifierIsTracked
  BY DEF TInv
<1> QED
  BY <1>1, <1>2, <1>3, Inductive, PTL DEF Spec

-------------------------------------------------------------------------------
(***************************************************************************)
(* The handshake implements AuthorizedLink, and two ends that have         *)
(* authorized each other hold the same key in opposite roles.              *)
(***************************************************************************)
(***************************************************************************)
(* What is on its way, of all channels together.                           *)
(***************************************************************************)
Channel == Session \X Node
Sends(c, msg) == \E i \in DOMAIN chan[c] : chan[c][i] = msg
Answered == {x \in Exchange : \E c \in Channel : Sends(c, Msg("Response", x))}
Proven == {x \in Exchange : \E c \in Channel : Sends(c, Msg("Verification", x))}
Asks(c, x) == chan[c] # <<>> /\ Head(chan[c]) = Msg("Request", x)

(* Only what is read is in a channel, and a request is the first of it.    *)
ChannelsOK ==
    \A c \in Channel :
        /\ chan[c] # <<>> => c \in reading
        /\ \A i \in DOMAIN chan[c] : chan[c][i].type = "Request" => i = 1

(***************************************************************************)
(* Every exchange that has begun is some end's: owner[x] has declared it,  *)
(* and is the one to initiate it.                                          *)
(***************************************************************************)
OwnerOK(owner) ==
    /\ owner \in [Exchange -> End \cup {NoEnd}]
    /\ owner[0] = NoEnd
    /\ \A x \in Exchange : x > exchanges => owner[x] = NoEnd

DialsOK(owner) ==
    \A d \in dials :
        /\ d.exchange # 0 => owner[d.exchange] = d.end
        /\ d.step = "connecting" /\ d.via = "address" => d.exchange # 0

ResolvingOK(owner) ==
    \A e \in End : resolving[e] # 0 =>
        /\ owner[resolving[e]] = e
        /\ <<e, resolving[e]>> \notin granted

(* Of an acceptor's key, the initiator had it first.                       *)
GrantedOK(owner) ==
    /\ \A e \in End, x \in Exchange : <<e, x>> \in granted =>
          owner[x] \in {e, Rev(e)} /\ <<owner[x], x>> \in granted
    /\ \A x \in Proven : <<owner[x], x>> \in granted
    /\ \A x \in Answered : owner[x] \in End

InitiatorOK(owner, e) ==
    LET x == strategy[e].own
    IN  /\ owner[x] = e
        /\ resolving[e] # x
        /\ \/ strategy[e].stage = "Initialization" /\ strategy[e].key = 0 /\ <<e, x>> \notin granted
           \/ strategy[e].stage = "Complete" /\ strategy[e].key = x

AcceptorOK(owner, e) ==
    LET x == strategy[e].key
    IN  \/ strategy[e].stage = "Initialization" /\ x = 0
        \/ strategy[e].stage = "Verification" /\ owner[x] = Rev(e) /\ <<e, x>> \notin granted
        \/ strategy[e].stage = "Complete" /\ owner[x] = Rev(e)

StrategyOK(owner) ==
    \A e \in End :
        /\ strategy[e].role = "none" => strategy[e].stage = "Initialization"
        /\ strategy[e].role # "none" => e \in tracked
        /\ strategy[e].role = "initiator" => InitiatorOK(owner, e)
        /\ strategy[e].role = "acceptor" => AcceptorOK(owner, e)
        /\ strategy[e].stage = "Complete" <=> state[e] = "Authorized"
        /\ strategy[e].stage = "Complete" => <<e, strategy[e].key>> \in granted

(***************************************************************************)
(* The request of an exchange is read once, and not before that is it      *)
(* answered, or has anybody its key.                                       *)
(***************************************************************************)
Unused(x) ==
    /\ x \notin Answered
    /\ \A e \in End : <<e, x>> \notin granted
    /\ \A e \in End : strategy[e].role = "acceptor" => strategy[e].key # x

AsksOK(owner) ==
    \A c \in Channel, x \in Exchange : Asks(c, x) =>
        /\ owner[x] = Rev(EndOf(c[1], c[2]))
        /\ Unused(x)
        /\ \A other \in Channel : Asks(other, x) => other = c
        /\ \A d \in dials : d.exchange # x

DialsUnused ==
    \A d \in dials : d.exchange # 0 =>
        /\ Unused(d.exchange)
        /\ \A other \in dials : other.exchange = d.exchange => other = d

(***************************************************************************)
(* How the two ends of a relation stand.  An end is answered if the other  *)
(* one has made keys for the exchange that it is waiting for, or has the   *)
(* keys of.                                                                *)
(***************************************************************************)
IsAnswered(e) ==
    \/ resolving[e] \in Answered
    \/ strategy[e].role = "initiator" /\
          (strategy[e].own \in Answered \/ strategy[e].stage = "Complete")

IsBlocked(e) == e \in tracked /\ strategy[e].role # "initiator"

Accepted(e, x) == strategy[e].role = "acceptor" /\ strategy[e].key = x

(* What an acceptor has keys of, and its peer was authorized with, is what *)
(* its peer holds, or else its peer waits for no answer.                   *)
AcceptedIsHeld ==
    \A e \in End, x \in Exchange :
        Accepted(e, x) /\ <<Rev(e), x>> \in granted =>
            \/ strategy[Rev(e)].role = "initiator" /\ strategy[Rev(e)].own = x
               /\ strategy[Rev(e)].stage = "Complete"
            \/ ~IsAnswered(Rev(e))

OneIsBlocked == \A e \in End : IsAnswered(e) /\ IsAnswered(Rev(e)) => IsBlocked(e) \/ IsBlocked(Rev(e))

OneIsAccepted ==
    \A e \in End, x, y \in Exchange :
        Accepted(e, x) /\ <<Rev(e), x>> \in granted /\ Accepted(Rev(e), y) => <<e, y>> \notin granted

Owned(owner) ==
    /\ OwnerOK(owner)
    /\ DialsOK(owner)
    /\ ResolvingOK(owner)
    /\ GrantedOK(owner)
    /\ StrategyOK(owner)
    /\ AsksOK(owner)

RelationsOK == DialsUnused /\ AcceptedIsHeld /\ OneIsBlocked /\ OneIsAccepted

LInv == ChannelsOK /\ RelationsOK /\ \E owner \in [Exchange -> End \cup {NoEnd}] : Owned(owner)

-------------------------------------------------------------------------------
(***************************************************************************)
(* Lemmas about channels.                                                  *)
(***************************************************************************)
LEMMA RevRev == ASSUME NEW e \in End PROVE Rev(e) \in End /\ Rev(Rev(e)) = e /\ Rev(e) # e
BY DEF End, Rev

(* What a step may do to the channels: no request appears, and of other    *)
(* handshake messages only what is named.                                  *)
Gains(responses, verifications) ==
    /\ ChannelsOK'
    /\ Answered' \subseteq Answered \cup responses
    /\ Proven' \subseteq Proven \cup verifications
    /\ \A c \in Channel, x \in Exchange :
          Asks(c, x)' => Asks(c, x) /\ EndOf(c[1], c[2])' = EndOf(c[1], c[2])

Shrinks ==
    /\ ChannelsOK'
    /\ \A c \in Channel, msg \in Message : Sends(c, msg)' => Sends(c, msg)
    /\ \A c \in Channel, x \in Exchange :
          Asks(c, x)' => Asks(c, x) /\ EndOf(c[1], c[2])' = EndOf(c[1], c[2])

LEMMA ShrinksGains == ASSUME Shrinks PROVE Gains({}, {})
BY MsgType DEF Shrinks, Gains, Answered, Proven

(* A channel that is taken from, emptied or left alone.                    *)
LEMMA TakenShrinks ==
    ASSUME NetOK, ChannelsOK, NEW s \in Session, NEW n \in Node, Readable(s, n),
           Consumed(s, n)
    PROVE  Shrinks /\ \A x \in Exchange : ~Asks(<<s, n>>, x)'
<1> DEFINE q == chan[<<s, n>>]
<1>1. q \in Seq(Message) /\ q # <<>> /\ <<s, n>> \in Channel /\ <<s, n>> \in reading
  BY DEF NetOK, Channel, Readable
<1>2. /\ Tail(q) \in Seq(Message)
      /\ Len(Tail(q)) = Len(q) - 1
      /\ \A i \in DOMAIN Tail(q) : Tail(q)[i] = q[i + 1] /\ i + 1 \in DOMAIN q
      /\ Tail(q) # <<>> => Head(Tail(q)) = q[2] /\ 2 \in DOMAIN q
  BY <1>1
<1>3. chan' = [chan EXCEPT ![<<s, n>>] = Tail(q)] /\ UNCHANGED <<opener, reading>>
  BY DEF Consumed, Taken
<1>4. \A c \in Channel : chan'[c] = IF c = <<s, n>> THEN Tail(q) ELSE chan[c]
  BY <1>3 DEF NetOK, Channel
<1>5. \A i \in DOMAIN Tail(q) : Tail(q)[i].type # "Request"
  BY <1>1, <1>2 DEF ChannelsOK
<1>6. ChannelsOK'
  <2> SUFFICES ASSUME NEW c \in Channel
               PROVE  /\ chan'[c] # <<>> => c \in reading'
                      /\ \A i \in DOMAIN chan'[c] : chan'[c][i].type = "Request" => i = 1
    BY DEF ChannelsOK
  <2>1. CASE c = <<s, n>>
    BY <2>1, <1>1, <1>3, <1>4, <1>5
  <2>2. CASE c # <<s, n>>
    BY <2>2, <1>3, <1>4 DEF ChannelsOK
  <2> QED
    BY <2>1, <2>2
<1>7. \A c \in Channel, msg \in Message : Sends(c, msg)' => Sends(c, msg)
  <2> SUFFICES ASSUME NEW c \in Channel, NEW msg \in Message,
                      NEW i \in DOMAIN chan'[c], chan'[c][i] = msg
               PROVE  \E j \in DOMAIN chan[c] : chan[c][j] = msg
    BY DEF Sends
  <2>1. CASE c = <<s, n>>
    BY <2>1, <1>2, <1>4
  <2>2. CASE c # <<s, n>>
    BY <2>2, <1>4
  <2> QED
    BY <2>1, <2>2
<1>8. \A x \in Exchange : ~Asks(<<s, n>>, x)'
  <2>1. chan'[<<s, n>>] = Tail(q)
    BY <1>1, <1>4
  <2>2. Tail(q) # <<>> => Head(Tail(q)) = Tail(q)[1] /\ 1 \in DOMAIN Tail(q)
    BY <1>2
  <2>3. \A x \in Exchange : Msg("Request", x).type = "Request"
    BY DEF Msg
  <2> QED
    BY <2>1, <2>2, <2>3, <1>5 DEF Asks
<1>9. \A c \in Channel, x \in Exchange : Asks(c, x)' => Asks(c, x)
  BY <1>4, <1>8 DEF Asks
<1>10. \A c \in Channel : EndOf(c[1], c[2])' = EndOf(c[1], c[2])
  BY <1>3 DEF EndOf, PeerOf
<1> QED
  BY <1>6, <1>7, <1>8, <1>9, <1>10 DEF Shrinks

LEMMA RefusedShrinks ==
    ASSUME NetOK, ChannelsOK, NEW s \in Session, NEW n \in Node, Refused(s, n)
    PROVE  Shrinks
<1>1. /\ chan' = [chan EXCEPT ![<<s, n>>] = <<>>]
      /\ reading' = reading \ {<<s, n>>}
      /\ opener' = opener
  BY DEF Refused
<1>2. \A c \in Channel : chan'[c] = IF c = <<s, n>> THEN <<>> ELSE chan[c]
  BY <1>1 DEF NetOK, Channel
<1>3. ChannelsOK'
  BY <1>1, <1>2 DEF ChannelsOK
<1>4. \A c \in Channel : \A msg : Sends(c, msg)' => Sends(c, msg)
  BY <1>2 DEF Sends
<1>5. \A c \in Channel, x \in Exchange : Asks(c, x)' => Asks(c, x)
  BY <1>2 DEF Asks
<1>6. \A c \in Channel : EndOf(c[1], c[2])' = EndOf(c[1], c[2])
  BY <1>1 DEF EndOf, PeerOf
<1> QED
  BY <1>3, <1>4, <1>5, <1>6 DEF Shrinks

LEMMA CloseShrinks ==
    ASSUME NetOK, ChannelsOK, NEW sides \in SUBSET (Session \X Node), Close(sides)
    PROVE  Shrinks
<1> DEFINE gone == {s \in Session : \A n \in Node : <<s, n>> \notin open \ sides}
<1>1. /\ chan' = [c \in Session \X Node |->
                     IF c \in sides \/ c[1] \in gone THEN <<>> ELSE chan[c]]
      /\ reading' = reading \ sides
      /\ opener' = [s \in Session |-> IF s \in gone THEN NoEnd ELSE opener[s]]
  BY DEF Close
<1>2. \A c \in Channel : chan'[c] = IF c \in sides \/ c[1] \in gone THEN <<>> ELSE chan[c]
  BY <1>1 DEF Channel
<1> HIDE DEF gone
<1>3. ChannelsOK'
  <2> SUFFICES ASSUME NEW c \in Channel
               PROVE  /\ chan'[c] # <<>> => c \in reading'
                      /\ \A i \in DOMAIN chan'[c] : chan'[c][i].type = "Request" => i = 1
    BY DEF ChannelsOK
  <2>1. CASE c \in sides \/ c[1] \in gone
    BY <2>1, <1>2
  <2>2. CASE c \notin sides /\ c[1] \notin gone
    BY <2>2, <1>1, <1>2 DEF ChannelsOK
  <2> QED
    BY <2>1, <2>2
<1>4. \A c \in Channel : \A msg : Sends(c, msg)' => Sends(c, msg)
  BY <1>2 DEF Sends
<1>5. \A c \in Channel, x \in Exchange : Asks(c, x)' => Asks(c, x) /\ c[1] \notin gone
  BY <1>2 DEF Asks
<1>6. \A c \in Channel : c[1] \notin gone => EndOf(c[1], c[2])' = EndOf(c[1], c[2])
  BY <1>1 DEF EndOf, PeerOf, Channel
<1> QED
  BY <1>3, <1>4, <1>5, <1>6 DEF Shrinks

LEMMA StillShrinks == ASSUME ChannelsOK, UNCHANGED netVars PROVE Shrinks
BY DEF netVars, ChannelsOK, Shrinks, Sends, Asks, EndOf, PeerOf

(* The reply goes to the other end of the relation, over any session.      *)
LEMMA RepliedGains ==
    ASSUME NetOK, ChannelsOK, NEW s \in Session, NEW n \in Node, Readable(s, n),
           NEW msgs \in Seq(Message), msgs # <<>>, Replied(s, n, msgs),
           \A i \in DOMAIN msgs : msgs[i].type # "Request"
    PROVE  /\ ChannelsOK'
           /\ \A c \in Channel, msg \in Message :
                 Sends(c, msg)' => Sends(c, msg) \/ \E i \in DOMAIN msgs : msgs[i] = msg
           /\ \A c \in Channel, x \in Exchange :
                 Asks(c, x)' => Asks(c, x) /\ EndOf(c[1], c[2])' = EndOf(c[1], c[2])
           /\ \A x \in Exchange : ~Asks(<<s, n>>, x)'
<1> DEFINE q == chan[<<s, n>>]
           old == Taken(s, n)
<1>1. q \in Seq(Message) /\ q # <<>> /\ <<s, n>> \in Channel /\ <<s, n>> \in reading
  BY DEF NetOK, Channel, Readable
<1>2. /\ Tail(q) \in Seq(Message)
      /\ Len(Tail(q)) = Len(q) - 1
      /\ \A i \in DOMAIN Tail(q) : Tail(q)[i] = q[i + 1] /\ i + 1 \in DOMAIN q
  BY <1>1
<1>3. \A i \in DOMAIN Tail(q) : Tail(q)[i].type # "Request"
  BY <1>1, <1>2 DEF ChannelsOK
<1>4. PICK t \in Session : chan' = Carry(Taken(s, n), t, PeerOf(s, n), msgs)
  BY DEF Replied, Routes
<1>5. /\ \A c \in Channel : old[c] = IF c = <<s, n>> THEN Tail(q) ELSE chan[c]
      /\ \A c \in Channel : old[c] \in Seq(Message)
  BY <1>1, <1>2 DEF Taken, NetOK, Channel
<1>6. UNCHANGED <<opener, reading>>
  BY DEF Replied
<1>7. \A c \in Channel :
          \/ chan'[c] = old[c]
          \/ chan'[c] = old[c] \o msgs /\ c \in reading
  <2>1. old \in [Session \X Node -> Seq(Message)]
    BY TakenType
  <2> QED
    BY <2>1, <1>4 DEF Carry, Channel
<1>8. \A c \in Channel : /\ old[c] # <<>> => c \in reading
                         /\ \A i \in DOMAIN old[c] : old[c][i].type = "Request" => i = 1 /\ old[c] = chan[c]
                         /\ \A i \in DOMAIN old[c] : \E j \in DOMAIN chan[c] : chan[c][j] = old[c][i]
  <2> SUFFICES ASSUME NEW c \in Channel
               PROVE  /\ old[c] # <<>> => c \in reading
                      /\ \A i \in DOMAIN old[c] : old[c][i].type = "Request" => i = 1 /\ old[c] = chan[c]
                      /\ \A i \in DOMAIN old[c] : \E j \in DOMAIN chan[c] : chan[c][j] = old[c][i]
    OBVIOUS
  <2>1. CASE c = <<s, n>>
    BY <2>1, <1>1, <1>2, <1>3, <1>5
  <2>2. CASE c # <<s, n>>
    BY <2>2, <1>5 DEF ChannelsOK
  <2> QED
    BY <2>1, <2>2
<1> HIDE DEF old
<1>9. \A c \in Channel : \A i \in DOMAIN chan'[c] :
          \/ i \in DOMAIN old[c] /\ chan'[c][i] = old[c][i]
          \/ \E j \in DOMAIN msgs : chan'[c][i] = msgs[j]
  <2> SUFFICES ASSUME NEW c \in Channel, NEW i \in DOMAIN chan'[c]
               PROVE  \/ i \in DOMAIN old[c] /\ chan'[c][i] = old[c][i]
                      \/ \E j \in DOMAIN msgs : chan'[c][i] = msgs[j]
    OBVIOUS
  <2>1. CASE chan'[c] = old[c]
    BY <2>1
  <2>2. CASE chan'[c] = old[c] \o msgs
    <3>1. old[c] \in Seq(Message)
      BY <1>5
    <3>2. i \in 1..Len(old[c]) + Len(msgs)
      BY <2>2, <3>1
    <3>3. CASE i <= Len(old[c])
      BY <3>1, <3>2, <3>3, <2>2
    <3>4. CASE i > Len(old[c])
      <4>1. i - Len(old[c]) \in DOMAIN msgs /\ chan'[c][i] = msgs[i - Len(old[c])]
        BY <3>1, <3>2, <3>4, <2>2
      <4> QED
        BY <4>1
    <3> QED
      BY <3>1, <3>2, <3>3, <3>4
  <2> QED
    BY <2>1, <2>2, <1>7
<1>10. ChannelsOK'
  <2> SUFFICES ASSUME NEW c \in Channel
               PROVE  /\ chan'[c] # <<>> => c \in reading'
                      /\ \A i \in DOMAIN chan'[c] : chan'[c][i].type = "Request" => i = 1
    BY DEF ChannelsOK
  <2>1. chan'[c] # <<>> => c \in reading'
    BY <1>6, <1>7, <1>8
  <2>2. \A i \in DOMAIN chan'[c] : chan'[c][i].type = "Request" => i = 1
    BY <1>8, <1>9
  <2> QED
    BY <2>1, <2>2
<1>11. \A c \in Channel, msg \in Message :
           Sends(c, msg)' => Sends(c, msg) \/ \E i \in DOMAIN msgs : msgs[i] = msg
  <2> SUFFICES ASSUME NEW c \in Channel, NEW msg \in Message,
                      NEW i \in DOMAIN chan'[c], chan'[c][i] = msg
               PROVE  Sends(c, msg) \/ \E j \in DOMAIN msgs : msgs[j] = msg
    BY DEF Sends
  <2> QED
    BY <1>8, <1>9 DEF Sends
<1>12. ASSUME NEW c \in Channel, NEW x \in Exchange, Asks(c, x)'
       PROVE  Asks(c, x) /\ c # <<s, n>>
  <2>1. chan'[c] \in Seq(Message) /\ chan'[c] # <<>>
    BY <1>5, <1>7, <1>12, ConcatProperties DEF Asks
  <2>2. 1 \in DOMAIN chan'[c] /\ chan'[c][1] = Msg("Request", x)
    BY <2>1, <1>12 DEF Asks
  <2>3. chan'[c][1].type = "Request"
    BY <2>2 DEF Msg
  <2>4. 1 \in DOMAIN old[c] /\ old[c][1] = Msg("Request", x) /\ old[c][1].type = "Request"
    BY <2>2, <2>3, <1>9
  <2>5. old[c] = chan[c] /\ chan[c] \in Seq(Message)
    BY <2>4, <1>5, <1>8
  <2>6. Asks(c, x)
    BY <2>4, <2>5 DEF Asks
  <2>7. c # <<s, n>>
    BY <2>4, <1>3, <1>5
  <2> QED
    BY <2>6, <2>7
<1>13. \A c \in Channel : EndOf(c[1], c[2])' = EndOf(c[1], c[2])
  BY <1>6 DEF EndOf, PeerOf
<1> QED
  BY <1>1, <1>10, <1>11, <1>12, <1>13

-------------------------------------------------------------------------------
(***************************************************************************)
(* Facts of the invariant.                                                 *)
(***************************************************************************)
LEMMA AsksEnd ==
    ASSUME NetOK, ChannelsOK, NEW owner, Owned(owner),
           NEW c \in Channel, NEW x \in Exchange, Asks(c, x)
    PROVE  EndOf(c[1], c[2]) \in End /\ owner[x] \in End /\ x # 0
<1>1. c[1] \in Session /\ c[2] \in Node /\ <<c[1], c[2]>> = c /\ c \in open
  BY DEF Channel, Asks, ChannelsOK, NetOK
<1>2. EndOf(c[1], c[2]) \in End
  BY <1>1, EndOfType
<1>3. owner[x] \in End
  BY <1>2, RevType DEF Owned, AsksOK
<1> QED
  BY <1>2, <1>3, NoEndIsNone DEF Owned, OwnerOK

(* Nobody is granted, accepts or answers the key of no exchange.           *)
LEMMA NoneIsUnused ==
    ASSUME NEW owner, Owned(owner)
    PROVE  /\ 0 \notin Answered
           /\ \A e \in End : <<e, 0>> \notin granted
           /\ \A e \in End : strategy[e].role = "initiator" => strategy[e].own # 0
<1>1. owner[0] \notin End
  BY NoEndIsNone DEF Owned, OwnerOK
<1>2. 0 \notin Answered
  BY <1>1 DEF Owned, GrantedOK
<1>3. \A e \in End : <<e, 0>> \notin granted
  BY <1>1, RevType, ExchangeType DEF Owned, GrantedOK
<1>4. ASSUME NEW e \in End, strategy[e].role = "initiator" PROVE strategy[e].own # 0
  <2>1. InitiatorOK(owner, e)
    BY <1>4 DEF Owned, StrategyOK
  <2> QED
    BY <2>1, <1>1 DEF InitiatorOK
<1> QED
  BY <1>2, <1>3, <1>4

Held(e, x) ==
    strategy[e].role = "initiator" /\ strategy[e].own = x /\ strategy[e].stage = "Complete"

(* While nothing is granted, the relations only lose what they are about.  *)
LEMMA RelationsKept ==
    ASSUME NEW owner, Owned(owner), RelationsOK, DialsUnused', granted' = granted,
           \A f \in End : IsAnswered(f)' => IsAnswered(f),
           \A f \in End : IsBlocked(f) => IsBlocked(f)' \/ ~IsAnswered(f)',
           \A f \in End, x \in Exchange : x # 0 /\ Accepted(f, x)' => Accepted(f, x),
           \A f \in End, x \in Exchange : Held(f, x) => Held(f, x)' \/ ~IsAnswered(f)'
    PROVE  RelationsOK'
<1>1. \A f \in End, x \in Exchange : <<f, x>> \in granted => x # 0
  BY NoneIsUnused
<1>2. AcceptedIsHeld'
  <2> SUFFICES ASSUME NEW f \in End, NEW x \in Exchange,
                      Accepted(f, x)', <<Rev(f), x>> \in granted, IsAnswered(Rev(f))'
               PROVE  Held(Rev(f), x)'
    BY DEF AcceptedIsHeld, Held
  <2>1. Rev(f) \in End
    BY RevType
  <2>2. Accepted(f, x) /\ IsAnswered(Rev(f))
    BY <2>1, <1>1
  <2>3. Held(Rev(f), x)
    BY <2>2 DEF RelationsOK, AcceptedIsHeld, Held
  <2> QED
    BY <2>1, <2>3
<1>3. OneIsBlocked'
  BY RevType DEF RelationsOK, OneIsBlocked
<1>4. OneIsAccepted'
  <2> SUFFICES ASSUME NEW f \in End, NEW x \in Exchange, NEW y \in Exchange,
                      Accepted(f, x)', <<Rev(f), x>> \in granted, Accepted(Rev(f), y)',
                      <<f, y>> \in granted
               PROVE  FALSE
    BY DEF OneIsAccepted
  <2>1. Accepted(f, x) /\ Accepted(Rev(f), y)
    BY <1>1, RevType
  <2> QED
    BY <2>1 DEF RelationsOK, OneIsAccepted
<1> QED
  BY <1>2, <1>3, <1>4 DEF RelationsOK

-------------------------------------------------------------------------------
(***************************************************************************)
(* The steps that authorize nobody and begin and ask for no exchange: what *)
(* they may do to an end.                                                  *)
(***************************************************************************)
Kept(f) == strategy'[f] = strategy[f] /\ state'[f] = state[f] /\ (f \in tracked' <=> f \in tracked)

Dropped(f) ==
    /\ strategy'[f] = NoStrategy
    /\ state'[f] = "Unauthorized"
    /\ \/ strategy[f].stage # "Complete" /\ f \in tracked'
       \/ resolving'[f] = 0

Linked(f) ==
    /\ f \notin tracked /\ f \in tracked'
    /\ state'[f] = state[f]
    /\ \/ strategy'[f] = Accepting
       \/ strategy'[f] = Initiating(resolving[f]) /\ resolving[f] # 0 /\ resolving'[f] = 0

Quiet ==
    /\ UNCHANGED <<granted, exchanges>>
    /\ resolving' \in [End -> Exchange]
    /\ strategy' \in [End -> Strategy]
    /\ \A f \in End : resolving'[f] \in {0, resolving[f]}
    /\ \A f \in End : Kept(f) \/ Dropped(f) \/ Linked(f)
    /\ \A d \in dials' : \/ d \in dials
                         \/ d.exchange = 0 /\ ~(d.step = "connecting" /\ d.via = "address")

(* All but what is asked.                                                  *)
LEMMA QuietKeepsRest ==
    ASSUME IInv, IInv', ChannelsOK, NEW owner, Owned(owner), RelationsOK, Quiet,
           Answered' \subseteq Answered, Proven' \subseteq Proven
    PROVE  /\ OwnerOK(owner)' /\ DialsOK(owner)' /\ ResolvingOK(owner)' /\ GrantedOK(owner)'
           /\ StrategyOK(owner)' /\ RelationsOK'
           /\ \A x \in Exchange : x # 0 /\ Unused(x) => Unused(x)'
<1>1. UNCHANGED <<granted, exchanges>>
  BY DEF Quiet
<1>2. /\ NetOK /\ PeersOK /\ RestOK
      /\ strategy \in [End -> Strategy] /\ strategy' \in [End -> Strategy]
      /\ resolving \in [End -> Exchange] /\ resolving' \in [End -> Exchange]
  BY DEF Quiet, IInv, RestOK, PeersOK
<1>3. ASSUME NEW f \in End
      PROVE  \/ Kept(f)
             \/ Dropped(f)
             \/ /\ Linked(f)
                /\ strategy[f].role = "none" /\ strategy[f].stage = "Initialization"
                /\ state[f] # "Authorized"
  BY <1>3 DEF Quiet, Linked, Owned, StrategyOK
<1>4. \A f \in End : IsAnswered(f)' => IsAnswered(f)
  <2> SUFFICES ASSUME NEW f \in End, IsAnswered(f)' PROVE IsAnswered(f)
    OBVIOUS
  <2>1. resolving'[f] \in Answered' => resolving[f] \in Answered
    BY <1>1, NoneIsUnused DEF Quiet
  <2>2. CASE Kept(f)
    BY <2>1, <2>2, <1>1 DEF Kept, IsAnswered
  <2>3. CASE Dropped(f)
    BY <2>1, <2>3 DEF Dropped, NoStrategy, IsAnswered
  <2>4. CASE Linked(f)
    BY <2>1, <2>4, <1>1 DEF Linked, Accepting, Initiating, IsAnswered
  <2> QED
    BY <2>2, <2>3, <2>4, <1>3
<1>5. \A f \in End : IsBlocked(f) => IsBlocked(f)' \/ ~IsAnswered(f)'
  <2> SUFFICES ASSUME NEW f \in End, IsBlocked(f), IsAnswered(f)' PROVE IsBlocked(f)'
    OBVIOUS
  <2>1. CASE Kept(f)
    BY <2>1 DEF Kept, IsBlocked
  <2>2. CASE Dropped(f)
    BY <2>2, <1>1, NoneIsUnused DEF Dropped, NoStrategy, IsBlocked, IsAnswered
  <2> QED
    BY <2>1, <2>2, <1>3 DEF Linked, IsBlocked
<1>6. \A f \in End, x \in Exchange : x # 0 /\ Accepted(f, x)' => Accepted(f, x)
  <2> SUFFICES ASSUME NEW f \in End, NEW x \in Exchange, x # 0, Accepted(f, x)'
               PROVE  Accepted(f, x)
    OBVIOUS
  <2>1. CASE Kept(f)
    BY <2>1 DEF Kept, Accepted
  <2>2. CASE Dropped(f)
    BY <2>2 DEF Dropped, NoStrategy, Accepted
  <2>3. CASE Linked(f)
    BY <2>3 DEF Linked, Accepting, Initiating, Accepted
  <2> QED
    BY <2>1, <2>2, <2>3, <1>3
<1>7. \A f \in End, x \in Exchange : Held(f, x) => Held(f, x)' \/ ~IsAnswered(f)'
  <2> SUFFICES ASSUME NEW f \in End, NEW x \in Exchange, Held(f, x), IsAnswered(f)'
               PROVE  Held(f, x)'
    OBVIOUS
  <2>1. CASE Kept(f)
    BY <2>1 DEF Kept, Held
  <2>2. CASE Dropped(f)
    BY <2>2, <1>1, NoneIsUnused DEF Dropped, NoStrategy, Held, IsAnswered
  <2> QED
    BY <2>1, <2>2, <1>3 DEF Held
<1>8. ASSUME NEW x \in Exchange, x # 0, Unused(x) PROVE Unused(x)'
  BY <1>8, <1>1, <1>6, <1>2 DEF Unused, Accepted
<1>9. DialsUnused'
  <2> SUFFICES ASSUME NEW d \in dials', d.exchange # 0
               PROVE  /\ Unused(d.exchange)'
                      /\ \A other \in dials' : other.exchange = d.exchange => other = d
    BY DEF DialsUnused
  <2>1. d \in dials /\ d.exchange \in Exchange
    BY <1>2 DEF Quiet, RestOK, Dial
  <2>2. Unused(d.exchange) /\ \A other \in dials : other.exchange = d.exchange => other = d
    BY <2>1 DEF RelationsOK, DialsUnused
  <2> QED
    BY <2>1, <2>2, <1>8 DEF Quiet
<1>10. OwnerOK(owner)' /\ DialsOK(owner)' /\ ResolvingOK(owner)' /\ GrantedOK(owner)'
  <2>1. OwnerOK(owner)'
    BY <1>1 DEF Owned, OwnerOK
  <2>2. DialsOK(owner)'
    BY DEF Owned, DialsOK, Quiet
  <2>3. ResolvingOK(owner)'
    BY <1>1 DEF Owned, ResolvingOK, Quiet
  <2>4. GrantedOK(owner)'
    BY <1>1 DEF Owned, GrantedOK
  <2> QED
    BY <2>1, <2>2, <2>3, <2>4
<1>11. StrategyOK(owner)'
  <2> SUFFICES ASSUME NEW f \in End
               PROVE  (/\ strategy[f].role = "none" => strategy[f].stage = "Initialization"
                       /\ strategy[f].role # "none" => f \in tracked
                       /\ strategy[f].role = "initiator" => InitiatorOK(owner, f)
                       /\ strategy[f].role = "acceptor" => AcceptorOK(owner, f)
                       /\ strategy[f].stage = "Complete" <=> state[f] = "Authorized"
                       /\ strategy[f].stage = "Complete" => <<f, strategy[f].key>> \in granted)'
    BY DEF StrategyOK
  <2>1. CASE Kept(f)
    <3>1. strategy[f].role = "initiator" => InitiatorOK(owner, f) /\ strategy[f].own # 0
      BY NoneIsUnused DEF Owned, StrategyOK
    <3>2. strategy[f].role = "initiator" => InitiatorOK(owner, f)'
      BY <3>1, <2>1, <1>1 DEF Kept, InitiatorOK, Quiet
    <3>3. strategy[f].role = "acceptor" => AcceptorOK(owner, f)'
      BY <2>1, <1>1 DEF Kept, AcceptorOK, Owned, StrategyOK
    <3> QED
      BY <3>2, <3>3, <2>1, <1>1 DEF Kept, Owned, StrategyOK
  <2>2. CASE Dropped(f)
    BY <2>2 DEF Dropped, NoStrategy
  <2>3. CASE Linked(f) /\ state[f] # "Authorized" /\ strategy'[f] = Accepting
    BY <2>3 DEF Linked, Accepting, AcceptorOK
  <2>4. CASE /\ Linked(f) /\ state[f] # "Authorized"
             /\ strategy'[f] = Initiating(resolving[f]) /\ resolving[f] # 0 /\ resolving'[f] = 0
    <3>1. owner[resolving[f]] = f /\ <<f, resolving[f]>> \notin granted
      BY <2>4 DEF Owned, ResolvingOK
    <3> QED
      BY <3>1, <2>4, <1>1 DEF Linked, Initiating, InitiatorOK
  <2> QED
    BY <2>1, <2>2, <2>3, <2>4, <1>3 DEF Linked
<1>12. RelationsOK'
  BY <1>1, <1>4, <1>5, <1>6, <1>7, <1>9, RelationsKept
<1> QED
  BY <1>8, <1>10, <1>11, <1>12

LEMMA QuietKeeps ==
    ASSUME IInv, IInv', ChannelsOK, NEW owner, Owned(owner), RelationsOK, Gains({}, {}), Quiet
    PROVE  Owned(owner)' /\ RelationsOK'
<1>1. /\ Answered' \subseteq Answered /\ Proven' \subseteq Proven
      /\ \A c \in Channel, x \in Exchange :
            Asks(c, x)' => Asks(c, x) /\ EndOf(c[1], c[2])' = EndOf(c[1], c[2])
  BY DEF Gains
<1>2. /\ OwnerOK(owner)' /\ DialsOK(owner)' /\ ResolvingOK(owner)' /\ GrantedOK(owner)'
      /\ StrategyOK(owner)' /\ RelationsOK'
      /\ \A x \in Exchange : x # 0 /\ Unused(x) => Unused(x)'
  BY <1>1, QuietKeepsRest
<1>3. NetOK
  BY DEF IInv
<1>4. AsksOK(owner)'
  <2> SUFFICES ASSUME NEW c \in Channel, NEW x \in Exchange, Asks(c, x)'
               PROVE  /\ owner[x] = Rev(EndOf(c[1], c[2])')
                      /\ Unused(x)'
                      /\ \A other \in Channel : Asks(other, x)' => other = c
                      /\ \A d \in dials' : d.exchange # x
    BY DEF AsksOK, Rev
  <2>1. Asks(c, x) /\ EndOf(c[1], c[2])' = EndOf(c[1], c[2])
    BY <1>1
  <2>2. /\ owner[x] = Rev(EndOf(c[1], c[2]))
        /\ Unused(x)
        /\ \A other \in Channel : Asks(other, x) => other = c
        /\ \A d \in dials : d.exchange # x
    BY <2>1 DEF Owned, AsksOK
  <2>3. x # 0
    BY <2>1, <1>3, AsksEnd
  <2>4. Unused(x)'
    BY <2>2, <2>3, <1>2
  <2> QED
    BY <2>1, <2>2, <2>3, <2>4, <1>1 DEF Quiet
<1> QED
  BY <1>2, <1>4 DEF Owned

-------------------------------------------------------------------------------
(***************************************************************************)
(* Which steps are quiet.                                                  *)
(***************************************************************************)
LEMMA StillQuiet ==
    ASSUME IInv, UNCHANGED <<granted, exchanges, strategy, state, tracked>>,
           \/ resolving' = resolving
           \/ \E e \in End : resolving' = [resolving EXCEPT ![e] = 0],
           \A d \in dials' : \/ d \in dials
                             \/ d.exchange = 0 /\ ~(d.step = "connecting" /\ d.via = "address")
    PROVE  Quiet
<1>1. resolving' \in [End -> Exchange] /\ \A f \in End : resolving'[f] \in {0, resolving[f]}
  BY ExchangeType DEF IInv, RestOK
<1>2. strategy' \in [End -> Strategy]
  BY DEF IInv, PeersOK
<1> QED
  BY <1>1, <1>2 DEF Quiet, Kept

LEMMA NewDialQuiet ==
    ASSUME NEW e, NEW via
    PROVE  NewDial(e, via).exchange = 0 /\ NewDial(e, via).step # "connecting"
BY DEF NewDial

LEMMA DialingQuiet ==
    ASSUME IInv, ChannelsOK, NEW d \in dials,
           \/ Connect(d)
           \/ DeclareResolvingPeer(d) /\ exchanges' = exchanges
           \/ ConnectFails(d)
    PROVE  Quiet /\ Gains({}, {})
<1>1. d \in Dial /\ d.end \in End
  BY DialType, ExchangeType DEF IInv, RestOK, Dial
<1>2. Gains({}, {})
  BY StillShrinks, ShrinksGains DEF Connect, DeclareResolvingPeer, ConnectFails
<1>3. CASE Connect(d)
  <2>1. \A f \in dials' : f \in dials \/ f = [d EXCEPT !.step = "resolving", !.exchange = 0]
    BY <1>3 DEF Connect, Advance
  <2>2. /\ [d EXCEPT !.step = "resolving", !.exchange = 0].exchange = 0
        /\ [d EXCEPT !.step = "resolving", !.exchange = 0].step = "resolving"
    BY <1>1 DEF Dial
  <2> QED
    BY <2>1, <2>2, <1>2, <1>3, StillQuiet DEF Connect, nodeVars
<1>4. CASE DeclareResolvingPeer(d) /\ exchanges' = exchanges
  <2>1. exchanges \in Nat
    BY ExchangeType DEF IInv, RestOK
  <2>2. \/ dials' = dials \ {d} /\ UNCHANGED resolving
        \/ d.via = "identifier" /\ Advance(d, "connecting", 0) /\ UNCHANGED resolving
    BY <2>1, <1>4 DEF DeclareResolvingPeer
  <2>3. CASE dials' = dials \ {d} /\ UNCHANGED resolving
    BY <2>3, <1>2, <1>4, StillQuiet DEF DeclareResolvingPeer, nodeVars
  <2>4. CASE d.via = "identifier" /\ Advance(d, "connecting", 0) /\ UNCHANGED resolving
    <3>1. \A f \in dials' : f \in dials \/ f = [d EXCEPT !.step = "connecting", !.exchange = 0]
      BY <2>4 DEF Advance
    <3>2. /\ [d EXCEPT !.step = "connecting", !.exchange = 0].exchange = 0
          /\ [d EXCEPT !.step = "connecting", !.exchange = 0].via = "identifier"
      BY <1>1, <2>4 DEF Dial
    <3> QED
      BY <3>1, <3>2, <2>4, <1>2, <1>4, StillQuiet DEF DeclareResolvingPeer, nodeVars
  <2> QED
    BY <2>2, <2>3, <2>4
<1>5. CASE ConnectFails(d)
  BY <1>5, <1>1, <1>2, StillQuiet DEF ConnectFails, nodeVars
<1> QED
  BY <1>3, <1>4, <1>5

LEMMA ScheduleConnectQuiet ==
    ASSUME IInv, ChannelsOK, NEW e \in End, ScheduleConnect(e)
    PROVE  Quiet /\ Gains({}, {})
<1>1. Gains({}, {})
  BY StillShrinks, ShrinksGains DEF ScheduleConnect
<1> QED
  BY <1>1, StillQuiet, NewDialQuiet DEF ScheduleConnect, nodeVars

(* A peer that is not tracked has no strategy yet.                         *)
LEMMA LinkPeerQuiet ==
    ASSUME IInv, ChannelsOK, NEW s \in Session, NEW n \in Node, LinkPeer(s, n)
    PROVE  Quiet /\ Gains({}, {})
<1> DEFINE e == EndOf(s, n)
           pending == IF KindOf(s, n) = "client" THEN resolving[e] ELSE 0
<1>1. NetOK /\ PeersOK /\ RestOK /\ Readable(s, n)
  BY DEF IInv, LinkPeer
<1>2. e \in End
  BY <1>1, ReadableType, EndOfType
<1>3. UNCHANGED <<opener, reading, chan>>
  BY DEF LinkPeer
<1>4. Gains({}, {})
  <2>1. Shrinks
    BY <1>3 DEF ChannelsOK, Shrinks, Sends, Asks, EndOf, PeerOf
  <2> QED
    BY <2>1, ShrinksGains
<1>5. resolving' = resolving \/ resolving' = [resolving EXCEPT ![e] = 0]
  BY DEF LinkPeer
<1>6. CASE UNCHANGED nodeVars
  BY <1>2, <1>4, <1>5, <1>6, StillQuiet DEF LinkPeer, nodeVars
<1>7. CASE /\ e \notin tracked
           /\ tracked' = tracked \cup {e}
           /\ strategy' = [strategy EXCEPT ![e] = MediatorFor(pending)]
           /\ UNCHANGED state
  <2>1. resolving' \in [End -> Exchange] /\ \A f \in End : resolving'[f] \in {0, resolving[f]}
    BY <1>1, <1>2, <1>5, ExchangeType DEF RestOK
  <2>2. strategy' \in [End -> Strategy]
    <3>1. pending \in Exchange
      BY <1>1, <1>2, ExchangeType DEF RestOK
    <3>2. MediatorFor(pending) \in Strategy
      BY <3>1, NewStrategyType DEF MediatorFor
    <3> QED
      BY <1>1, <1>7, <3>2 DEF PeersOK
  <2>3. Linked(e)
    <3>1. strategy'[e] = MediatorFor(pending)
      BY <1>1, <1>2, <1>7 DEF PeersOK
    <3>2. CASE pending = 0
      BY <3>1, <3>2, <1>7 DEF MediatorFor, Linked
    <3>3. CASE pending # 0
      <4>1. KindOf(s, n) = "client" /\ pending = resolving[e]
        BY <3>3
      <4>2. resolving'[e] = 0
        BY <4>1, <1>1, <1>2 DEF LinkPeer, RestOK
      <4> QED
        BY <3>1, <3>3, <4>1, <4>2, <1>7 DEF MediatorFor, Linked
    <3> QED
      BY <3>2, <3>3
  <2>4. \A f \in End : f # e => Kept(f)
    BY <1>1, <1>7 DEF PeersOK, Kept
  <2> QED
    BY <2>1, <2>2, <2>3, <2>4, <1>4 DEF LinkPeer, Quiet
<1> QED
  BY <1>6, <1>7 DEF LinkPeer

LEMMA RefusesQuiet ==
    ASSUME IInv, ChannelsOK, NEW s \in Session, NEW n \in Node,
           NoSink(s, n) \/ ExchangeRefuses(s, n)
    PROVE  Quiet /\ Gains({}, {})
<1>1. Refused(s, n) /\ UNCHANGED <<granted, exchanges, strategy, state, tracked, resolving, dials>>
  BY DEF NoSink, ExchangeRefuses, nodeVars
<1>2. Gains({}, {})
  BY <1>1, RefusedShrinks, ShrinksGains DEF IInv
<1> QED
  BY <1>1, <1>2, StillQuiet

LEMMA AuthorizedQueuesQuiet ==
    ASSUME IInv, ChannelsOK, NEW s \in Session, NEW n \in Node, AuthorizedQueues(s, n)
    PROVE  Quiet /\ Gains({}, {})
<1>1. UNCHANGED <<granted, exchanges, strategy, state, tracked, resolving, dials>>
  BY DEF AuthorizedQueues, nodeVars
<1>2. NetOK /\ Readable(s, n) /\ (Consumed(s, n) \/ Refused(s, n))
  BY ReachesType DEF AuthorizedQueues
<1>3. Gains({}, {})
  BY <1>2, TakenShrinks, RefusedShrinks, ShrinksGains
<1> QED
  BY <1>1, <1>3, StillQuiet

(* A reply that is no handshake message gains nothing.                     *)
LEMMA OthersGain ==
    ASSUME NEW msgs \in Seq(Message),
           \A i \in DOMAIN msgs : ~IsHandshake(msgs[i]),
           ChannelsOK',
           \A c \in Channel, msg \in Message :
              Sends(c, msg)' => Sends(c, msg) \/ \E i \in DOMAIN msgs : msgs[i] = msg,
           \A c \in Channel, x \in Exchange :
              Asks(c, x)' => Asks(c, x) /\ EndOf(c[1], c[2])' = EndOf(c[1], c[2])
    PROVE  Gains({}, {})
<1>1. \A x \in Exchange : /\ Msg("Response", x) \in Message /\ IsHandshake(Msg("Response", x))
                          /\ Msg("Verification", x) \in Message /\ IsHandshake(Msg("Verification", x))
  BY MsgType DEF Msg, IsHandshake
<1>2. Answered' \subseteq Answered /\ Proven' \subseteq Proven
  BY <1>1 DEF Answered, Proven
<1> QED
  BY <1>2 DEF Gains

LEMMA AuthorizedAnswersQuiet ==
    ASSUME IInv, ChannelsOK, NEW s \in Session, NEW n \in Node, AuthorizedAnswers(s, n)
    PROVE  Quiet /\ Gains({}, {})
<1>1. UNCHANGED <<granted, exchanges, strategy, state, tracked, resolving, dials>>
  BY DEF AuthorizedAnswers, nodeVars
<1>2. NetOK /\ Readable(s, n)
  BY ReachesType DEF AuthorizedAnswers
<1>3. CASE Consumed(s, n)
  BY <1>1, <1>2, <1>3, TakenShrinks, ShrinksGains, StillQuiet
<1>4. ASSUME NEW type \in {"HeartbeatRequest", "HeartbeatResponse"},
             Replied(s, n, <<Msg(type, 0)>>)
      PROVE  Gains({}, {})
  <2> DEFINE msgs == <<Msg(type, 0)>>
  <2>1. msgs \in Seq(Message) /\ msgs # <<>>
    BY MsgType, ExchangeType
  <2>2. \A i \in DOMAIN msgs : msgs[i].type = type /\ ~IsHandshake(msgs[i])
    BY DEF Msg, IsHandshake
  <2> HIDE DEF msgs
  <2>3. \A i \in DOMAIN msgs : msgs[i].type # "Request"
    BY <2>2
  <2> QED
    BY <1>2, <1>4, <2>1, <2>2, <2>3, RepliedGains, OthersGain DEF msgs
<1>5. Consumed(s, n) \/ Gains({}, {})
  BY <1>4 DEF AuthorizedAnswers
<1> QED
  BY <1>1, <1>3, <1>5, StillQuiet

LEMMA OnSessionStoppedQuiet ==
    ASSUME IInv, ChannelsOK, NEW s \in Session, NEW n \in Node,
           SessionEnds(s, n) \/ SessionFails(s, n)
    PROVE  Quiet /\ Gains({}, {})
<1>1. OnSessionStopped(s, n)
  BY DEF SessionEnds, SessionFails
<1>2. UNCHANGED <<granted, exchanges, strategy, state, tracked, resolving, dials>>
  BY <1>1 DEF OnSessionStopped, nodeVars
<1>3. Gains({}, {})
  BY <1>1, CloseShrinks, ShrinksGains DEF OnSessionStopped, IInv
<1> QED
  BY <1>2, <1>3, StillQuiet

LEMMA SynchronizeFailsQuiet ==
    ASSUME IInv, IInv', ChannelsOK, NEW owner, Owned(owner),
           NEW s \in Session, NEW n \in Node, SynchronizeFails(s, n)
    PROVE  Quiet /\ Gains({}, {})
<1> DEFINE e == EndOf(s, n)
<1>1. /\ NetOK /\ PeersOK /\ RestOK /\ e \in End
      /\ receiver[e] = "processor" /\ processor[e] = "Synchronization"
  BY ReachesType DEF SynchronizeFails, Negotiates
<1>2. e \in tracked /\ state[e] # "Authorized"
  BY <1>1 DEF PeersOK, SinkMatchesMediator
<1>3. strategy[e].stage # "Complete"
  BY <1>1, <1>2 DEF Owned, StrategyOK
<1>4. /\ strategy' = [strategy EXCEPT ![e] = NoStrategy]
      /\ state' = [state EXCEPT ![e] = "Unauthorized"]
      /\ UNCHANGED <<tracked, granted, exchanges, dials, resolving>>
  BY DEF SynchronizeFails, Revoke
<1>5. Dropped(e) /\ \A f \in End : f # e => Kept(f)
  BY <1>1, <1>2, <1>3, <1>4 DEF PeersOK, Dropped, Kept
<1>6. strategy' \in [End -> Strategy]
  BY DEF IInv, PeersOK
<1>7. Quiet
  BY <1>1, <1>4, <1>5, <1>6 DEF Quiet, RestOK
<1> QED
  BY <1>1, <1>7, RefusedShrinks, ShrinksGains DEF SynchronizeFails

LEMMA RestartQuiet ==
    ASSUME IInv, IInv', ChannelsOK, NEW n \in Node, Restart(n)
    PROVE  Quiet /\ Gains({}, {})
<1>1. NetOK /\ PeersOK /\ RestOK
  BY DEF IInv
<1>2. Gains({}, {})
  <2>1. {c \in open : c[2] = n} \in SUBSET (Session \X Node)
    BY <1>1 DEF NetOK
  <2> QED
    BY <1>1, <2>1, CloseShrinks, ShrinksGains DEF Restart
<1>3. \A f \in End : Kept(f) \/ Dropped(f)
  BY DEF Restart, Kept, Dropped
<1>4. \A f \in End : resolving'[f] \in {0, resolving[f]}
  BY DEF Restart
<1>5. resolving' \in [End -> Exchange] /\ strategy' \in [End -> Strategy]
  BY DEF IInv, RestOK, PeersOK
<1>6. dials' \subseteq dials /\ UNCHANGED <<granted, exchanges>>
  BY DEF Restart
<1> QED
  BY <1>2, <1>3, <1>4, <1>5, <1>6 DEF Quiet

(* The discovery response is carried to whoever reads it.                  *)
LEMMA CarriedGains ==
    ASSUME NetOK, ChannelsOK, NEW t \in Session, NEW to, NEW msgs \in Seq(Message), msgs # <<>>,
           chan' = Carry(chan, t, to, msgs), UNCHANGED <<opener, reading>>,
           \A i \in DOMAIN msgs : ~IsHandshake(msgs[i])
    PROVE  Gains({}, {})
<1>1. \A c \in Channel :
          \/ chan'[c] = chan[c]
          \/ chan'[c] = chan[c] \o msgs /\ c \in reading
  BY DEF Carry, Channel, NetOK
<1>2. \A c \in Channel : chan[c] \in Seq(Message)
  BY DEF NetOK, Channel
<1>3. \A c \in Channel : \A i \in DOMAIN chan'[c] :
          \/ i \in DOMAIN chan[c] /\ chan'[c][i] = chan[c][i]
          \/ \E j \in DOMAIN msgs : chan'[c][i] = msgs[j]
  <2> SUFFICES ASSUME NEW c \in Channel, NEW i \in DOMAIN chan'[c]
               PROVE  \/ i \in DOMAIN chan[c] /\ chan'[c][i] = chan[c][i]
                      \/ \E j \in DOMAIN msgs : chan'[c][i] = msgs[j]
    OBVIOUS
  <2>1. CASE chan'[c] = chan[c]
    BY <2>1
  <2>2. CASE chan'[c] = chan[c] \o msgs
    <3>1. chan[c] \in Seq(Message) /\ i \in 1..Len(chan[c]) + Len(msgs)
      BY <1>2, <2>2
    <3>2. CASE i <= Len(chan[c])
      BY <3>1, <3>2, <2>2
    <3>3. CASE i > Len(chan[c])
      <4>1. i - Len(chan[c]) \in DOMAIN msgs /\ chan'[c][i] = msgs[i - Len(chan[c])]
        BY <3>1, <3>3, <2>2
      <4> QED
        BY <4>1
    <3> QED
      BY <3>1, <3>2, <3>3
  <2> QED
    BY <2>1, <2>2, <1>1
<1>4. \A i \in DOMAIN msgs : msgs[i].type # "Request"
  BY DEF IsHandshake
<1>5. ChannelsOK'
  <2> SUFFICES ASSUME NEW c \in Channel
               PROVE  /\ chan'[c] # <<>> => c \in reading'
                      /\ \A i \in DOMAIN chan'[c] : chan'[c][i].type = "Request" => i = 1
    BY DEF ChannelsOK
  <2> QED
    BY <1>1, <1>3, <1>4 DEF ChannelsOK
<1>6. \A c \in Channel, msg \in Message :
          Sends(c, msg)' => Sends(c, msg) \/ \E i \in DOMAIN msgs : msgs[i] = msg
  <2> SUFFICES ASSUME NEW c \in Channel, NEW msg \in Message,
                      NEW i \in DOMAIN chan'[c], chan'[c][i] = msg
               PROVE  Sends(c, msg) \/ \E j \in DOMAIN msgs : msgs[j] = msg
    BY DEF Sends
  <2> QED
    BY <1>3 DEF Sends
<1>7. ASSUME NEW c \in Channel, NEW x \in Exchange, Asks(c, x)'
      PROVE  Asks(c, x) /\ EndOf(c[1], c[2])' = EndOf(c[1], c[2])
  <2>1. chan'[c] \in Seq(Message) /\ chan'[c] # <<>>
    BY <1>1, <1>2, <1>7, ConcatProperties DEF Asks
  <2>2. 1 \in DOMAIN chan'[c] /\ chan'[c][1] = Msg("Request", x)
    BY <2>1, <1>7 DEF Asks
  <2>3. chan'[c][1].type = "Request"
    BY <2>2 DEF Msg
  <2>4. 1 \in DOMAIN chan[c] /\ chan[c][1] = Msg("Request", x)
    BY <2>2, <2>3, <1>3, <1>4
  <2>5. Asks(c, x)
    BY <2>4, <1>2 DEF Asks
  <2> QED
    BY <2>5 DEF EndOf, PeerOf
<1> QED
  BY <1>5, <1>6, <1>7, OthersGain

LEMMA HandleIncomingQuiet ==
    ASSUME IInv, ChannelsOK, NEW n \in Node, HandleIncoming(n)
    PROVE  Quiet /\ Gains({}, {})
<1> DEFINE item == Head(inbox[n])
           e == item.end
           response == <<Msg("DiscoveryResponse", strategy[e].key)>>
<1>1. NetOK /\ PeersOK /\ RestOK
  BY DEF IInv
<1>2. item \in Queued
  BY <1>1, HeadTailProperties DEF HandleIncoming, RestOK
<1>3. UNCHANGED <<granted, exchanges, strategy, state, tracked, resolving, opener, reading>>
  BY DEF HandleIncoming, nodeVars
<1>4. dials' = dials \/ dials' = dials \cup {NewDial(e, "identifier")}
  BY DEF HandleIncoming
<1>5. Quiet
  BY <1>3, <1>4, StillQuiet, NewDialQuiet
<1>6. \/ chan' = chan
      \/ \E t \in Session : chan' = Carry(chan, t, e[2], response)
  <2> DEFINE routes == IF <<e, item.kind>> \in registered THEN Routes(e, item.kind) ELSE {}
  <2>1. routes \subseteq Session
    BY DEF Routes
  <2> QED
    BY <2>1 DEF HandleIncoming
<1>7. CASE chan' = chan
  <2>1. Shrinks
    BY <1>3, <1>7 DEF ChannelsOK, Shrinks, Sends, Asks, EndOf, PeerOf
  <2> QED
    BY <2>1, <1>5, ShrinksGains
<1>8. CASE \E t \in Session : chan' = Carry(chan, t, e[2], response)
  <2>1. strategy[e].key \in Exchange
    BY <1>1, <1>2 DEF PeersOK, Queued, Strategy
  <2>2. response \in Seq(Message) /\ response # <<>>
    BY <2>1, MsgType
  <2>3. \A i \in DOMAIN response : ~IsHandshake(response[i])
    BY DEF Msg, IsHandshake
  <2> HIDE DEF response
  <2> QED
    BY <1>1, <1>3, <1>5, <1>8, <2>2, <2>3, CarriedGains
<1> QED
  BY <1>6, <1>7, <1>8

-------------------------------------------------------------------------------
(***************************************************************************)
(* An exchange begins: nobody has used its number, and its owner is the    *)
(* end that declares it.                                                   *)
(***************************************************************************)
LEMMA FreshIsUnused ==
    ASSUME IInv, NEW owner, Owned(owner), NEW k \in Exchange, k > exchanges
    PROVE  /\ owner[k] \notin End /\ k # 0
           /\ Unused(k)
           /\ \A e \in End : resolving[e] # k
           /\ \A e \in End : strategy[e].role = "initiator" => strategy[e].own # k
           /\ \A d \in dials : d.exchange # k
<1>1. exchanges \in Nat /\ k \in Nat /\ dials \subseteq Dial
  BY ExchangeType DEF IInv, RestOK
<1>2. owner[k] \notin End /\ k # 0
  BY <1>1, NoEndIsNone DEF Owned, OwnerOK
<1>3. k \notin Answered /\ \A e \in End : <<e, k>> \notin granted
  BY <1>2, RevType DEF Owned, GrantedOK
<1>4. ASSUME NEW e \in End, strategy[e].role = "acceptor" PROVE strategy[e].key # k
  <2>1. AcceptorOK(owner, e)
    BY <1>4 DEF Owned, StrategyOK
  <2> QED
    BY <2>1, <1>2, RevType DEF AcceptorOK
<1>5. ASSUME NEW e \in End, strategy[e].role = "initiator" PROVE strategy[e].own # k
  <2>1. InitiatorOK(owner, e)
    BY <1>5 DEF Owned, StrategyOK
  <2> QED
    BY <2>1, <1>2 DEF InitiatorOK
<1>6. \A e \in End : resolving[e] # k
  BY <1>2 DEF Owned, ResolvingOK
<1>7. \A d \in dials : d.exchange # k
  BY <1>1, <1>2 DEF Owned, DialsOK, Dial
<1> QED
  BY <1>2, <1>3, <1>4, <1>5, <1>6, <1>7 DEF Unused

LEMMA DeclareBegins ==
    ASSUME IInv, ChannelsOK, NEW owner \in [Exchange -> End \cup {NoEnd}], Owned(owner), RelationsOK,
           NEW d \in dials, DeclareResolvingPeer(d), exchanges' # exchanges
    PROVE  /\ ChannelsOK' /\ RelationsOK'
           /\ \E new \in [Exchange -> End \cup {NoEnd}] : Owned(new)'
<1> DEFINE k == exchanges + 1
           e == d.end
           moved == [d EXCEPT !.step = "connecting", !.exchange = k]
<1>1. /\ NetOK /\ PeersOK /\ RestOK /\ d \in Dial /\ e \in End
      /\ exchanges \in Nat /\ exchanges \in Exchange
      /\ resolving \in [End -> Exchange]
  BY ExchangeType DEF IInv, RestOK, Dial
<1>2. /\ resolving[e] = 0
      /\ exchanges < MaxExchanges
      /\ exchanges' = k
      /\ resolving' = [resolving EXCEPT ![e] = k]
      /\ dials' = (dials \ {d}) \cup {moved}
      /\ UNCHANGED <<strategy, state, tracked, granted>> /\ UNCHANGED netVars
  BY DEF DeclareResolvingPeer, Advance, nodeVars
<1>3. k \in Exchange /\ k > exchanges /\ k # 0
  BY <1>1, <1>2, ExchangeType
<1>4. /\ owner[k] \notin End
      /\ Unused(k)
      /\ \A f \in End : resolving[f] # k
      /\ \A f \in End : strategy[f].role = "initiator" => strategy[f].own # k
      /\ \A f \in dials : f.exchange # k
  BY <1>3, FreshIsUnused
<1>5. /\ moved \in Dial /\ moved.exchange = k /\ moved.end = e
  BY <1>1, <1>3 DEF Dial
<1>6. PICK new \in [Exchange -> End \cup {NoEnd}] :
          /\ new[k] = e
          /\ \A x \in Exchange : x # k => new[x] = owner[x]
          /\ \A x \in Exchange : owner[x] \in End => new[x] = owner[x]
  <2>1. /\ [owner EXCEPT ![k] = e] \in [Exchange -> End \cup {NoEnd}]
        /\ [owner EXCEPT ![k] = e][k] = e
        /\ \A x \in Exchange : x # k => [owner EXCEPT ![k] = e][x] = owner[x]
    BY <1>1, <1>3
  <2>2. \A x \in Exchange : owner[x] \in End => x # k
    BY <1>4
  <2> QED
    BY <2>1, <2>2
<1>7. Gains({}, {})
  BY <1>2, StillShrinks, ShrinksGains
<1>8. /\ Answered' \subseteq Answered /\ Proven' \subseteq Proven /\ ChannelsOK'
      /\ \A c \in Channel, x \in Exchange :
            Asks(c, x)' => Asks(c, x) /\ EndOf(c[1], c[2])' = EndOf(c[1], c[2])
  BY <1>7 DEF Gains
<1> HIDE DEF moved
<1>9. \A f \in End : IsAnswered(f)' => IsAnswered(f)
  <2>1. k \notin Answered
    BY <1>4 DEF Unused
  <2> QED
    BY <2>1, <1>1, <1>2, <1>8 DEF IsAnswered
<1>10. \A x \in Exchange : Unused(x) => Unused(x)'
  BY <1>2, <1>8 DEF Unused
<1>11. DialsUnused'
  <2> SUFFICES ASSUME NEW f \in dials', f.exchange # 0
               PROVE  /\ Unused(f.exchange)'
                      /\ \A other \in dials' : other.exchange = f.exchange => other = f
    BY DEF DialsUnused
  <2>1. CASE f = moved
    BY <2>1, <1>2, <1>4, <1>5, <1>10, <1>3
  <2>2. CASE f \in dials
    <3>1. f.exchange \in Exchange /\ f.exchange # k
      BY <2>2, <1>1, <1>4 DEF RestOK, Dial
    <3>2. Unused(f.exchange) /\ \A other \in dials : other.exchange = f.exchange => other = f
      BY <2>2 DEF RelationsOK, DialsUnused
    <3> QED
      BY <3>1, <3>2, <1>2, <1>5, <1>10
  <2> QED
    BY <2>1, <2>2, <1>2
<1>12. RelationsOK'
  <2>1. \A f \in End : IsBlocked(f) => IsBlocked(f)'
    BY <1>2 DEF IsBlocked
  <2>2. \A f \in End, x \in Exchange : Accepted(f, x)' => Accepted(f, x)
    BY <1>2 DEF Accepted
  <2>3. \A f \in End, x \in Exchange : Held(f, x) => Held(f, x)'
    BY <1>2 DEF Held
  <2> QED
    BY <2>1, <2>2, <2>3, <1>2, <1>9, <1>11, RelationsKept
<1>13. OwnerOK(new)'
  <2> SUFFICES /\ new[0] = NoEnd
               /\ \A x \in Exchange : x > exchanges' => new[x] = NoEnd
    BY <1>6 DEF OwnerOK
  <2> QED
    BY <1>1, <1>2, <1>3, <1>6, ExchangeType DEF Owned, OwnerOK
<1>14. DialsOK(new)'
  <2> SUFFICES ASSUME NEW f \in dials'
               PROVE  /\ f.exchange # 0 => new[f.exchange] = f.end
                      /\ f.step = "connecting" /\ f.via = "address" => f.exchange # 0
    BY DEF DialsOK
  <2>1. CASE f = moved
    BY <2>1, <1>3, <1>5, <1>6
  <2>2. CASE f \in dials
    <3>1. f \in Dial /\ f.exchange \in Exchange
      BY <2>2, <1>1 DEF RestOK, Dial
    <3> QED
      BY <2>2, <3>1, <1>4, <1>6 DEF Owned, DialsOK
  <2> QED
    BY <2>1, <2>2, <1>2
<1>15. ResolvingOK(new)'
  BY <1>1, <1>2, <1>4, <1>6 DEF Owned, ResolvingOK, Unused
<1>16. GrantedOK(new)'
  <2>1. \A f \in End, x \in Exchange : <<f, x>> \in granted => x # k
    BY <1>4 DEF Unused
  <2>2. \A f \in End, x \in Exchange : <<f, x>> \in granted' =>
            new[x] \in {f, Rev(f)} /\ <<new[x], x>> \in granted'
    BY <2>1, <1>2, <1>6 DEF Owned, GrantedOK
  <2>3. \A x \in Answered' : new[x] \in End
    BY <1>6, <1>8 DEF Owned, GrantedOK, Answered
  <2>4. \A x \in Proven' : <<new[x], x>> \in granted'
    <3> SUFFICES ASSUME NEW x \in Proven' PROVE <<new[x], x>> \in granted
      BY <1>2
    <3>1. x \in Proven /\ x \in Exchange
      BY <1>8 DEF Proven
    <3>2. <<owner[x], x>> \in granted /\ owner[x] \in End
      BY <3>1, <1>1 DEF Owned, GrantedOK, RestOK
    <3> QED
      BY <3>1, <3>2, <1>6
  <2> QED
    BY <2>2, <2>3, <2>4 DEF GrantedOK
<1>17. StrategyOK(new)'
  <2> SUFFICES ASSUME NEW f \in End
               PROVE  (/\ strategy[f].role = "none" => strategy[f].stage = "Initialization"
                       /\ strategy[f].role # "none" => f \in tracked
                       /\ strategy[f].role = "initiator" => InitiatorOK(new, f)
                       /\ strategy[f].role = "acceptor" => AcceptorOK(new, f)
                       /\ strategy[f].stage = "Complete" <=> state[f] = "Authorized"
                       /\ strategy[f].stage = "Complete" => <<f, strategy[f].key>> \in granted)'
    BY DEF StrategyOK
  <2>1. strategy[f] \in Strategy /\ strategy[f].own \in Exchange /\ strategy[f].key \in Exchange
    BY <1>1 DEF PeersOK, Strategy
  <2>2. strategy[f].role = "initiator" => InitiatorOK(new, f)'
    <3> SUFFICES ASSUME strategy[f].role = "initiator" PROVE InitiatorOK(new, f)'
      OBVIOUS
    <3>1. InitiatorOK(owner, f) /\ strategy[f].own # k
      BY <1>4 DEF Owned, StrategyOK
    <3>2. new[strategy[f].own] = f /\ resolving'[f] # strategy[f].own
      BY <3>1, <2>1, <1>1, <1>2, <1>6 DEF InitiatorOK
    <3> QED
      BY <3>1, <3>2, <1>2 DEF InitiatorOK
  <2>3. strategy[f].role = "acceptor" => AcceptorOK(new, f)'
    <3> SUFFICES ASSUME strategy[f].role = "acceptor" PROVE AcceptorOK(new, f)'
      OBVIOUS
    <3>1. AcceptorOK(owner, f) /\ strategy[f].key # k
      BY <1>4 DEF Owned, StrategyOK, Unused
    <3>2. new[strategy[f].key] = owner[strategy[f].key]
      BY <3>1, <2>1, <1>6
    <3> QED
      BY <3>1, <3>2, <1>2 DEF AcceptorOK
  <2> QED
    BY <2>2, <2>3, <1>2 DEF Owned, StrategyOK
<1>18. AsksOK(new)'
  <2> SUFFICES ASSUME NEW c \in Channel, NEW x \in Exchange, Asks(c, x)'
               PROVE  /\ new[x] = Rev(EndOf(c[1], c[2])')
                      /\ Unused(x)'
                      /\ \A other \in Channel : Asks(other, x)' => other = c
                      /\ \A f \in dials' : f.exchange # x
    BY DEF AsksOK, Rev
  <2>1. Asks(c, x) /\ EndOf(c[1], c[2])' = EndOf(c[1], c[2])
    BY <1>8
  <2>2. /\ owner[x] = Rev(EndOf(c[1], c[2]))
        /\ Unused(x)
        /\ \A other \in Channel : Asks(other, x) => other = c
        /\ \A f \in dials : f.exchange # x
    BY <2>1 DEF Owned, AsksOK
  <2>3. owner[x] \in End /\ x # k
    BY <2>1, <1>1, <1>4, AsksEnd
  <2> QED
    BY <2>1, <2>2, <2>3, <1>2, <1>5, <1>6, <1>8, <1>10
<1> QED
  BY <1>6, <1>8, <1>12, <1>13, <1>14, <1>15, <1>16, <1>17, <1>18 DEF Owned

-------------------------------------------------------------------------------
(***************************************************************************)
(* The connection is made: the request of the exchange is on its way, once. *)
(***************************************************************************)
LEMMA StartedAsks ==
    ASSUME IInv, ChannelsOK, NEW d \in dials, OnSessionStarted(d)
    PROVE  /\ ChannelsOK'
           /\ Answered' \subseteq Answered /\ Proven' \subseteq Proven
           /\ \E first \in Channel :
                 /\ EndOf(first[1], first[2])' = Rev(d.end)
                 /\ \A c \in Channel, x \in Exchange : Asks(c, x)' =>
                       \/ /\ c # first
                          /\ Asks(c, x) /\ EndOf(c[1], c[2])' = EndOf(c[1], c[2])
                       \/ c = first /\ d.via = "address" /\ x = d.exchange
<1> DEFINE request == IF d.via = "address" THEN Msg("Request", d.exchange)
                                           ELSE Msg("HeartbeatRequest", 0)
<1>1. NetOK /\ d.end \in End /\ d.exchange \in Exchange
  BY DEF IInv, RestOK, Dial
<1>2. PICK s \in Session :
          /\ opener[s] = NoEnd
          /\ opener' = [opener EXCEPT ![s] = d.end]
          /\ reading' = reading \cup {<<s, d.end[1]>>, <<s, d.end[2]>>}
          /\ chan' = [chan EXCEPT ![<<s, d.end[2]>>] = <<request>>]
  BY DEF OnSessionStarted
<1> DEFINE first == <<s, d.end[2]>>
<1>3. first \in Channel /\ d.end[1] # d.end[2] /\ d.end = <<d.end[1], d.end[2]>>
  BY <1>1 DEF End, Channel
<1>4. request \in {Msg("Request", d.exchange), Msg("HeartbeatRequest", 0)}
  OBVIOUS
<1>5. \A c \in Channel : chan'[c] = IF c = first THEN <<request>> ELSE chan[c]
  BY <1>1, <1>2, <1>3 DEF NetOK, Channel
<1>6. \A c \in Channel : c[1] = s => chan[c] = <<>>
  <2> SUFFICES ASSUME NEW c \in Channel, c[1] = s, chan[c] # <<>> PROVE FALSE
    OBVIOUS
  <2>1. c \in open /\ c = <<s, c[2]>> /\ c[2] \in Node
    BY <1>1 DEF Channel, ChannelsOK, NetOK
  <2>2. opener[s] \in End
    BY <2>1, <1>1 DEF NetOK, OpenOK
  <2> QED
    BY <2>2, <1>2, NoEndIsNone
<1>7. EndOf(first[1], first[2])' = Rev(d.end)
  <2>1. opener'[s] = d.end
    BY <1>1, <1>2 DEF NetOK
  <2> QED
    BY <2>1, <1>3 DEF EndOf, PeerOf, Rev
<1> HIDE DEF request
<1>8. ChannelsOK'
  <2> SUFFICES ASSUME NEW c \in Channel
               PROVE  /\ chan'[c] # <<>> => c \in reading'
                      /\ \A i \in DOMAIN chan'[c] : chan'[c][i].type = "Request" => i = 1
    BY DEF ChannelsOK
  <2>1. CASE c = first
    BY <2>1, <1>2, <1>5
  <2>2. CASE c # first
    BY <2>2, <1>2, <1>5 DEF ChannelsOK
  <2> QED
    BY <2>1, <2>2
<1>9. \A c \in Channel : \A msg : Sends(c, msg)' => Sends(c, msg) \/ msg = request
  <2> SUFFICES ASSUME NEW c \in Channel, NEW msg, NEW i \in DOMAIN chan'[c], chan'[c][i] = msg
               PROVE  Sends(c, msg) \/ msg = request
    BY DEF Sends
  <2>1. CASE c = first
    BY <2>1, <1>5
  <2>2. CASE c # first
    BY <2>2, <1>5 DEF Sends
  <2> QED
    BY <2>1, <2>2
<1>10. Answered' \subseteq Answered /\ Proven' \subseteq Proven
  <2>1. \A x \in Exchange : request # Msg("Response", x) /\ request # Msg("Verification", x)
    BY <1>4 DEF Msg
  <2> QED
    BY <2>1, <1>9 DEF Answered, Proven
<1>11. ASSUME NEW c \in Channel, NEW x \in Exchange, Asks(c, x)', c # first
       PROVE  Asks(c, x) /\ EndOf(c[1], c[2])' = EndOf(c[1], c[2])
  <2>1. Asks(c, x)
    BY <1>5, <1>11 DEF Asks
  <2>2. c[1] # s
    BY <2>1, <1>6 DEF Asks
  <2>3. opener'[c[1]] = opener[c[1]]
    BY <2>2, <1>1, <1>2 DEF NetOK, Channel
  <2> QED
    BY <2>1, <2>3 DEF EndOf, PeerOf
<1>12. ASSUME NEW x \in Exchange, Asks(first, x)'
       PROVE  d.via = "address" /\ x = d.exchange
  <2>1. request = Msg("Request", x)
    BY <1>3, <1>5, <1>12 DEF Asks
  <2> QED
    BY <2>1 DEF request, Msg
<1> QED
  BY <1>3, <1>7, <1>8, <1>10, <1>11, <1>12

LEMMA StartedKeeps ==
    ASSUME IInv, IInv', ChannelsOK, NEW owner, Owned(owner), RelationsOK,
           NEW d \in dials, OnSessionStarted(d)
    PROVE  ChannelsOK' /\ Owned(owner)' /\ RelationsOK'
<1>1. PICK first \in Channel :
          /\ EndOf(first[1], first[2])' = Rev(d.end)
          /\ \A c \in Channel, x \in Exchange : Asks(c, x)' =>
                \/ /\ c # first
                   /\ Asks(c, x) /\ EndOf(c[1], c[2])' = EndOf(c[1], c[2])
                \/ c = first /\ d.via = "address" /\ x = d.exchange
  BY StartedAsks
<1>2. ChannelsOK' /\ Answered' \subseteq Answered /\ Proven' \subseteq Proven
  BY StartedAsks
<1>3. /\ dials' = dials \ {d} /\ d.step = "connecting"
      /\ UNCHANGED <<exchanges, resolving, strategy, state, tracked, granted>>
  BY DEF OnSessionStarted, nodeVars
<1>4. NetOK /\ d.end \in End
  BY DEF IInv, RestOK, Dial
<1>5. Quiet
  BY <1>3, StillQuiet
<1>6. /\ OwnerOK(owner)' /\ DialsOK(owner)' /\ ResolvingOK(owner)' /\ GrantedOK(owner)'
      /\ StrategyOK(owner)' /\ RelationsOK'
      /\ \A x \in Exchange : x # 0 /\ Unused(x) => Unused(x)'
  BY <1>2, <1>5, QuietKeepsRest
<1>7. d.via = "address" => /\ owner[d.exchange] = d.end /\ d.exchange # 0
                           /\ Unused(d.exchange)
                           /\ \A other \in dials : other.exchange = d.exchange => other = d
                           /\ \A c \in Channel : ~Asks(c, d.exchange)
  <2> SUFFICES ASSUME d.via = "address"
               PROVE  /\ owner[d.exchange] = d.end /\ d.exchange # 0
                      /\ Unused(d.exchange)
                      /\ \A other \in dials : other.exchange = d.exchange => other = d
                      /\ \A c \in Channel : ~Asks(c, d.exchange)
    OBVIOUS
  <2>1. owner[d.exchange] = d.end /\ d.exchange # 0 /\ d.exchange \in Exchange
    BY <1>3 DEF Owned, DialsOK, IInv, RestOK, Dial
  <2> QED
    BY <2>1 DEF RelationsOK, DialsUnused, Owned, AsksOK
<1>8. AsksOK(owner)'
  <2> SUFFICES ASSUME NEW c \in Channel, NEW x \in Exchange, Asks(c, x)'
               PROVE  /\ owner[x] = Rev(EndOf(c[1], c[2])')
                      /\ Unused(x)'
                      /\ \A other \in Channel : Asks(other, x)' => other = c
                      /\ \A f \in dials' : f.exchange # x
    BY DEF AsksOK, Rev
  <2>1. CASE c = first
    <3>1. d.via = "address" /\ x = d.exchange
      BY <2>1, <1>1
    <3>2. owner[x] = Rev(EndOf(c[1], c[2])')
      BY <3>1, <2>1, <1>1, <1>4, <1>7, RevRev
    <3> QED
      BY <3>1, <3>2, <2>1, <1>1, <1>3, <1>6, <1>7
  <2>2. CASE c # first
    <3>1. Asks(c, x) /\ EndOf(c[1], c[2])' = EndOf(c[1], c[2])
      BY <2>2, <1>1
    <3>2. /\ owner[x] = Rev(EndOf(c[1], c[2]))
          /\ Unused(x)
          /\ \A other \in Channel : Asks(other, x) => other = c
          /\ \A f \in dials : f.exchange # x
      BY <3>1 DEF Owned, AsksOK
    <3>3. x # 0
      BY <3>1, <1>4, AsksEnd
    <3>4. \A other \in Channel : Asks(other, x)' => other = c
      BY <3>1, <3>2, <1>1, <1>7
    <3> QED
      BY <3>1, <3>2, <3>3, <3>4, <1>3, <1>6
  <2> QED
    BY <2>1, <2>2
<1> QED
  BY <1>2, <1>6, <1>8 DEF Owned

-------------------------------------------------------------------------------
(***************************************************************************)
(* The handshake.  What each of its handlers finds, and what it gains.     *)
(***************************************************************************)
LEMMA FirstIsSent ==
    ASSUME NetOK, NEW s \in Session, NEW n \in Node, Readable(s, n)
    PROVE  /\ <<s, n>> \in Channel
           /\ Head(chan[<<s, n>>]) = Msg(Head(chan[<<s, n>>]).type, Head(chan[<<s, n>>]).key)
           /\ Head(chan[<<s, n>>]).key \in Exchange
           /\ Sends(<<s, n>>, Head(chan[<<s, n>>]))
<1> DEFINE q == chan[<<s, n>>]
<1>1. q \in Seq(Message) /\ q # <<>> /\ <<s, n>> \in Channel /\ Head(q) \in Message
  BY ReadableType DEF NetOK, Channel, Readable
<1>2. Head(q) = Msg(Head(q).type, Head(q).key) /\ Head(q).key \in Exchange
  BY <1>1 DEF Message, Msg
<1>3. 1 \in DOMAIN q /\ q[1] = Head(q)
  BY <1>1
<1> QED
  BY <1>1, <1>2, <1>3 DEF Sends

(* A handshake message in reply adds its exchange and asks for nothing.    *)
LEMMA ResponseGains ==
    ASSUME NetOK, ChannelsOK, NEW s \in Session, NEW n \in Node, Readable(s, n),
           NEW k \in Exchange, Replied(s, n, <<Msg("Response", k)>>)
    PROVE  Gains({k}, {}) /\ \A x \in Exchange : ~Asks(<<s, n>>, x)'
<1> DEFINE msgs == <<Msg("Response", k)>>
<1>1. msgs \in Seq(Message) /\ msgs # <<>>
  BY MsgType
<1>2. \A i \in DOMAIN msgs : msgs[i] = Msg("Response", k) /\ msgs[i].type # "Request"
  BY DEF Msg
<1> HIDE DEF msgs
<1>3. /\ ChannelsOK'
      /\ \A c \in Channel, msg \in Message :
            Sends(c, msg)' => Sends(c, msg) \/ \E i \in DOMAIN msgs : msgs[i] = msg
      /\ \A c \in Channel, x \in Exchange :
            Asks(c, x)' => Asks(c, x) /\ EndOf(c[1], c[2])' = EndOf(c[1], c[2])
      /\ \A x \in Exchange : ~Asks(<<s, n>>, x)'
  BY <1>1, <1>2, RepliedGains DEF msgs
<1>4. \A c \in Channel, msg \in Message : Sends(c, msg)' => Sends(c, msg) \/ msg = Msg("Response", k)
  BY <1>2, <1>3
<1>5. \A x \in Exchange : /\ Msg("Verification", x) # Msg("Response", k)
                          /\ Msg("Response", x) = Msg("Response", k) => x = k
  BY DEF Msg
<1>6. Answered' \subseteq Answered \cup {k} /\ Proven' \subseteq Proven
  BY <1>4, <1>5, MsgType DEF Answered, Proven
<1> QED
  BY <1>3, <1>6 DEF Gains

LEMMA FinishGains ==
    ASSUME NetOK, ChannelsOK, NEW s \in Session, NEW n \in Node, Readable(s, n),
           NEW k \in Exchange, Replied(s, n, FinishExchange(k))
    PROVE  Gains({}, {k})
<1> DEFINE msgs == FinishExchange(k)
<1>1. msgs \in Seq(Message) /\ msgs # <<>>
  BY MsgType DEF FinishExchange
<1>2. \A i \in DOMAIN msgs : /\ msgs[i] \in {Msg("Verification", k), Msg("DiscoveryRequest", k)}
                             /\ msgs[i].type # "Request"
  BY DEF FinishExchange, Msg
<1>3. /\ ChannelsOK'
      /\ \A c \in Channel, msg \in Message :
            Sends(c, msg)' => Sends(c, msg) \/ \E i \in DOMAIN msgs : msgs[i] = msg
      /\ \A c \in Channel, x \in Exchange :
            Asks(c, x)' => Asks(c, x) /\ EndOf(c[1], c[2])' = EndOf(c[1], c[2])
  BY <1>1, <1>2, RepliedGains
<1>4. \A c \in Channel, msg \in Message :
          Sends(c, msg)' => Sends(c, msg) \/ msg \in {Msg("Verification", k), Msg("DiscoveryRequest", k)}
  BY <1>2, <1>3
<1>5. \A x \in Exchange :
          /\ Msg("Response", x) \notin {Msg("Verification", k), Msg("DiscoveryRequest", k)}
          /\ Msg("Verification", x) # Msg("DiscoveryRequest", k)
          /\ Msg("Verification", x) = Msg("Verification", k) => x = k
  BY DEF Msg
<1>6. Answered' \subseteq Answered /\ Proven' \subseteq Proven \cup {k}
  BY <1>4, <1>5, MsgType DEF Answered, Proven
<1> QED
  BY <1>3, <1>6 DEF Gains

(* Nothing but the strategies, the states and what is granted.             *)
LEMMA RestKeeps ==
    ASSUME NEW owner, Owned(owner), UNCHANGED <<exchanges, dials>>
    PROVE  OwnerOK(owner)' /\ DialsOK(owner)'
BY DEF Owned, OwnerOK, DialsOK

(* The acceptor answers the request: its key is not used yet, and its peer *)
(* is the owner of the exchange.                                           *)
LEMMA RequestKeeps ==
    ASSUME IInv, IInv', ChannelsOK, NEW owner, Owned(owner), RelationsOK,
           NEW s \in Session, NEW n \in Node, SynchronizeRequest(s, n)
    PROVE  ChannelsOK' /\ Owned(owner)' /\ RelationsOK'
<1> DEFINE e == EndOf(s, n)
           k == Head(chan[<<s, n>>]).key
<1>1. /\ NetOK /\ PeersOK /\ RestOK /\ Readable(s, n) /\ e \in End
      /\ receiver[e] = "processor"
  BY ReachesType DEF SynchronizeRequest, Negotiates
<1>2. /\ k \in Exchange /\ <<s, n>> \in Channel
      /\ Asks(<<s, n>>, k)
  BY <1>1, FirstIsSent DEF SynchronizeRequest, AcceptsRequest, Asks, Readable
<1>3. /\ strategy[e].role = "acceptor" /\ strategy[e].stage = "Initialization"
      /\ strategy' = [strategy EXCEPT ![e].stage = "Verification", ![e].key = k]
      /\ Replied(s, n, <<Msg("Response", k)>>)
      /\ UNCHANGED <<exchanges, dials, resolving, tracked, state, granted>>
  BY DEF SynchronizeRequest, AcceptsRequest, Derive
<1>4. /\ owner[k] = Rev(e) /\ Unused(k) /\ owner[k] \in End /\ k # 0
      /\ \A other \in Channel : Asks(other, k) => other = <<s, n>>
      /\ \A d \in dials : d.exchange # k
  BY <1>1, <1>2, AsksEnd DEF Owned, AsksOK
<1>5. PICK key \in Exchange : key = k
  BY <1>2
<1>6. /\ strategy'[e].role = "acceptor" /\ strategy'[e].stage = "Verification" /\ strategy'[e].key = key
      /\ \A f \in End : f # e => strategy'[f] = strategy[f]
  BY <1>1, <1>3, <1>5 DEF PeersOK, Strategy
<1>7. /\ ChannelsOK' /\ Answered' \subseteq Answered \cup {key} /\ Proven' \subseteq Proven
      /\ \A c \in Channel, x \in Exchange :
            Asks(c, x)' => /\ Asks(c, x) /\ EndOf(c[1], c[2])' = EndOf(c[1], c[2])
                           /\ c # <<s, n>>
  BY <1>1, <1>2, <1>3, <1>5, ResponseGains DEF Gains
<1>8. /\ owner[key] = Rev(e) /\ Unused(key) /\ owner[key] \in End /\ key # 0
      /\ \A other \in Channel : ~Asks(other, key)'
      /\ \A d \in dials : d.exchange # key
  BY <1>4, <1>5, <1>7
<1>9. PICK a \in End : a = e
  BY <1>1
<1>10. /\ Rev(a) \in End /\ Rev(Rev(a)) = a /\ Rev(a) # a
       /\ owner[key] = Rev(a) /\ a \in tracked
       /\ strategy[a].role = "acceptor" /\ strategy[a].stage = "Initialization"
       /\ strategy'[a].role = "acceptor" /\ strategy'[a].stage = "Verification" /\ strategy'[a].key = key
       /\ \A f \in End : f # a => strategy'[f] = strategy[f]
  BY <1>3, <1>6, <1>8, <1>9, RevRev DEF Owned, StrategyOK
<1>11. /\ UNCHANGED <<exchanges, dials, resolving, tracked, state, granted>>
       /\ resolving \in [End -> Exchange] /\ granted \subseteq End \X Exchange
       /\ \A f \in End : <<f, key>> \notin granted
       /\ key \notin Answered
  BY <1>1, <1>3, <1>8 DEF RestOK, Unused
<1>12. \A x \in Exchange : x # key /\ Unused(x) => Unused(x)'
  BY <1>7, <1>10, <1>11 DEF Unused
<1>13. \A f \in End : IsAnswered(f)' => IsAnswered(f) \/ f = Rev(a)
  <2> SUFFICES ASSUME NEW f \in End, IsAnswered(f)', f # Rev(a) PROVE IsAnswered(f)
    OBVIOUS
  <2>1. resolving[f] # key
    BY <1>8, <1>10 DEF Owned, ResolvingOK
  <2>2. strategy[f].role = "initiator" => strategy[f].own # key
    <3> SUFFICES ASSUME strategy[f].role = "initiator" PROVE strategy[f].own # key
      OBVIOUS
    <3>1. InitiatorOK(owner, f)
      BY DEF Owned, StrategyOK
    <3> QED
      BY <3>1, <1>10 DEF InitiatorOK
  <2> QED
    BY <2>1, <2>2, <1>7, <1>10, <1>11 DEF IsAnswered
<1>14. \A f \in End : IsBlocked(f) => IsBlocked(f)'
  BY <1>10, <1>11 DEF IsBlocked
<1>15. \A f \in End, x \in Exchange : Accepted(f, x)' => (f = a /\ x = key) \/ (f # a /\ Accepted(f, x))
  BY <1>10 DEF Accepted
<1>16. \A f \in End, x \in Exchange : Held(f, x) => Held(f, x)'
  BY <1>10 DEF Held
<1>17. RelationsOK'
  <2>1. DialsUnused'
    BY <1>8, <1>11, <1>12, <1>1 DEF RelationsOK, DialsUnused, RestOK, Dial
  <2>2. AcceptedIsHeld'
    <3> SUFFICES ASSUME NEW f \in End, NEW x \in Exchange,
                        Accepted(f, x)', <<Rev(f), x>> \in granted, IsAnswered(Rev(f))'
                 PROVE  Held(Rev(f), x)'
      BY <1>11 DEF AcceptedIsHeld, Held
    <3>1. Rev(f) \in End /\ f # a /\ Accepted(f, x)
      BY <1>11, <1>15, RevRev
    <3>2. Rev(f) # Rev(a)
      BY <3>1, <1>10, RevRev
    <3>3. IsAnswered(Rev(f))
      BY <3>1, <3>2, <1>13
    <3>4. Held(Rev(f), x)
      BY <3>1, <3>3 DEF RelationsOK, AcceptedIsHeld, Held
    <3> QED
      BY <3>1, <3>4, <1>16
  <2>3. OneIsBlocked'
    <3> SUFFICES ASSUME NEW f \in End, IsAnswered(f)', IsAnswered(Rev(f))'
                 PROVE  IsBlocked(f)' \/ IsBlocked(Rev(f))'
      BY DEF OneIsBlocked
    <3>1. CASE f \in {a, Rev(a)}
      <4>1. IsBlocked(a)'
        BY <1>10, <1>11 DEF IsBlocked
      <4> QED
        BY <3>1, <4>1, <1>10
    <3>2. CASE f \notin {a, Rev(a)}
      <4>1. Rev(f) \in End /\ Rev(f) # Rev(a)
        BY <3>2, <1>10, RevRev
      <4>2. IsAnswered(f) /\ IsAnswered(Rev(f))
        BY <3>2, <4>1, <1>13
      <4> QED
        BY <4>1, <4>2, <1>14 DEF RelationsOK, OneIsBlocked
    <3> QED
      BY <3>1, <3>2
  <2>4. OneIsAccepted'
    <3> SUFFICES ASSUME NEW f \in End, NEW x \in Exchange, NEW y \in Exchange,
                        Accepted(f, x)', <<Rev(f), x>> \in granted, Accepted(Rev(f), y)',
                        <<f, y>> \in granted
                 PROVE  FALSE
      BY <1>11 DEF OneIsAccepted
    <3>1. Rev(f) \in End /\ x # key /\ y # key
      BY <1>11, RevRev
    <3>2. Accepted(f, x) /\ Accepted(Rev(f), y)
      BY <3>1, <1>15
    <3> QED
      BY <3>2 DEF RelationsOK, OneIsAccepted
  <2> QED
    BY <2>1, <2>2, <2>3, <2>4 DEF RelationsOK
<1>18. ResolvingOK(owner)' /\ GrantedOK(owner)'
  BY <1>7, <1>8, <1>11 DEF Owned, ResolvingOK, GrantedOK
<1>19. StrategyOK(owner)'
  <2> SUFFICES ASSUME NEW f \in End
               PROVE  (/\ strategy[f].role = "none" => strategy[f].stage = "Initialization"
                       /\ strategy[f].role # "none" => f \in tracked
                       /\ strategy[f].role = "initiator" => InitiatorOK(owner, f)
                       /\ strategy[f].role = "acceptor" => AcceptorOK(owner, f)
                       /\ strategy[f].stage = "Complete" <=> state[f] = "Authorized"
                       /\ strategy[f].stage = "Complete" => <<f, strategy[f].key>> \in granted)'
    BY DEF StrategyOK
  <2>1. CASE f = a
    BY <2>1, <1>10, <1>11 DEF Owned, StrategyOK, AcceptorOK
  <2>2. CASE f # a
    BY <2>2, <1>10, <1>11 DEF Owned, StrategyOK, InitiatorOK, AcceptorOK
  <2> QED
    BY <2>1, <2>2
<1>20. AsksOK(owner)'
  <2> SUFFICES ASSUME NEW c \in Channel, NEW x \in Exchange, Asks(c, x)'
               PROVE  /\ owner[x] = Rev(EndOf(c[1], c[2])')
                      /\ Unused(x)'
                      /\ \A other \in Channel : Asks(other, x)' => other = c
                      /\ \A d \in dials' : d.exchange # x
    BY DEF AsksOK, Rev
  <2>1. Asks(c, x) /\ EndOf(c[1], c[2])' = EndOf(c[1], c[2]) /\ x # key
    BY <1>7, <1>8
  <2> QED
    BY <2>1, <1>7, <1>11, <1>12 DEF Owned, AsksOK
<1> QED
  BY <1>7, <1>11, <1>17, <1>18, <1>19, <1>20, RestKeeps DEF Owned

(***************************************************************************)
(* The initiator authorizes: nobody else has the key, and the other end    *)
(* holds none, because it would either have been answered too, with        *)
(* neither end blocked, or have accepted a key of this end's that this end *)
(* has been granted and no longer holds, while it waits for an answer.     *)
(***************************************************************************)
LEMMA ResponseFinds ==
    ASSUME IInv, NEW owner, Owned(owner), RelationsOK,
           NEW s \in Session, NEW n \in Node, SynchronizeResponse(s, n)
    PROVE  LET e == EndOf(s, n)
               k == Head(chan[<<s, n>>]).key
           IN  /\ NetOK /\ PeersOK /\ RestOK /\ Readable(s, n) /\ e \in End /\ Rev(e) \in End
               /\ k \in Exchange /\ k # 0 /\ k \in Answered
               /\ owner[k] = e /\ strategy[e].own = k /\ resolving[e] # k
               /\ strategy[e].role = "initiator" /\ strategy[e].stage = "Initialization"
               /\ state[e] # "Authorized" /\ state[Rev(e)] # "Authorized"
               /\ \A f \in End : <<f, k>> \notin granted
<1> DEFINE e == EndOf(s, n)
           k == Head(chan[<<s, n>>]).key
<1>1. /\ NetOK /\ PeersOK /\ RestOK /\ Readable(s, n) /\ e \in End
      /\ receiver[e] = "processor"
  BY ReachesType DEF SynchronizeResponse, Negotiates
<1>2. /\ strategy[e].role = "initiator" /\ strategy[e].stage = "Initialization"
      /\ strategy[e].own = k /\ k \in Exchange /\ k \in Answered
  BY <1>1, FirstIsSent DEF SynchronizeResponse, AcceptsResponse, Answered
<1>3. InitiatorOK(owner, e) /\ state[e] # "Authorized"
  BY <1>1, <1>2 DEF Owned, StrategyOK
<1>4. owner[k] = e /\ resolving[e] # k /\ <<e, k>> \notin granted
  BY <1>2, <1>3 DEF InitiatorOK
<1>5. k # 0
  BY <1>2, NoneIsUnused
<1>6. \A f \in End : <<f, k>> \notin granted
  BY <1>2, <1>4 DEF Owned, GrantedOK
<1>7. Rev(e) \in End /\ Rev(Rev(e)) = e
  BY <1>1, RevRev
<1>8. IsAnswered(e) /\ ~IsBlocked(e)
  BY <1>2 DEF IsAnswered, IsBlocked
<1>9. ASSUME state[Rev(e)] = "Authorized" PROVE FALSE
  <2> DEFINE y == strategy[Rev(e)].key
  <2>1. strategy[Rev(e)].stage = "Complete" /\ <<Rev(e), y>> \in granted
    BY <1>7, <1>9 DEF Owned, StrategyOK
  <2>2. CASE strategy[Rev(e)].role = "initiator"
    <3>1. IsAnswered(Rev(e)) /\ ~IsBlocked(Rev(e))
      BY <2>1, <2>2 DEF IsAnswered, IsBlocked
    <3> QED
      BY <3>1, <1>1, <1>8 DEF RelationsOK, OneIsBlocked
  <2>3. CASE strategy[Rev(e)].role = "acceptor"
    <3>1. y \in Exchange
      BY <1>1, <1>7 DEF PeersOK, Strategy
    <3>2. owner[y] = e
      BY <1>7, <2>1, <2>3 DEF Owned, StrategyOK, AcceptorOK
    <3>3. <<e, y>> \in granted
      BY <1>7, <2>1, <3>1, <3>2 DEF Owned, GrantedOK
    <3>4. Accepted(Rev(e), y)
      BY <2>3 DEF Accepted
    <3>5. \/ strategy[Rev(Rev(e))].stage = "Complete"
          \/ ~IsAnswered(Rev(Rev(e)))
      BY <3>1, <3>3, <3>4, <1>7 DEF RelationsOK, AcceptedIsHeld
    <3> QED
      BY <3>5, <1>2, <1>7, <1>8
  <2>4. CASE strategy[Rev(e)].role = "none"
    BY <2>1, <2>4, <1>7 DEF Owned, StrategyOK
  <2> QED
    BY <2>2, <2>3, <2>4, <1>1, <1>7 DEF PeersOK, Strategy
<1> QED
  BY <1>1, <1>2, <1>3, <1>4, <1>5, <1>6, <1>7, <1>9

LEMMA ResponseKeeps ==
    ASSUME IInv, IInv', ChannelsOK, NEW owner, Owned(owner), RelationsOK,
           NEW s \in Session, NEW n \in Node, SynchronizeResponse(s, n)
    PROVE  ChannelsOK' /\ Owned(owner)' /\ RelationsOK'
<1> DEFINE e == EndOf(s, n)
           k == Head(chan[<<s, n>>]).key
<1>1. /\ NetOK /\ PeersOK /\ RestOK /\ Readable(s, n) /\ e \in End
      /\ k \in Exchange /\ k \in Answered
      /\ owner[k] = e /\ strategy[e].own = k /\ resolving[e] # k
      /\ strategy[e].role = "initiator" /\ strategy[e].stage = "Initialization"
  BY ResponseFinds
<1>2. /\ strategy' = [strategy EXCEPT ![e].stage = "Complete", ![e].key = k]
      /\ state' = [state EXCEPT ![e] = "Authorized"]
      /\ granted' = granted \cup {<<e, k>>}
      /\ Replied(s, n, FinishExchange(k))
      /\ UNCHANGED <<exchanges, dials, resolving, tracked>>
  BY DEF SynchronizeResponse, Authorize
<1>3. Gains({}, {k})
  BY <1>1, <1>2, FinishGains
<1>4. PICK a \in End, key \in Exchange : a = e /\ key = k
  BY <1>1
<1>5. /\ strategy'[a].role = "initiator" /\ strategy'[a].stage = "Complete"
      /\ strategy'[a].own = key /\ strategy'[a].key = key
      /\ state'[a] = "Authorized"
      /\ \A f \in End : f # a => strategy'[f] = strategy[f] /\ state'[f] = state[f]
  BY <1>1, <1>2, <1>4 DEF PeersOK, Strategy
<1>6. /\ key \in Answered /\ owner[key] = a /\ resolving[a] # key
      /\ strategy[a].role = "initiator" /\ strategy[a].own = key
      /\ strategy[a].stage = "Initialization"
      /\ a \in tracked
  BY <1>1, <1>4 DEF Owned, StrategyOK
<1>7. /\ ChannelsOK' /\ Answered' \subseteq Answered /\ Proven' \subseteq Proven \cup {key}
      /\ \A c \in Channel, x \in Exchange :
            Asks(c, x)' => Asks(c, x) /\ EndOf(c[1], c[2])' = EndOf(c[1], c[2])
  BY <1>3, <1>4 DEF Gains
<1>8. /\ UNCHANGED <<exchanges, dials, resolving, tracked>>
      /\ granted' = granted \cup {<<a, key>>}
      /\ resolving \in [End -> Exchange] /\ granted \subseteq End \X Exchange
  BY <1>1, <1>2, <1>4 DEF RestOK
<1>9. IsAnswered(a) /\ \A f \in End : IsAnswered(f)' => IsAnswered(f)
  BY <1>5, <1>6, <1>7, <1>8 DEF IsAnswered
<1>10. \A x \in Exchange : Unused(x) => Unused(x)' /\ x # key
  BY <1>5, <1>6, <1>7, <1>8 DEF Unused
<1>11. \A f \in End, x \in Exchange : Accepted(f, x)' => f # a /\ Accepted(f, x)
  BY <1>5 DEF Accepted
<1>12. \A f \in End, x \in Exchange : Held(f, x) => Held(f, x)'
  BY <1>5, <1>6 DEF Held
<1>13. RelationsOK'
  <2>1. DialsUnused'
    BY <1>1, <1>8, <1>10 DEF RelationsOK, DialsUnused, RestOK, Dial
  <2>2. AcceptedIsHeld'
    <3> SUFFICES ASSUME NEW f \in End, NEW x \in Exchange,
                        Accepted(f, x)', <<Rev(f), x>> \in granted', IsAnswered(Rev(f))'
                 PROVE  Held(Rev(f), x)'
      BY DEF AcceptedIsHeld, Held
    <3>1. Rev(f) \in End /\ Accepted(f, x) /\ IsAnswered(Rev(f))
      BY <1>9, <1>11, RevRev
    <3>2. CASE <<Rev(f), x>> \in granted
      <4>1. Held(Rev(f), x)
        BY <3>1, <3>2 DEF RelationsOK, AcceptedIsHeld, Held
      <4> QED
        BY <3>1, <4>1, <1>12
    <3>3. CASE Rev(f) = a /\ x = key
      BY <3>3, <1>5 DEF Held
    <3> QED
      BY <3>2, <3>3, <1>8
  <2>3. OneIsBlocked'
    <3>1. \A f \in End : IsBlocked(f) => IsBlocked(f)'
      BY <1>5, <1>6, <1>8 DEF IsBlocked
    <3> QED
      BY <3>1, <1>9, RevRev DEF RelationsOK, OneIsBlocked
  <2>4. OneIsAccepted'
    <3> SUFFICES ASSUME NEW f \in End, NEW x \in Exchange, NEW y \in Exchange,
                        Accepted(f, x)', <<Rev(f), x>> \in granted', Accepted(Rev(f), y)',
                        <<f, y>> \in granted'
                 PROVE  FALSE
      BY DEF OneIsAccepted
    <3>1. /\ Accepted(f, x) /\ Accepted(Rev(f), y) /\ f # a /\ Rev(f) # a
      BY <1>11, RevRev
    <3>2. <<Rev(f), x>> \in granted /\ <<f, y>> \in granted
      BY <3>1, <1>8
    <3> QED
      BY <3>1, <3>2 DEF RelationsOK, OneIsAccepted
  <2> QED
    BY <2>1, <2>2, <2>3, <2>4 DEF RelationsOK
<1>14. ResolvingOK(owner)'
  BY <1>6, <1>8 DEF Owned, ResolvingOK
<1>15. GrantedOK(owner)'
  <2>1. \A f \in End, x \in Exchange : <<f, x>> \in granted' =>
            owner[x] \in {f, Rev(f)} /\ <<owner[x], x>> \in granted'
    BY <1>6, <1>8 DEF Owned, GrantedOK
  <2>2. \A x \in Proven' : <<owner[x], x>> \in granted'
    BY <1>6, <1>7, <1>8 DEF Owned, GrantedOK
  <2>3. \A x \in Answered' : owner[x] \in End
    BY <1>7 DEF Owned, GrantedOK
  <2> QED
    BY <2>1, <2>2, <2>3 DEF GrantedOK
<1>16. StrategyOK(owner)'
  <2> SUFFICES ASSUME NEW f \in End
               PROVE  (/\ strategy[f].role = "none" => strategy[f].stage = "Initialization"
                       /\ strategy[f].role # "none" => f \in tracked
                       /\ strategy[f].role = "initiator" => InitiatorOK(owner, f)
                       /\ strategy[f].role = "acceptor" => AcceptorOK(owner, f)
                       /\ strategy[f].stage = "Complete" <=> state[f] = "Authorized"
                       /\ strategy[f].stage = "Complete" => <<f, strategy[f].key>> \in granted)'
    BY DEF StrategyOK
  <2>1. CASE f = a
    BY <2>1, <1>5, <1>6, <1>8 DEF InitiatorOK
  <2>2. CASE f # a
    <3>1. \A x : <<f, x>> \in granted' => <<f, x>> \in granted
      BY <2>2, <1>8
    <3> QED
      BY <2>2, <3>1, <1>5, <1>8 DEF Owned, StrategyOK, InitiatorOK, AcceptorOK
  <2> QED
    BY <2>1, <2>2
<1>17. AsksOK(owner)'
  <2> SUFFICES ASSUME NEW c \in Channel, NEW x \in Exchange, Asks(c, x)'
               PROVE  /\ owner[x] = Rev(EndOf(c[1], c[2])')
                      /\ Unused(x)'
                      /\ \A other \in Channel : Asks(other, x)' => other = c
                      /\ \A d \in dials' : d.exchange # x
    BY DEF AsksOK, Rev
  <2>1. Asks(c, x) /\ EndOf(c[1], c[2])' = EndOf(c[1], c[2])
    BY <1>7
  <2> QED
    BY <2>1, <1>7, <1>8, <1>10 DEF Owned, AsksOK
<1> QED
  BY <1>7, <1>8, <1>13, <1>14, <1>15, <1>16, <1>17, RestKeeps DEF Owned

(***************************************************************************)
(* The acceptor authorizes: its peer had the key first, and holds it still *)
(* or holds none.                                                          *)
(***************************************************************************)
LEMMA VerificationFinds ==
    ASSUME IInv, NEW owner, Owned(owner), RelationsOK,
           NEW s \in Session, NEW n \in Node, SynchronizeVerification(s, n)
    PROVE  LET e == EndOf(s, n)
               k == strategy[e].key
           IN  /\ NetOK /\ PeersOK /\ RestOK /\ Readable(s, n) /\ e \in End /\ Rev(e) \in End
               /\ k \in Exchange /\ k # 0 /\ owner[k] = Rev(e)
               /\ <<Rev(e), k>> \in granted /\ <<e, k>> \notin granted
               /\ strategy[e].role = "acceptor" /\ strategy[e].stage = "Verification"
               /\ state[e] # "Authorized"
               /\ state[Rev(e)] = "Authorized" => strategy[Rev(e)].key = k
               /\ \A y \in Exchange : ~(Accepted(Rev(e), y) /\ y = k)
<1> DEFINE e == EndOf(s, n)
           k == strategy[e].key
<1>1. /\ NetOK /\ PeersOK /\ RestOK /\ Readable(s, n) /\ e \in End
      /\ receiver[e] = "processor"
  BY ReachesType DEF SynchronizeVerification, Negotiates
<1>2. /\ strategy[e].role = "acceptor" /\ strategy[e].stage = "Verification"
      /\ k \in Exchange /\ k \in Proven
  BY <1>1, FirstIsSent DEF SynchronizeVerification, AcceptsVerification, Proven
<1>3. AcceptorOK(owner, e) /\ state[e] # "Authorized"
  BY <1>1, <1>2 DEF Owned, StrategyOK
<1>4. /\ owner[k] = Rev(e) /\ <<e, k>> \notin granted /\ <<Rev(e), k>> \in granted
  BY <1>2, <1>3 DEF AcceptorOK, Owned, GrantedOK
<1>5. Rev(e) \in End /\ Rev(Rev(e)) = e /\ Rev(e) # e
  BY <1>1, RevRev
<1>6. k # 0
  BY <1>4, <1>5, NoneIsUnused
<1>7. Accepted(e, k)
  BY <1>2 DEF Accepted
<1>8. ASSUME NEW y \in Exchange, Accepted(Rev(e), y), y # 0 PROVE owner[y] = e
  <2>1. AcceptorOK(owner, Rev(e)) /\ strategy[Rev(e)].key = y
    BY <1>5, <1>8 DEF Accepted, Owned, StrategyOK
  <2> QED
    BY <2>1, <1>5, <1>8 DEF AcceptorOK
<1>9. ASSUME state[Rev(e)] = "Authorized" PROVE strategy[Rev(e)].key = k
  <2> DEFINE y == strategy[Rev(e)].key
  <2>1. /\ strategy[Rev(e)].stage = "Complete" /\ <<Rev(e), y>> \in granted
        /\ y \in Exchange
    BY <1>1, <1>5, <1>9 DEF Owned, StrategyOK, PeersOK, Strategy
  <2>2. CASE strategy[Rev(e)].role = "initiator"
    <3>1. IsAnswered(Rev(e))
      BY <2>1, <2>2 DEF IsAnswered
    <3>2. strategy[Rev(e)].own = k
      BY <3>1, <1>1, <1>2, <1>4, <1>7 DEF RelationsOK, AcceptedIsHeld
    <3>3. InitiatorOK(owner, Rev(e))
      BY <2>2, <1>5 DEF Owned, StrategyOK
    <3> QED
      BY <3>2, <3>3, <2>1 DEF InitiatorOK
  <2>3. CASE strategy[Rev(e)].role = "acceptor"
    <3>1. Accepted(Rev(e), y) /\ y # 0
      BY <2>1, <2>3, <1>5, NoneIsUnused DEF Accepted
    <3>2. owner[y] = e
      BY <3>1, <2>1, <1>8
    <3>3. <<e, y>> \in granted
      BY <3>2, <2>1, <1>5 DEF Owned, GrantedOK
    <3> QED
      BY <3>1, <3>3, <2>1, <1>1, <1>2, <1>4, <1>7 DEF RelationsOK, OneIsAccepted
  <2>4. CASE strategy[Rev(e)].role = "none"
    BY <2>1, <2>4, <1>5 DEF Owned, StrategyOK
  <2> QED
    BY <2>2, <2>3, <2>4, <1>1, <1>5 DEF PeersOK, Strategy
<1>10. \A y \in Exchange : ~(Accepted(Rev(e), y) /\ y = k)
  BY <1>4, <1>5, <1>6, <1>8
<1> QED
  BY <1>1, <1>2, <1>3, <1>4, <1>5, <1>6, <1>9, <1>10

LEMMA VerificationKeeps ==
    ASSUME IInv, IInv', ChannelsOK, NEW owner, Owned(owner), RelationsOK,
           NEW s \in Session, NEW n \in Node, SynchronizeVerification(s, n)
    PROVE  ChannelsOK' /\ Owned(owner)' /\ RelationsOK'
<1> DEFINE e == EndOf(s, n)
           k == strategy[e].key
<1>1. /\ NetOK /\ PeersOK /\ RestOK /\ Readable(s, n) /\ e \in End
      /\ k \in Exchange /\ owner[k] = Rev(e)
      /\ <<Rev(e), k>> \in granted /\ <<e, k>> \notin granted
      /\ strategy[e].role = "acceptor" /\ strategy[e].stage = "Verification"
      /\ \A y \in Exchange : ~(Accepted(Rev(e), y) /\ y = k)
  BY VerificationFinds
<1>2. /\ strategy' = [strategy EXCEPT ![e].stage = "Complete", ![e].key = k]
      /\ state' = [state EXCEPT ![e] = "Authorized"]
      /\ granted' = granted \cup {<<e, k>>}
      /\ Consumed(s, n)
      /\ UNCHANGED <<exchanges, dials, resolving, tracked>>
  BY DEF SynchronizeVerification, Authorize
<1>3. Gains({}, {})
  BY <1>1, <1>2, TakenShrinks, ShrinksGains
<1>4. PICK a \in End, key \in Exchange : a = e /\ key = k
  BY <1>1
<1>5. /\ strategy'[a].role = "acceptor" /\ strategy'[a].stage = "Complete"
      /\ strategy'[a].key = key
      /\ state'[a] = "Authorized"
      /\ \A f \in End : f # a => strategy'[f] = strategy[f] /\ state'[f] = state[f]
  BY <1>1, <1>2, <1>4 DEF PeersOK, Strategy
<1>6. /\ Rev(a) \in End /\ Rev(Rev(a)) = a /\ Rev(a) # a
      /\ owner[key] = Rev(a) /\ <<Rev(a), key>> \in granted
      /\ strategy[a].role = "acceptor" /\ strategy[a].key = key
      /\ a \in tracked
      /\ ~Accepted(Rev(a), key)
  BY <1>1, <1>4, RevRev DEF Owned, StrategyOK
<1>7. /\ ChannelsOK' /\ Answered' \subseteq Answered /\ Proven' \subseteq Proven
      /\ \A c \in Channel, x \in Exchange :
            Asks(c, x)' => Asks(c, x) /\ EndOf(c[1], c[2])' = EndOf(c[1], c[2])
  BY <1>3 DEF Gains
<1>8. /\ UNCHANGED <<exchanges, dials, resolving, tracked>>
      /\ granted' = granted \cup {<<a, key>>}
      /\ resolving \in [End -> Exchange] /\ granted \subseteq End \X Exchange
  BY <1>1, <1>2, <1>4 DEF RestOK
<1>9. \A f \in End : IsAnswered(f)' => IsAnswered(f)
  BY <1>5, <1>7, <1>8 DEF IsAnswered
<1>10. \A x \in Exchange : Unused(x) => Unused(x)' /\ x # key
  BY <1>5, <1>6, <1>7, <1>8 DEF Unused
<1>11. \A f \in End, x \in Exchange : Accepted(f, x)' <=> Accepted(f, x)
  BY <1>5, <1>6 DEF Accepted
<1>12. \A f \in End, x \in Exchange : Held(f, x) => Held(f, x)'
  BY <1>5, <1>6 DEF Held
<1>13. Accepted(a, key) /\ \A x \in Exchange : Accepted(a, x) => x = key
  BY <1>6 DEF Accepted
<1>14. RelationsOK'
  <2>1. DialsUnused'
    BY <1>1, <1>8, <1>10 DEF RelationsOK, DialsUnused, RestOK, Dial
  <2>2. AcceptedIsHeld'
    <3> SUFFICES ASSUME NEW f \in End, NEW x \in Exchange,
                        Accepted(f, x)', <<Rev(f), x>> \in granted', IsAnswered(Rev(f))'
                 PROVE  Held(Rev(f), x)'
      BY DEF AcceptedIsHeld, Held
    <3>1. Rev(f) \in End /\ Rev(Rev(f)) = f /\ Accepted(f, x) /\ IsAnswered(Rev(f))
      BY <1>9, <1>11, RevRev
    <3>2. <<Rev(f), x>> \in granted
      BY <3>1, <1>6, <1>8
    <3>3. Held(Rev(f), x)
      BY <3>1, <3>2 DEF RelationsOK, AcceptedIsHeld, Held
    <3> QED
      BY <3>1, <3>3, <1>12
  <2>3. OneIsBlocked'
    <3>1. \A f \in End : IsBlocked(f) => IsBlocked(f)'
      BY <1>5, <1>6, <1>8 DEF IsBlocked
    <3> QED
      BY <3>1, <1>9, RevRev DEF RelationsOK, OneIsBlocked
  <2>4. OneIsAccepted'
    <3> SUFFICES ASSUME NEW f \in End, NEW x \in Exchange, NEW y \in Exchange,
                        Accepted(f, x)', <<Rev(f), x>> \in granted', Accepted(Rev(f), y)',
                        <<f, y>> \in granted'
                 PROVE  FALSE
      BY DEF OneIsAccepted
    <3>1. Rev(f) \in End /\ Rev(Rev(f)) = f /\ Accepted(f, x) /\ Accepted(Rev(f), y)
      BY <1>11, RevRev
    <3>2. <<Rev(f), x>> \in granted /\ <<f, y>> \in granted
      BY <3>1, <1>6, <1>8
    <3> QED
      BY <3>1, <3>2 DEF RelationsOK, OneIsAccepted
  <2> QED
    BY <2>1, <2>2, <2>3, <2>4 DEF RelationsOK
<1>15. ResolvingOK(owner)'
  BY <1>6, <1>8 DEF Owned, ResolvingOK
<1>16. GrantedOK(owner)'
  <2>1. \A f \in End, x \in Exchange : <<f, x>> \in granted' =>
            owner[x] \in {f, Rev(f)} /\ <<owner[x], x>> \in granted'
    BY <1>6, <1>8 DEF Owned, GrantedOK
  <2>2. \A x \in Proven' : <<owner[x], x>> \in granted'
    BY <1>7, <1>8 DEF Owned, GrantedOK
  <2>3. \A x \in Answered' : owner[x] \in End
    BY <1>7 DEF Owned, GrantedOK
  <2> QED
    BY <2>1, <2>2, <2>3 DEF GrantedOK
<1>17. StrategyOK(owner)'
  <2> SUFFICES ASSUME NEW f \in End
               PROVE  (/\ strategy[f].role = "none" => strategy[f].stage = "Initialization"
                       /\ strategy[f].role # "none" => f \in tracked
                       /\ strategy[f].role = "initiator" => InitiatorOK(owner, f)
                       /\ strategy[f].role = "acceptor" => AcceptorOK(owner, f)
                       /\ strategy[f].stage = "Complete" <=> state[f] = "Authorized"
                       /\ strategy[f].stage = "Complete" => <<f, strategy[f].key>> \in granted)'
    BY DEF StrategyOK
  <2>1. CASE f = a
    BY <2>1, <1>5, <1>6, <1>8 DEF AcceptorOK
  <2>2. CASE f # a
    <3>1. \A x : <<f, x>> \in granted' => <<f, x>> \in granted
      BY <2>2, <1>8
    <3> QED
      BY <2>2, <3>1, <1>5, <1>8 DEF Owned, StrategyOK, InitiatorOK, AcceptorOK
  <2> QED
    BY <2>1, <2>2
<1>18. AsksOK(owner)'
  <2> SUFFICES ASSUME NEW c \in Channel, NEW x \in Exchange, Asks(c, x)'
               PROVE  /\ owner[x] = Rev(EndOf(c[1], c[2])')
                      /\ Unused(x)'
                      /\ \A other \in Channel : Asks(other, x)' => other = c
                      /\ \A d \in dials' : d.exchange # x
    BY DEF AsksOK, Rev
  <2>1. Asks(c, x) /\ EndOf(c[1], c[2])' = EndOf(c[1], c[2])
    BY <1>7
  <2> QED
    BY <2>1, <1>7, <1>8, <1>10 DEF Owned, AsksOK
<1> QED
  BY <1>7, <1>8, <1>14, <1>15, <1>16, <1>17, <1>18, RestKeeps DEF Owned

-------------------------------------------------------------------------------
(***************************************************************************)
(* The invariant.                                                          *)
(***************************************************************************)
LEMMA InitLInv == ASSUME Init PROVE LInv
<1> DEFINE none == [x \in Exchange |-> NoEnd]
<1>1. none \in [Exchange -> End \cup {NoEnd}] /\ \A x \in Exchange : none[x] = NoEnd
  OBVIOUS
<1>2. \A c \in Channel : chan[c] = <<>>
  BY DEF Init, Channel
<1>3. ChannelsOK
  BY <1>2 DEF ChannelsOK
<1>4. Answered = {} /\ Proven = {} /\ \A c \in Channel, x \in Exchange : ~Asks(c, x)
  BY <1>2 DEF Answered, Proven, Sends, Asks
<1>5. \A e \in End : strategy[e] = NoStrategy /\ resolving[e] = 0 /\ state[e] = "Unauthorized"
  BY DEF Init
<1>6. dials = {} /\ granted = {} /\ exchanges = 0
  BY DEF Init
<1>7. RelationsOK
  BY <1>4, <1>5, <1>6 DEF RelationsOK, DialsUnused, AcceptedIsHeld, OneIsBlocked, OneIsAccepted,
     Accepted, IsAnswered, NoStrategy
<1> HIDE DEF none
<1>8. OwnerOK(none) /\ DialsOK(none) /\ ResolvingOK(none) /\ GrantedOK(none) /\ AsksOK(none)
  BY <1>1, <1>4, <1>5, <1>6, ExchangeType DEF OwnerOK, DialsOK, ResolvingOK, GrantedOK, AsksOK
<1>9. StrategyOK(none)
  BY <1>5, <1>6 DEF StrategyOK, NoStrategy
<1> QED
  BY <1>1, <1>3, <1>7, <1>8, <1>9 DEF LInv, Owned

(* Every step that is none of the handshake's, nor begins an exchange, nor *)
(* makes a connection, is quiet.                                           *)
LEMMA StepLInv ==
    ASSUME IInv, IInv', LInv, [Next]_vars
    PROVE  LInv'
<1>1. PICK owner \in [Exchange -> End \cup {NoEnd}] : Owned(owner)
  BY DEF LInv
<1>2. ChannelsOK /\ RelationsOK
  BY DEF LInv
<1>3. ASSUME Quiet, Gains({}, {}) PROVE LInv'
  <2>1. Owned(owner)' /\ RelationsOK'
    BY <1>1, <1>2, <1>3, QuietKeeps
  <2> QED
    BY <1>3, <2>1 DEF LInv, Gains
<1>4. ASSUME ChannelsOK', Owned(owner)', RelationsOK' PROVE LInv'
  BY <1>4 DEF LInv
<1>5. CASE UNCHANGED vars
  <2>1. UNCHANGED netVars /\ UNCHANGED <<granted, exchanges, strategy, state, tracked, resolving, dials>>
    BY <1>5 DEF vars, netVars, nodeVars
  <2> QED
    BY <2>1, <1>2, <1>3, StillShrinks, ShrinksGains, StillQuiet
<1>6. ASSUME NEW e \in Bootstraps, ScheduleConnect(e) PROVE LInv'
  BY <1>2, <1>3, <1>6, BootstrapsAssumption, ScheduleConnectQuiet
<1>7. ASSUME NEW d \in dials, Connect(d) \/ DeclareResolvingPeer(d) \/ ConnectFails(d) PROVE LInv'
  <2>1. CASE Connect(d) \/ (DeclareResolvingPeer(d) /\ exchanges' = exchanges) \/ ConnectFails(d)
    BY <2>1, <1>2, <1>3, DialingQuiet
  <2>2. CASE DeclareResolvingPeer(d) /\ exchanges' # exchanges
    BY <2>2, <1>1, <1>2, DeclareBegins DEF LInv
  <2> QED
    BY <2>1, <2>2, <1>7
<1>8. ASSUME NEW d \in dials, OnSessionStarted(d) PROVE LInv'
  BY <1>1, <1>2, <1>4, <1>8, StartedKeeps
<1>9. ASSUME NEW s \in Session, NEW n \in Node, Receiving(s, n) PROVE LInv'
  <2>1. CASE LinkPeer(s, n)
    BY <2>1, <1>2, <1>3, LinkPeerQuiet
  <2>2. CASE NoSink(s, n) \/ ExchangeRefuses(s, n)
    BY <2>2, <1>2, <1>3, RefusesQuiet
  <2>3. CASE SynchronizeRequest(s, n)
    BY <2>3, <1>1, <1>2, <1>4, RequestKeeps
  <2>4. CASE SynchronizeResponse(s, n)
    BY <2>4, <1>1, <1>2, <1>4, ResponseKeeps
  <2>5. CASE SynchronizeVerification(s, n)
    BY <2>5, <1>1, <1>2, <1>4, VerificationKeeps
  <2>6. CASE SynchronizeFails(s, n)
    BY <2>6, <1>1, <1>2, <1>3, SynchronizeFailsQuiet
  <2>7. CASE AuthorizedQueues(s, n)
    BY <2>7, <1>2, <1>3, AuthorizedQueuesQuiet
  <2>8. CASE AuthorizedAnswers(s, n)
    BY <2>8, <1>2, <1>3, AuthorizedAnswersQuiet
  <2>9. CASE SessionEnds(s, n)
    BY <2>9, <1>2, <1>3, OnSessionStoppedQuiet
  <2> QED
    BY <2>1, <2>2, <2>3, <2>4, <2>5, <2>6, <2>7, <2>8, <2>9, <1>9 DEF Receiving
<1>10. ASSUME NEW n \in Node, HandleIncoming(n) PROVE LInv'
  BY <1>2, <1>3, <1>10, HandleIncomingQuiet
<1>11. ASSUME NEW s \in Session, NEW n \in Node, SessionFails(s, n) PROVE LInv'
  BY <1>2, <1>3, <1>11, OnSessionStoppedQuiet
<1>12. ASSUME NEW n \in Node, Restart(n) PROVE LInv'
  BY <1>2, <1>3, <1>12, RestartQuiet
<1> QED
  BY <1>5, <1>6, <1>7, <1>8, <1>9, <1>10, <1>11, <1>12 DEF Next, Dialing

LEMMA LinkInductive == Spec => [](IInv /\ LInv)
<1>1. Init => LInv
  BY InitLInv
<1>2. IInv /\ IInv' /\ LInv /\ [Next]_vars => LInv'
  BY StepLInv
<1> QED
  BY <1>1, <1>2, Inductive, PTL DEF Spec

(* Two ends that have authorized each other are not both initiators: one   *)
(* of the two would be blocked.  Nor are they both acceptors: each would   *)
(* hold a key that the other was granted first.                            *)
LEMMA LInvAgrees == ASSUME IInv, LInv PROVE KeyAgreement
<1>1. PICK owner \in [Exchange -> End \cup {NoEnd}] : Owned(owner)
  BY DEF LInv
<1>2. RelationsOK /\ PeersOK
  BY DEF LInv, IInv
<1>3. ASSUME NEW e \in End, state[e] = "Authorized"
      PROVE  /\ strategy[e].stage = "Complete" /\ strategy[e].key \in Exchange
             /\ strategy[e].role \in {"initiator", "acceptor"}
             /\ <<e, strategy[e].key>> \in granted
             /\ strategy[e].role = "initiator" =>
                   strategy[e].key = strategy[e].own /\ IsAnswered(e) /\ ~IsBlocked(e)
             /\ strategy[e].role = "acceptor" =>
                   Accepted(e, strategy[e].key) /\ <<Rev(e), strategy[e].key>> \in granted
  <2>1. /\ strategy[e].stage = "Complete" /\ strategy[e].key \in Exchange
        /\ strategy[e].role \in {"initiator", "acceptor"}
        /\ <<e, strategy[e].key>> \in granted
    BY <1>1, <1>2, <1>3 DEF Owned, StrategyOK, PeersOK, Strategy
  <2>2. strategy[e].role = "initiator" =>
            strategy[e].key = strategy[e].own /\ IsAnswered(e) /\ ~IsBlocked(e)
    BY <1>1, <2>1 DEF Owned, StrategyOK, InitiatorOK, IsAnswered, IsBlocked
  <2>3. strategy[e].role = "acceptor" =>
            Accepted(e, strategy[e].key) /\ <<Rev(e), strategy[e].key>> \in granted
    <3> SUFFICES ASSUME strategy[e].role = "acceptor"
                 PROVE  Accepted(e, strategy[e].key) /\ <<Rev(e), strategy[e].key>> \in granted
      OBVIOUS
    <3>1. owner[strategy[e].key] = Rev(e)
      BY <1>1, <2>1 DEF Owned, StrategyOK, AcceptorOK
    <3>2. <<owner[strategy[e].key], strategy[e].key>> \in granted
      BY <1>1, <2>1 DEF Owned, GrantedOK
    <3> QED
      BY <3>1, <3>2 DEF Accepted
  <2> QED
    BY <2>1, <2>2, <2>3
<1>4. ASSUME NEW e \in End, state[e] = "Authorized", state[Rev(e)] = "Authorized",
             strategy[e].role = "acceptor"
      PROVE  strategy[Rev(e)].role = "initiator" /\ strategy[Rev(e)].key = strategy[e].key
  <2>1. Rev(e) \in End /\ Rev(Rev(e)) = e
    BY RevRev
  <2>2. CASE strategy[Rev(e)].role = "initiator"
    BY <2>1, <2>2, <1>2, <1>3, <1>4 DEF RelationsOK, AcceptedIsHeld
  <2>3. CASE strategy[Rev(e)].role = "acceptor"
    BY <2>1, <2>3, <1>2, <1>3, <1>4 DEF RelationsOK, OneIsAccepted
  <2> QED
    BY <2>1, <2>2, <2>3, <1>3, <1>4
<1>5. ASSUME NEW e \in End, state[e] = "Authorized", state[Rev(e)] = "Authorized",
             strategy[e].role = "initiator"
      PROVE  strategy[Rev(e)].role = "acceptor"
  <2>1. Rev(e) \in End
    BY RevRev
  <2> QED
    BY <2>1, <1>2, <1>3, <1>5 DEF RelationsOK, OneIsBlocked
<1>6. ASSUME NEW e \in End, state[e] = "Authorized", state[Rev(e)] = "Authorized"
      PROVE  /\ strategy[e].key = strategy[Rev(e)].key
             /\ strategy[e].role # strategy[Rev(e)].role
  <2>1. Rev(e) \in End /\ Rev(Rev(e)) = e
    BY RevRev
  <2>2. CASE strategy[e].role = "acceptor"
    BY <2>2, <1>4, <1>6
  <2>3. CASE strategy[e].role = "initiator"
    BY <2>1, <2>3, <1>4, <1>5, <1>6
  <2> QED
    BY <2>2, <2>3, <1>3, <1>6
<1> QED
  BY <1>6 DEF KeyAgreement

(* Two nodes that have authorized each other hold the key of the same      *)
(* exchange, one as its initiator and the other as its acceptor: through   *)
(* crossing dials, second connections, lost sessions and restarts.         *)
THEOREM KeysAgree == Spec => []KeyAgreement
<1>1. IInv /\ LInv => KeyAgreement
  BY LInvAgrees
<1> QED
  BY <1>1, LinkInductive, PTL

-------------------------------------------------------------------------------
(***************************************************************************)
(* The refinement: what a step does to the keys that the ends hold.        *)
(***************************************************************************)
LEMMA LinkEnds == Link!End = End /\ \A e \in End : Link!Rev(e) = Rev(e)
BY DEF Link!End, Link!Rev, End, Rev

LEMMA ViewOf ==
    /\ \A e \in End : view[e] = IF state[e] = "Authorized" THEN strategy[e].key ELSE 0
    /\ \A e \in End : view'[e] = IF state'[e] = "Authorized" THEN strategy'[e].key ELSE 0
    /\ view = [e \in End |-> view[e]] /\ view' = [e \in End |-> view'[e]]
BY DEF view

LEMMA ViewStays ==
    ASSUME \A f \in End : \/ Kept(f)
                          \/ state[f] # "Authorized" /\ state'[f] # "Authorized",
           granted' = granted
    PROVE  UNCHANGED <<view, granted>>
<1>1. \A f \in End : view'[f] = view[f]
  BY ViewOf DEF Kept
<1> QED
  BY <1>1, ViewOf

LEMMA ViewGrants ==
    ASSUME IInv, NEW e \in End, NEW k \in Exchange, Authorize(e, k), state[e] # "Authorized"
    PROVE  Link!Grant(e, k)
<1>1. view[e] = 0 /\ view'[e] = k
  BY ViewOf DEF Authorize, IInv, PeersOK, Strategy
<1>2. \A f \in End : f # e => view'[f] = view[f]
  BY ViewOf DEF Authorize, IInv, PeersOK
<1>3. view' = [view EXCEPT ![e] = k]
  BY <1>1, <1>2, ViewOf
<1> QED
  BY <1>1, <1>3 DEF Link!Grant, Authorize

(* Only three handlers show: the initiator's last, the acceptor's last and *)
(* the end of a process.                                                   *)
LEMMA ResponseOpens ==
    ASSUME IInv, LInv, NEW s \in Session, NEW n \in Node, SynchronizeResponse(s, n)
    PROVE  Link!Next
<1> DEFINE e == EndOf(s, n)
           k == Head(chan[<<s, n>>]).key
<1>1. PICK owner \in [Exchange -> End \cup {NoEnd}] : Owned(owner)
  BY DEF LInv
<1>2. RelationsOK
  BY DEF LInv
<1>3. /\ e \in End /\ Rev(e) \in End /\ k \in Exchange /\ k # 0
      /\ state[e] # "Authorized" /\ state[Rev(e)] # "Authorized"
      /\ \A f \in End : <<f, k>> \notin granted
  BY <1>1, <1>2, ResponseFinds
<1>4. k \in 1 .. MaxExchanges
  BY <1>3, BoundsAssumption DEF Exchange
<1>5. Authorize(e, k)
  BY DEF SynchronizeResponse
<1>6. Link!Grant(e, k)
  BY <1>3, <1>5, ViewGrants
<1>7. view[Rev(e)] = 0
  BY <1>3, ViewOf
<1>8. Link!Open(e, k)
  BY <1>3, <1>6, <1>7, LinkEnds DEF Link!Open
<1> HIDE DEF e, k
<1> QED
  BY <1>3, <1>4, <1>8, LinkEnds DEF Link!Next

LEMMA VerificationAccepts ==
    ASSUME IInv, LInv, NEW s \in Session, NEW n \in Node, SynchronizeVerification(s, n)
    PROVE  Link!Next
<1> DEFINE e == EndOf(s, n)
           k == strategy[e].key
<1>1. PICK owner \in [Exchange -> End \cup {NoEnd}] : Owned(owner)
  BY DEF LInv
<1>2. RelationsOK
  BY DEF LInv
<1>3. /\ e \in End /\ Rev(e) \in End /\ k \in Exchange /\ k # 0
      /\ <<Rev(e), k>> \in granted /\ <<e, k>> \notin granted
      /\ state[e] # "Authorized"
      /\ state[Rev(e)] = "Authorized" => strategy[Rev(e)].key = k
  BY <1>1, <1>2, VerificationFinds
<1>4. k \in 1 .. MaxExchanges
  BY <1>3, BoundsAssumption DEF Exchange
<1>5. Authorize(e, k)
  BY DEF SynchronizeVerification
<1>6. Link!Grant(e, k)
  BY <1>3, <1>5, ViewGrants
<1>7. view[Rev(e)] \in {k, 0}
  BY <1>3, ViewOf
<1>8. Link!Accept(e, k)
  BY <1>3, <1>6, <1>7, LinkEnds DEF Link!Accept
<1> HIDE DEF e, k
<1> QED
  BY <1>3, <1>4, <1>8, LinkEnds DEF Link!Next

LEMMA RestartForgets ==
    ASSUME IInv, NEW n \in Node, Restart(n)
    PROVE  Link!Next
<1>1. view' = [e \in End |-> IF e[1] = n THEN 0 ELSE view[e]]
  <2>1. \A e \in End : view'[e] = IF e[1] = n THEN 0 ELSE view[e]
    BY ViewOf DEF Restart
  <2> QED
    BY <2>1, ViewOf
<1>2. Link!Forget(n)
  BY <1>1, LinkEnds DEF Link!Forget, Restart
<1> QED
  BY <1>2 DEF Link!Next

(* Of an end that negotiates nothing shows until it authorizes.            *)
LEMMA NegotiationHidden ==
    ASSUME IInv, NEW s \in Session, NEW n \in Node,
           SynchronizeRequest(s, n) \/ SynchronizeFails(s, n)
    PROVE  UNCHANGED <<view, granted>>
<1> DEFINE e == EndOf(s, n)
<1>1. PeersOK /\ e \in End /\ receiver[e] = "processor"
  BY ReachesType DEF SynchronizeRequest, SynchronizeFails, Negotiates
<1>2. state[e] # "Authorized" /\ state'[e] # "Authorized" /\ granted' = granted
  BY <1>1 DEF SynchronizeRequest, Derive, SynchronizeFails, Revoke, PeersOK, SinkMatchesMediator
<1>3. \A f \in End : f # e => Kept(f)
  BY <1>1 DEF SynchronizeRequest, Derive, SynchronizeFails, Revoke, PeersOK, Kept
<1> QED
  BY <1>1, <1>2, <1>3, ViewStays

LEMMA LinkHidden ==
    ASSUME IInv, NEW s \in Session, NEW n \in Node, LinkPeer(s, n)
    PROVE  UNCHANGED <<view, granted>>
<1> DEFINE e == EndOf(s, n)
<1>1. PeersOK /\ granted' = granted
  BY DEF LinkPeer, IInv
<1>2. CASE UNCHANGED nodeVars
  BY <1>1, <1>2, ViewStays DEF nodeVars, Kept
<1>3. CASE /\ e \notin tracked /\ tracked' = tracked \cup {e}
           /\ \E x : strategy' = [strategy EXCEPT ![e] = x]
           /\ UNCHANGED state
  <2>1. \A f \in End : Kept(f) \/ (state[f] # "Authorized" /\ state'[f] # "Authorized")
    BY <1>1, <1>3 DEF PeersOK, SinkMatchesMediator, Kept
  <2> QED
    BY <1>1, <2>1, ViewStays
<1> QED
  BY <1>2, <1>3 DEF LinkPeer

LEMMA StepLinks ==
    ASSUME IInv, LInv, [Next]_vars
    PROVE  Link!Next \/ UNCHANGED <<view, granted>>
<1>1. ASSUME UNCHANGED <<strategy, state, tracked, granted>> PROVE UNCHANGED <<view, granted>>
  BY <1>1, ViewStays DEF Kept
<1>2. CASE UNCHANGED vars
  BY <1>1, <1>2 DEF vars, nodeVars
<1>3. CASE \E e \in Bootstraps : ScheduleConnect(e)
  BY <1>1, <1>3 DEF ScheduleConnect, nodeVars
<1>4. CASE Dialing \/ \E d \in dials : ConnectFails(d)
  BY <1>1, <1>4 DEF Dialing, Connect, DeclareResolvingPeer, OnSessionStarted, ConnectFails, nodeVars
<1>5. ASSUME NEW s \in Session, NEW n \in Node, Receiving(s, n)
      PROVE  Link!Next \/ UNCHANGED <<view, granted>>
  <2>1. CASE NoSink(s, n) \/ ExchangeRefuses(s, n)
    BY <2>1, <1>1 DEF NoSink, ExchangeRefuses, nodeVars
  <2>2. CASE AuthorizedQueues(s, n) \/ AuthorizedAnswers(s, n) \/ SessionEnds(s, n)
    BY <2>2, <1>1 DEF AuthorizedQueues, AuthorizedAnswers, SessionEnds, OnSessionStopped, nodeVars
  <2> QED
    BY <1>5, <2>1, <2>2, LinkHidden, NegotiationHidden, ResponseOpens, VerificationAccepts
       DEF Receiving
<1>6. CASE \E n \in Node : HandleIncoming(n)
  BY <1>1, <1>6 DEF HandleIncoming, nodeVars
<1>7. CASE \E s \in Session, n \in Node : SessionFails(s, n)
  BY <1>1, <1>7 DEF SessionFails, OnSessionStopped, nodeVars
<1>8. CASE \E n \in Node : Restart(n)
  BY <1>8, RestartForgets
<1> QED
  BY <1>2, <1>3, <1>4, <1>5, <1>6, <1>7, <1>8 DEF Next

(* The handshake of PeerExchange, with its network, its two endpoints per  *)
(* node and its restarts, implements AuthorizedLink.                       *)
THEOREM LinkRefined == Spec => LinkSpec
<1>1. Init => Link!Init
  BY LinkEnds DEF Init, view, Link!Init
<1>2. IInv /\ LInv /\ [Next]_vars => [Link!Next]_(Link!vars)
  BY StepLinks DEF Link!vars
<1> QED
  BY <1>1, <1>2, LinkInductive, PTL DEF Spec, LinkSpec, Link!Spec

-------------------------------------------------------------------------------
(***************************************************************************)
(* Discovery.  The discovery request of an initiator is behind its         *)
(* verification, and a channel keeps its order: what comes to its head has *)
(* an authorized receiver, and is of the key that both ends hold.  A       *)
(* process that dies would take the key of what it has sent with it.       *)
(***************************************************************************)
(* The messages q to the end e, where st and sg are the states and the     *)
(* strategies of all ends.                                                 *)
Ordered(q, e, st, sg) ==
    \A i \in DOMAIN q : IsApplication(q[i]) =>
        /\ st[Rev(e)] = "Authorized" /\ sg[Rev(e)].key = q[i].key
        /\ \/ st[e] = "Authorized"
           \/ \E j \in DOMAIN q : j < i /\ q[j].type = "Verification"

(* Every channel is like that, and what is queued for the core thread is   *)
(* of two ends that are authorized.                                        *)
ChannelsOrdered ==
    \A c \in Channel : Ordered(chan[c], EndOf(c[1], c[2]), state, strategy)

QueuedIsMutual ==
    \A n \in Node : \A i \in DOMAIN inbox[n] :
        LET e == inbox[n][i].end
        IN state[e] = "Authorized" /\ state[Rev(e)] = "Authorized"

OrderInv == ChannelsOrdered /\ QueuedIsMutual

(* Whoever is authorized stays so, with its keys.                          *)
Persists(st, sg, st2, sg2) ==
    \A e \in End : st[e] = "Authorized" => st2[e] = "Authorized" /\ sg2[e] = sg[e]

(* The order of a channel outlives steps that keep who is authorized.      *)
LEMMA OrderedPersists ==
    ASSUME NEW q, NEW e \in End, NEW st, NEW sg, NEW st2, NEW sg2,
           Ordered(q, e, st, sg), Persists(st, sg, st2, sg2)
    PROVE  Ordered(q, e, st2, sg2)
<1>1. Rev(e) \in End
  BY RevType
<1> QED
  BY <1>1 DEF Ordered, Persists

(* A channel without application messages is ordered for anybody.          *)
LEMMA OrderedWithout ==
    ASSUME NEW q, NEW e, NEW st, NEW sg, \A i \in DOMAIN q : ~IsApplication(q[i])
    PROVE  Ordered(q, e, st, sg)
BY DEF Ordered

(* What is behind a verification that has been read finds e authorized.    *)
LEMMA OrderedTail ==
    ASSUME NEW q \in Seq(Message), q # <<>>, NEW e, NEW st, NEW sg, Ordered(q, e, st, sg),
           Head(q).type = "Verification" => st[e] = "Authorized"
    PROVE  Ordered(Tail(q), e, st, sg)
<1>1. /\ \A i \in DOMAIN Tail(q) : i + 1 \in DOMAIN q /\ Tail(q)[i] = q[i + 1] /\ i \in Nat
      /\ \A j \in DOMAIN q : j \in Nat /\ (j = 1 \/ (j - 1 \in DOMAIN Tail(q) /\ Tail(q)[j - 1] = q[j]))
      /\ Head(q) = q[1]
  OBVIOUS
<1> SUFFICES ASSUME NEW i \in DOMAIN Tail(q), IsApplication(Tail(q)[i])
             PROVE  /\ st[Rev(e)] = "Authorized" /\ sg[Rev(e)].key = Tail(q)[i].key
                    /\ \/ st[e] = "Authorized"
                       \/ \E j \in DOMAIN Tail(q) : j < i /\ Tail(q)[j].type = "Verification"
  BY DEF Ordered
<1>2. /\ st[Rev(e)] = "Authorized" /\ sg[Rev(e)].key = q[i + 1].key
      /\ \/ st[e] = "Authorized"
         \/ \E j \in DOMAIN q : j < i + 1 /\ q[j].type = "Verification"
  BY <1>1 DEF Ordered
<1>3. ASSUME NEW j \in DOMAIN q, j < i + 1, q[j].type = "Verification", st[e] # "Authorized"
      PROVE  \E k \in DOMAIN Tail(q) : k < i /\ Tail(q)[k].type = "Verification"
  <2>1. j # 1
    BY <1>1, <1>3
  <2>2. j - 1 \in DOMAIN Tail(q) /\ Tail(q)[j - 1] = q[j] /\ j - 1 < i
    BY <1>1, <1>3, <2>1
  <2> QED
    BY <1>3, <2>2
<1> QED
  BY <1>1, <1>2, <1>3

(* Of two ordered parts, one behind the other is ordered.                  *)
LEMMA OrderedRow ==
    ASSUME NEW q \in Seq(Message), NEW r \in Seq(Message), NEW e, NEW st, NEW sg,
           Ordered(q, e, st, sg), Ordered(r, e, st, sg)
    PROVE  Ordered(q \o r, e, st, sg)
<1> DEFINE w == q \o r
<1>1. /\ Len(q) \in Nat /\ Len(r) \in Nat
      /\ DOMAIN q = 1..Len(q) /\ DOMAIN r = 1..Len(r) /\ DOMAIN w = 1..(Len(q) + Len(r))
      /\ \A i \in DOMAIN w : w[i] = IF i <= Len(q) THEN q[i] ELSE r[i - Len(q)]
  BY ConcatProperties
<1> HIDE DEF w
<1> SUFFICES ASSUME NEW i \in DOMAIN w, IsApplication(w[i])
             PROVE  /\ st[Rev(e)] = "Authorized" /\ sg[Rev(e)].key = w[i].key
                    /\ \/ st[e] = "Authorized"
                       \/ \E j \in DOMAIN w : j < i /\ w[j].type = "Verification"
  BY DEF Ordered, w
<1>2. CASE i <= Len(q)
  <2>1. i \in DOMAIN q /\ w[i] = q[i] /\ \A j \in DOMAIN q : j \in DOMAIN w /\ (j < i => w[j] = q[j])
    BY <1>1, <1>2
  <2>2. /\ st[Rev(e)] = "Authorized" /\ sg[Rev(e)].key = q[i].key
        /\ \/ st[e] = "Authorized"
           \/ \E j \in DOMAIN q : j < i /\ q[j].type = "Verification"
    BY <2>1 DEF Ordered
  <2> QED
    BY <2>1, <2>2
<1>3. CASE ~(i <= Len(q))
  <2>1. i - Len(q) \in DOMAIN r /\ w[i] = r[i - Len(q)]
    BY <1>1, <1>3
  <2>2. \A j \in DOMAIN r : /\ j + Len(q) \in DOMAIN w /\ w[j + Len(q)] = r[j]
                            /\ j < i - Len(q) => j + Len(q) < i
    BY <1>1
  <2>3. /\ st[Rev(e)] = "Authorized" /\ sg[Rev(e)].key = r[i - Len(q)].key
        /\ \/ st[e] = "Authorized"
           \/ \E j \in DOMAIN r : j < i - Len(q) /\ r[j].type = "Verification"
    BY <2>1 DEF Ordered
  <2> QED
    BY <2>1, <2>2, <2>3
<1> QED
  BY <1>2, <1>3

-------------------------------------------------------------------------------
(* The other end of a connection is the other end of the relation.         *)
LEMMA OtherEnd ==
    ASSUME NetOK, NEW s \in Session, NEW n \in Node, <<s, n>> \in open
    PROVE  EndOf(s, PeerOf(s, n)) = Rev(EndOf(s, n))
<1>1. opener[s] \in End /\ n \in {opener[s][1], opener[s][2]}
  BY DEF NetOK, OpenOK
<1>2. PICK a \in Node, b \in Node : opener[s] = <<a, b>> /\ a # b
  BY <1>1 DEF End
<1> QED
  BY <1>1, <1>2 DEF EndOf, PeerOf, Rev

(* Who has messages to read is an end, and has them in a sequence.         *)
LEMMA ChannelEnd ==
    ASSUME NetOK, ChannelsOK, NEW c \in Channel, chan[c] # <<>>
    PROVE  /\ EndOf(c[1], c[2]) \in End
           /\ c[1] \in Session /\ c[2] \in Node /\ c = <<c[1], c[2]>>
           /\ c \in open
<1>1. c[1] \in Session /\ c[2] \in Node /\ c = <<c[1], c[2]>>
  BY DEF Channel
<1>2. c \in open
  BY DEF ChannelsOK, NetOK
<1> QED
  BY <1>1, <1>2, EndOfType

(* Channels that are left alone or emptied.                                *)
LEMMA StaysOrdered ==
    ASSUME NetOK, ChannelsOK, ChannelsOrdered, Persists(state, strategy, state', strategy'),
           \A c \in Channel : \/ chan'[c] = <<>>
                              \/ chan'[c] = chan[c] /\ EndOf(c[1], c[2])' = EndOf(c[1], c[2])
    PROVE  ChannelsOrdered'
<1> SUFFICES ASSUME NEW c \in Channel
             PROVE  Ordered(chan'[c], EndOf(c[1], c[2])', state', strategy')
  BY DEF ChannelsOrdered
<1>1. CASE chan'[c] = <<>>
  BY <1>1, OrderedWithout
<1>2. CASE chan[c] # <<>> /\ chan'[c] = chan[c] /\ EndOf(c[1], c[2])' = EndOf(c[1], c[2])
  <2>1. EndOf(c[1], c[2]) \in End
    BY <1>2, ChannelEnd
  <2>2. Ordered(chan[c], EndOf(c[1], c[2]), state, strategy)
    BY DEF ChannelsOrdered
  <2> QED
    BY <1>2, <2>1, <2>2, OrderedPersists
<1> QED
  BY <1>1, <1>2

(* What is left once n has read a message from s.                          *)
LEMMA TakenOrdered ==
    ASSUME NetOK, ChannelsOK, ChannelsOrdered, Persists(state, strategy, state', strategy'),
           NEW s \in Session, NEW n \in Node, Readable(s, n),
           Head(chan[<<s, n>>]).type = "Verification" => state'[EndOf(s, n)] = "Authorized"
    PROVE  \A c \in Channel : /\ Taken(s, n)[c] \in Seq(Message)
                              /\ Taken(s, n)[c] # <<>> => chan[c] # <<>>
                              /\ Ordered(Taken(s, n)[c], EndOf(c[1], c[2]), state', strategy')
<1>1. <<s, n>> \in Channel /\ chan[<<s, n>>] # <<>>
  BY DEF Channel, Readable
<1>2. \A c \in Channel :
          /\ chan[c] \in Seq(Message)
          /\ Taken(s, n)[c] = IF c = <<s, n>> THEN Tail(chan[c]) ELSE chan[c]
  BY DEF Taken, NetOK, Channel
<1> SUFFICES ASSUME NEW c \in Channel
             PROVE  /\ Taken(s, n)[c] \in Seq(Message)
                    /\ Taken(s, n)[c] # <<>> => chan[c] # <<>>
                    /\ Ordered(Taken(s, n)[c], EndOf(c[1], c[2]), state', strategy')
  OBVIOUS
<1>3. CASE chan[c] = <<>>
  BY <1>1, <1>2, <1>3, OrderedWithout
<1>4. CASE chan[c] # <<>>
  <2>1. EndOf(c[1], c[2]) \in End
    BY <1>4, ChannelEnd
  <2>2. Ordered(chan[c], EndOf(c[1], c[2]), state', strategy')
    <3>1. Ordered(chan[c], EndOf(c[1], c[2]), state, strategy)
      BY DEF ChannelsOrdered
    <3> QED
      BY <2>1, <3>1, OrderedPersists
  <2>3. CASE c = <<s, n>>
    <3>1. Tail(chan[c]) \in Seq(Message)
      BY <1>2, <1>4
    <3>2. Head(chan[c]).type = "Verification" => state'[EndOf(c[1], c[2])] = "Authorized"
      BY <2>3
    <3>3. Ordered(Tail(chan[c]), EndOf(c[1], c[2]), state', strategy')
      BY <1>2, <1>4, <2>2, <3>2, OrderedTail
    <3> QED
      BY <1>2, <1>4, <2>3, <3>1, <3>3
  <2>4. CASE c # <<s, n>>
    BY <1>2, <1>4, <2>2, <2>4
  <2> QED
    BY <2>3, <2>4
<1> QED
  BY <1>3, <1>4

(* A message that is read and not answered.                                *)
LEMMA ConsumedOrdered ==
    ASSUME NetOK, ChannelsOK, ChannelsOrdered, Persists(state, strategy, state', strategy'),
           NEW s \in Session, NEW n \in Node, Readable(s, n), Consumed(s, n),
           Head(chan[<<s, n>>]).type = "Verification" => state'[EndOf(s, n)] = "Authorized"
    PROVE  ChannelsOrdered'
<1>1. chan' = Taken(s, n) /\ opener' = opener
  BY DEF Consumed
<1>2. \A c \in Channel : Ordered(Taken(s, n)[c], EndOf(c[1], c[2]), state', strategy')
  BY TakenOrdered
<1>3. \A c \in Channel : EndOf(c[1], c[2])' = EndOf(c[1], c[2])
  BY <1>1 DEF EndOf, PeerOf
<1> QED
  BY <1>1, <1>2, <1>3 DEF ChannelsOrdered

(* Messages that go to e over any session, behind what is there.           *)
LEMMA CarriedOrdered ==
    ASSUME NetOK, NEW channels \in [Channel -> Seq(Message)], NEW e \in End,
           \A c \in Channel : Ordered(channels[c], EndOf(c[1], c[2]), state', strategy'),
           NEW kind, NEW t \in Routes(e, kind), NEW msgs \in Seq(Message),
           Ordered(msgs, Rev(e), state', strategy'),
           chan' = Carry(channels, t, e[2], msgs), opener' = opener
    PROVE  ChannelsOrdered'
<1>1. t \in Session /\ e[1] \in Node /\ <<t, e[1]>> \in open /\ EndOf(t, e[1]) = e
  BY RevType DEF Routes, NetOK
<1>2. EndOf(t, e[2]) = Rev(e)
  <2>1. PeerOf(t, e[1]) = e[2]
    BY <1>1 DEF EndOf
  <2> QED
    BY <1>1, <2>1, OtherEnd
<1>3. \A c \in Channel : EndOf(c[1], c[2])' = EndOf(c[1], c[2])
  BY DEF EndOf, PeerOf
<1>4. \A c \in Channel : \/ chan'[c] = channels[c]
                         \/ c = <<t, e[2]>> /\ chan'[c] = channels[c] \o msgs
  BY DEF Carry
<1> SUFFICES ASSUME NEW c \in Channel
             PROVE  Ordered(chan'[c], EndOf(c[1], c[2]), state', strategy')
  BY <1>3 DEF ChannelsOrdered
<1>5. CASE chan'[c] = channels[c]
  BY <1>5
<1>6. CASE c = <<t, e[2]>> /\ chan'[c] = channels[c] \o msgs
  <2>1. EndOf(c[1], c[2]) = Rev(e)
    BY <1>2, <1>6
  <2>2. Ordered(channels[c] \o msgs, Rev(e), state', strategy')
    <3>1. channels[c] \in Seq(Message) /\ Ordered(channels[c], Rev(e), state', strategy')
      BY <2>1
    <3> QED
      BY <3>1, OrderedRow
  <2> QED
    BY <1>6, <2>1, <2>2
<1> QED
  BY <1>4, <1>5, <1>6

(* A message that is read and answered.                                    *)
LEMMA RepliedOrdered ==
    ASSUME NetOK, ChannelsOK, ChannelsOrdered, Persists(state, strategy, state', strategy'),
           NEW s \in Session, NEW n \in Node, Readable(s, n),
           Head(chan[<<s, n>>]).type = "Verification" => state'[EndOf(s, n)] = "Authorized",
           NEW msgs \in Seq(Message), Replied(s, n, msgs),
           Ordered(msgs, Rev(EndOf(s, n)), state', strategy')
    PROVE  ChannelsOrdered'
<1> DEFINE e == EndOf(s, n)
<1>1. e \in End /\ e[2] = PeerOf(s, n)
  BY ReadableType, EndOfType DEF EndOf
<1>2. PICK t \in Routes(e, KindOf(s, n)) : chan' = Carry(Taken(s, n), t, e[2], msgs)
  BY <1>1 DEF Replied
<1>3. Taken(s, n) \in [Channel -> Seq(Message)]
  BY TakenType DEF Channel
<1>4. \A c \in Channel : Ordered(Taken(s, n)[c], EndOf(c[1], c[2]), state', strategy')
  BY TakenOrdered
<1>5. opener' = opener
  BY DEF Replied
<1> HIDE DEF e
<1> QED
  BY <1>1, <1>2, <1>3, <1>4, <1>5, CarriedOrdered DEF e

(* A message that ends its receiver.                                       *)
LEMMA RefusedOrdered ==
    ASSUME NetOK, ChannelsOK, ChannelsOrdered, Persists(state, strategy, state', strategy'),
           NEW s \in Session, NEW n \in Node, Refused(s, n)
    PROVE  ChannelsOrdered'
<1>1. \A c \in Channel : chan'[c] = <<>> \/ chan'[c] = chan[c]
  BY DEF Refused, NetOK, Channel
<1>2. \A c \in Channel : EndOf(c[1], c[2])' = EndOf(c[1], c[2])
  BY DEF Refused, EndOf, PeerOf
<1> QED
  BY <1>1, <1>2, StaysOrdered

(* Sessions that stop.                                                     *)
LEMMA CloseOrdered ==
    ASSUME NetOK, ChannelsOK, ChannelsOrdered, Persists(state, strategy, state', strategy'),
           NEW sides \in SUBSET (Session \X Node), Close(sides)
    PROVE  ChannelsOrdered'
<1> DEFINE gone == {s \in Session : \A n \in Node : <<s, n>> \notin open \ sides}
<1>1. /\ chan' = [c \in Session \X Node |->
                     IF c \in sides \/ c[1] \in gone THEN <<>> ELSE chan[c]]
      /\ opener' = [s \in Session |-> IF s \in gone THEN NoEnd ELSE opener[s]]
  BY DEF Close
<1> HIDE DEF gone
<1>2. \A c \in Channel : \/ chan'[c] = <<>>
                         \/ chan'[c] = chan[c] /\ EndOf(c[1], c[2])' = EndOf(c[1], c[2])
  BY <1>1 DEF Channel, EndOf, PeerOf
<1> QED
  BY <1>2, StaysOrdered

-------------------------------------------------------------------------------
(* Only with its process does an end forget whom it tracks.                *)
LEMMA NoRestart ==
    ASSUME IInv, MaxRestarts = 0
    PROVE  \A n \in Node : ~Restart(n)
BY BoundsAssumption DEF Restart, IInv, RestOK

(* No other step forgets a peer.                                           *)
LEMMA TrackedStays ==
    ASSUME IInv, MaxRestarts = 0, [Next]_vars
    PROVE  tracked \subseteq tracked'
<1>1. CASE UNCHANGED tracked
  BY <1>1
<1>2. ASSUME NEW s \in Session, NEW n \in Node, Receiving(s, n)
      PROVE  tracked \subseteq tracked'
  BY <1>2 DEF Receiving, LinkPeer, NoSink, ExchangeRefuses, SynchronizeRequest,
     SynchronizeResponse, SynchronizeVerification, SynchronizeFails, AuthorizedQueues,
     AuthorizedAnswers, SessionEnds, OnSessionStopped, Authorize, Derive, Revoke, nodeVars
<1> QED
  BY <1>1, <1>2, NoRestart
     DEF Next, vars, nodeVars, ScheduleConnect, Dialing, Connect, DeclareResolvingPeer,
         OnSessionStarted, HandleIncoming, ConnectFails, SessionFails, OnSessionStopped

(* An end that is authorized keeps its state and its keys.                 *)
LEMMA StaysAuthorized ==
    ASSUME IInv, MaxRestarts = 0, [Next]_vars
    PROVE  Persists(state, strategy, state', strategy')
<1> SUFFICES ASSUME NEW e \in End, state[e] = "Authorized"
             PROVE  state'[e] = "Authorized" /\ strategy'[e] = strategy[e]
  BY DEF Persists
<1>1. e \in tracked'
  BY TrackedStays DEF IInv, PeersOK, SinkMatchesMediator
<1>2. CASE UNCHANGED vars
  BY <1>2 DEF vars, nodeVars
<1>3. CASE Next
  BY <1>1, <1>3, AuthorizedKept
<1> QED
  BY <1>2, <1>3

(* A connection begins with a request or a heartbeat, and was empty.       *)
LEMMA StartedOrdered ==
    ASSUME IInv, ChannelsOK, ChannelsOrdered, Persists(state, strategy, state', strategy'),
           NEW d \in dials, OnSessionStarted(d)
    PROVE  ChannelsOrdered'
<1> DEFINE request == IF d.via = "address" THEN Msg("Request", d.exchange)
                                           ELSE Msg("HeartbeatRequest", 0)
<1>1. PICK s \in Session :
          /\ opener[s] = NoEnd
          /\ opener' = [opener EXCEPT ![s] = d.end]
          /\ chan' = [chan EXCEPT ![<<s, d.end[2]>>] = <<request>>]
  BY DEF OnSessionStarted
<1>2. NetOK
  BY DEF IInv
<1>3. ~IsApplication(request)
  BY DEF Msg, IsApplication
<1> HIDE DEF request
<1> SUFFICES ASSUME NEW c \in Channel
             PROVE  Ordered(chan'[c], EndOf(c[1], c[2])', state', strategy')
  BY DEF ChannelsOrdered
<1>4. c[1] = s => chan[c] = <<>>
  <2>1. chan[c] # <<>> => c \in open /\ c = <<c[1], c[2]>> /\ c[1] \in Session /\ c[2] \in Node
    BY <1>2, ChannelEnd
  <2> QED
    BY <1>1, <1>2, <2>1, NoEndIsNone DEF NetOK, OpenOK
<1>5. CASE c = <<s, d.end[2]>>
  <2>1. chan'[c] = <<request>>
    BY <1>1, <1>2, <1>5 DEF NetOK, Channel
  <2>2. \A i \in DOMAIN <<request>> : <<request>>[i] = request
    OBVIOUS
  <2> QED
    BY <1>3, <2>1, <2>2, OrderedWithout
<1>6. CASE c # <<s, d.end[2]>> /\ chan[c] = <<>>
  <2>1. chan'[c] = <<>>
    BY <1>1, <1>2, <1>6 DEF NetOK, Channel
  <2> QED
    BY <2>1, OrderedWithout
<1>7. CASE c # <<s, d.end[2]>> /\ chan[c] # <<>>
  <2>1. c[1] # s /\ c[1] \in Session /\ EndOf(c[1], c[2]) \in End
    BY <1>2, <1>4, <1>7, ChannelEnd
  <2>2. chan'[c] = chan[c]
    BY <1>1, <1>2, <1>7 DEF NetOK, Channel
  <2>3. EndOf(c[1], c[2])' = EndOf(c[1], c[2])
    BY <1>1, <1>2, <2>1 DEF EndOf, PeerOf, NetOK
  <2>4. Ordered(chan[c], EndOf(c[1], c[2]), state, strategy)
    BY DEF ChannelsOrdered
  <2> QED
    BY <2>1, <2>2, <2>3, <2>4, OrderedPersists
<1> QED
  BY <1>5, <1>6, <1>7

(* The initiator is authorized when it sends both, in this order.          *)
LEMMA FinishOrdered ==
    ASSUME NEW k, NEW e \in End, NEW st, NEW sg,
           st[Rev(e)] = "Authorized", sg[Rev(e)].key = k
    PROVE  Ordered(FinishExchange(k), e, st, sg)
<1> DEFINE q == FinishExchange(k)
<1>1. /\ DOMAIN q = {1, 2} /\ q[1].type = "Verification" /\ q[2].key = k
      /\ ~IsApplication(q[1])
  BY DEF FinishExchange, Msg, IsApplication
<1> HIDE DEF q
<1> QED
  BY <1>1 DEF Ordered, q

(* The steps of a worker's receivers.                                      *)
LEMMA ReceivingOrdered ==
    ASSUME IInv, ChannelsOK, ChannelsOrdered, Persists(state, strategy, state', strategy'),
           NEW s \in Session, NEW n \in Node, Receiving(s, n)
    PROVE  ChannelsOrdered'
<1> DEFINE e == EndOf(s, n)
           msg == Head(chan[<<s, n>>])
<1>1. NetOK /\ PeersOK
  BY DEF IInv
<1>2. CASE LinkPeer(s, n)
  BY <1>1, <1>2, StaysOrdered DEF LinkPeer, EndOf, PeerOf
<1>3. CASE NoSink(s, n) \/ ExchangeRefuses(s, n) \/ SynchronizeFails(s, n)
  BY <1>1, <1>3, RefusedOrdered DEF NoSink, ExchangeRefuses, SynchronizeFails
<1>4. ASSUME Readable(s, n)
      PROVE  e \in End /\ Rev(e) \in End /\ msg.key \in Exchange
  BY <1>1, <1>4, ReadableType, EndOfType, RevType DEF Message
<1>5. CASE SynchronizeRequest(s, n)
  <2>1. /\ Readable(s, n) /\ msg.type = "Request" /\ Replied(s, n, <<Msg("Response", msg.key)>>)
    BY <1>5 DEF SynchronizeRequest, Negotiates, Reaches, AcceptsRequest
  <2>2. <<Msg("Response", msg.key)>> \in Seq(Message)
    BY <1>4, <2>1, MsgType
  <2>3. \A i \in DOMAIN <<Msg("Response", msg.key)>> : ~IsApplication(<<Msg("Response", msg.key)>>[i])
    BY DEF Msg, IsApplication
  <2>4. Ordered(<<Msg("Response", msg.key)>>, Rev(e), state', strategy')
    BY <2>3, OrderedWithout
  <2> QED
    BY <1>1, <2>1, <2>2, <2>4, RepliedOrdered
<1>6. CASE SynchronizeResponse(s, n)
  <2>1. /\ Readable(s, n) /\ msg.type = "Response" /\ Replied(s, n, FinishExchange(msg.key))
        /\ Authorize(e, msg.key)
    BY <1>6 DEF SynchronizeResponse, Negotiates, Reaches, AcceptsResponse
  <2>2. FinishExchange(msg.key) \in Seq(Message)
    BY <1>4, <2>1, MsgType DEF FinishExchange
  <2>3. state'[e] = "Authorized" /\ strategy'[e].key = msg.key
    BY <1>1, <1>4, <2>1 DEF Authorize, PeersOK, Strategy
  <2>4. Ordered(FinishExchange(msg.key), Rev(e), state', strategy')
    BY <1>4, <2>1, <2>3, RevRev, FinishOrdered
  <2> QED
    BY <1>1, <2>1, <2>2, <2>4, RepliedOrdered
<1>7. CASE SynchronizeVerification(s, n)
  <2>1. Readable(s, n) /\ Consumed(s, n) /\ state'[e] = "Authorized"
    BY <1>1, <1>4, <1>7 DEF SynchronizeVerification, Negotiates, Reaches, Authorize, PeersOK
  <2> QED
    BY <1>1, <2>1, ConsumedOrdered
<1>8. CASE AuthorizedQueues(s, n)
  BY <1>1, <1>8, ConsumedOrdered, RefusedOrdered DEF AuthorizedQueues, Reaches, IsApplication
<1>9. CASE AuthorizedAnswers(s, n)
  <2>1. Readable(s, n) /\ receiver[e] = "sink"
    BY <1>9 DEF AuthorizedAnswers, Reaches
  <2>2. state'[e] = "Authorized"
    BY <1>1, <1>4, <2>1 DEF PeersOK, SinkMatchesMediator, Persists
  <2>3. ASSUME NEW type \in {"HeartbeatRequest", "HeartbeatResponse"},
               Replied(s, n, <<Msg(type, 0)>>)
        PROVE  ChannelsOrdered'
    <3>1. <<Msg(type, 0)>> \in Seq(Message)
      BY ExchangeType, MsgType
    <3>2. \A i \in DOMAIN <<Msg(type, 0)>> : ~IsApplication(<<Msg(type, 0)>>[i])
      BY DEF Msg, IsApplication
    <3>3. Ordered(<<Msg(type, 0)>>, Rev(e), state', strategy')
      BY <3>2, OrderedWithout
    <3> QED
      BY <1>1, <2>1, <2>2, <2>3, <3>1, <3>3, RepliedOrdered
  <2>4. CASE Consumed(s, n)
    BY <1>1, <2>1, <2>2, <2>4, ConsumedOrdered
  <2> QED
    BY <1>9, <2>3, <2>4 DEF AuthorizedAnswers
<1>10. CASE SessionEnds(s, n)
  <2>1. Close({<<s, n>>}) /\ {<<s, n>>} \in SUBSET (Session \X Node)
    BY <1>10 DEF SessionEnds, OnSessionStopped
  <2> QED
    BY <1>1, <2>1, CloseOrdered
<1> QED
  BY <1>2, <1>3, <1>5, <1>6, <1>7, <1>8, <1>9, <1>10 DEF Receiving

(* The core thread answers a peer that is authorized, with the same key.   *)
LEMMA HandleIncomingOrdered ==
    ASSUME IInv, ChannelsOK, OrderInv, Persists(state, strategy, state', strategy'),
           NEW n \in Node, HandleIncoming(n)
    PROVE  ChannelsOrdered'
<1> DEFINE item == Head(inbox[n])
           e == item.end
           response == <<Msg("DiscoveryResponse", strategy[e].key)>>
<1>1. NetOK /\ PeersOK /\ RestOK
  BY DEF IInv
<1>2. inbox[n] \in Seq(Queued) /\ inbox[n] # <<>>
  BY <1>1 DEF RestOK, HandleIncoming
<1>3. item \in Queued /\ 1 \in DOMAIN inbox[n] /\ item = inbox[n][1]
  BY <1>2
<1>4. e \in End /\ state[e] = "Authorized" /\ state[Rev(e)] = "Authorized"
  BY <1>3 DEF Queued, OrderInv, QueuedIsMutual
<1>5. UNCHANGED <<strategy, state, opener>>
  BY DEF HandleIncoming, nodeVars
<1>6. \/ chan' = chan
      \/ \E t \in Routes(e, item.kind) : chan' = Carry(chan, t, e[2], response)
  BY DEF HandleIncoming
<1>7. CASE chan' = chan
  BY <1>1, <1>5, <1>7, StaysOrdered DEF OrderInv, EndOf, PeerOf
<1>8. ASSUME NEW t \in Routes(e, item.kind), chan' = Carry(chan, t, e[2], response)
      PROVE  ChannelsOrdered'
  <2>1. response \in Seq(Message)
    BY <1>1, <1>4, MsgType DEF PeersOK, Strategy
  <2>2. Ordered(response, Rev(e), state', strategy')
    <3>1. \A i \in DOMAIN response : response[i].key = strategy[e].key
      BY DEF Msg
    <3> HIDE DEF response
    <3> QED
      BY <1>4, <1>5, <3>1, RevRev DEF Ordered
  <2>3. chan \in [Channel -> Seq(Message)]
    BY <1>1 DEF NetOK, Channel
  <2>4. \A c \in Channel : Ordered(chan[c], EndOf(c[1], c[2]), state', strategy')
    BY <1>5 DEF OrderInv, ChannelsOrdered
  <2> HIDE DEF response
  <2> QED
    BY <1>1, <1>4, <1>5, <1>8, <2>1, <2>2, <2>3, <2>4, CarriedOrdered
<1> QED
  BY <1>6, <1>7, <1>8

(* What is queued is of an end.                                            *)
LEMMA QueuedEnd ==
    ASSUME IInv PROVE \A n \in Node : \A i \in DOMAIN inbox[n] : inbox[n][i].end \in End
<1> SUFFICES ASSUME NEW n \in Node, NEW i \in DOMAIN inbox[n] PROVE inbox[n][i].end \in End
  OBVIOUS
<1>1. inbox[n] \in Seq(Queued)
  BY DEF IInv, RestOK
<1>2. inbox[n][i] \in Queued
  BY <1>1
<1> QED
  BY <1>2 DEF Queued

(* A queued message comes from the head of a channel, and stays of two     *)
(* ends that are authorized for as long as it is queued.                   *)
LEMMA QueuesMutual ==
    ASSUME IInv, OrderInv, Persists(state, strategy, state', strategy'),
           NEW s \in Session, NEW n \in Node, AuthorizedQueues(s, n)
    PROVE  QueuedIsMutual'
<1> DEFINE e == EndOf(s, n)
<1>1. /\ NetOK /\ PeersOK /\ inbox \in [Node -> Seq(Queued)]
      /\ Readable(s, n) /\ receiver[e] = "sink" /\ IsApplication(Head(chan[<<s, n>>]))
  BY DEF IInv, RestOK, AuthorizedQueues, Reaches
<1>2. e \in End /\ Rev(e) \in End
  BY <1>1, ReadableType, EndOfType, RevType
<1>3. state[e] = "Authorized"
  BY <1>1, <1>2 DEF PeersOK, SinkMatchesMediator
<1>4. state[Rev(e)] = "Authorized"
  <2>1. chan[<<s, n>>] \in Seq(Message) /\ chan[<<s, n>>] # <<>>
    BY <1>1 DEF NetOK, Readable
  <2>2. 1 \in DOMAIN chan[<<s, n>>] /\ IsApplication(chan[<<s, n>>][1])
    BY <1>1, <2>1
  <2>3. Ordered(chan[<<s, n>>], e, state, strategy)
    BY DEF OrderInv, ChannelsOrdered, Channel
  <2> QED
    BY <2>2, <2>3 DEF Ordered
<1>5. state'[e] = "Authorized" /\ state'[Rev(e)] = "Authorized"
  BY <1>2, <1>3, <1>4 DEF Persists
<1>6. \A m \in Node : \A i \in DOMAIN inbox[m] : inbox[m][i].end \in End
  BY QueuedEnd
<1>7. ASSUME NEW m \in Node, NEW i \in DOMAIN inbox'[m]
      PROVE  \/ inbox'[m][i].end = e
             \/ i \in DOMAIN inbox[m] /\ inbox'[m][i].end = inbox[m][i].end
  <2>1. CASE inbox' = inbox
    BY <1>7, <2>1
  <2>2. CASE inbox' = [inbox EXCEPT ![n] =
                          Append(@, QueuedFor(s, n, Head(chan[<<s, n>>]).type))]
    <3> DEFINE item == QueuedFor(s, n, Head(chan[<<s, n>>]).type)
    <3>1. item.end = e
      BY DEF QueuedFor
    <3>2. m # n => inbox'[m] = inbox[m]
      BY <1>1, <2>2
    <3>3. KindOf(s, n) \in Kind
      BY <1>1, ReadableType, EndOfType
    <3>4. item \in Queued
      BY <1>1, <1>2, <3>3 DEF QueuedFor, Queued, IsApplication
    <3>5. inbox'[n] = Append(inbox[n], item) /\ inbox[n] \in Seq(Queued)
      BY <1>1, <2>2
    <3> HIDE DEF item
    <3>6. CASE m = n
      BY <3>1, <3>4, <3>5, <3>6, <1>7, AppendProperties
    <3> QED
      BY <3>2, <3>6, <1>7
  <2> QED
    BY <2>1, <2>2 DEF AuthorizedQueues
<1>8. ASSUME NEW m \in Node, NEW i \in DOMAIN inbox'[m]
      PROVE  state'[inbox'[m][i].end] = "Authorized" /\ state'[Rev(inbox'[m][i].end)] = "Authorized"
  <2>1. CASE inbox'[m][i].end = e
    BY <1>5, <2>1
  <2>2. CASE i \in DOMAIN inbox[m] /\ inbox'[m][i].end = inbox[m][i].end
    BY <1>6, <2>2, RevType DEF OrderInv, QueuedIsMutual, Persists
  <2> QED
    BY <1>7, <1>8, <2>1, <2>2
<1> QED
  BY <1>8 DEF QueuedIsMutual

(* Steps that queue nothing.                                               *)
LEMMA MutualKept ==
    ASSUME IInv, OrderInv, Persists(state, strategy, state', strategy'),
           \A n \in Node : \A i \in DOMAIN inbox'[n] :
               \E j \in DOMAIN inbox[n] : inbox'[n][i].end = inbox[n][j].end
    PROVE  QueuedIsMutual'
<1>1. \A n \in Node : \A j \in DOMAIN inbox[n] : inbox[n][j].end \in End
  BY QueuedEnd
<1> QED
  BY <1>1, RevType DEF OrderInv, QueuedIsMutual, Persists

(* What the core thread has not handled yet was queued before.             *)
LEMMA HandledQueue ==
    ASSUME IInv, NEW n \in Node, HandleIncoming(n)
    PROVE  \A m \in Node : \A i \in DOMAIN inbox'[m] :
               \E j \in DOMAIN inbox[m] : inbox'[m][i] = inbox[m][j]
<1>1. inbox \in [Node -> Seq(Queued)] /\ inbox[n] # <<>>
  BY DEF IInv, RestOK, HandleIncoming
<1>2. \A i \in DOMAIN Tail(inbox[n]) :
          i + 1 \in DOMAIN inbox[n] /\ Tail(inbox[n])[i] = inbox[n][i + 1]
  BY <1>1
<1>3. inbox' = [inbox EXCEPT ![n] = Tail(@)]
  BY DEF HandleIncoming
<1> QED
  BY <1>1, <1>2, <1>3

(* Only the sinks and the core thread touch the queue, while no process    *)
(* dies.                                                                   *)
LEMMA QueueKept ==
    ASSUME IInv, MaxRestarts = 0, [Next]_vars,
           \A s \in Session, n \in Node : ~AuthorizedQueues(s, n),
           \A n \in Node : ~HandleIncoming(n)
    PROVE  inbox' = inbox
<1>1. ASSUME NEW s \in Session, NEW n \in Node, Receiving(s, n), ~AuthorizedQueues(s, n)
      PROVE  inbox' = inbox
  BY <1>1 DEF Receiving, LinkPeer, NoSink, ExchangeRefuses, SynchronizeRequest,
     SynchronizeResponse, SynchronizeVerification, SynchronizeFails, AuthorizedAnswers,
     SessionEnds, OnSessionStopped
<1>2. CASE UNCHANGED vars
  BY <1>2 DEF vars
<1>3. ASSUME NEW d \in dials,
             Connect(d) \/ DeclareResolvingPeer(d) \/ OnSessionStarted(d) \/ ConnectFails(d)
      PROVE  inbox' = inbox
  BY <1>3 DEF Connect, DeclareResolvingPeer, OnSessionStarted, ConnectFails
<1>4. ASSUME NEW s \in Session, NEW n \in Node, SessionFails(s, n) PROVE inbox' = inbox
  BY <1>4 DEF SessionFails, OnSessionStopped
<1>5. ASSUME NEW e \in Bootstraps, ScheduleConnect(e) PROVE inbox' = inbox
  BY <1>5 DEF ScheduleConnect
<1> QED
  BY <1>1, <1>2, <1>3, <1>4, <1>5, NoRestart DEF Next, Dialing

(* Every step keeps what is known of the queues.                           *)
LEMMA StepMutual ==
    ASSUME IInv, OrderInv, MaxRestarts = 0, [Next]_vars
    PROVE  QueuedIsMutual'
<1>1. Persists(state, strategy, state', strategy')
  BY StaysAuthorized
<1>2. ASSUME NEW s \in Session, NEW n \in Node, AuthorizedQueues(s, n) PROVE QueuedIsMutual'
  BY <1>1, <1>2, QueuesMutual
<1>3. ASSUME NEW n \in Node, HandleIncoming(n) PROVE QueuedIsMutual'
  <2>1. \A m \in Node : \A i \in DOMAIN inbox'[m] :
            \E j \in DOMAIN inbox[m] : inbox'[m][i].end = inbox[m][j].end
    BY <1>3, HandledQueue
  <2> QED
    BY <1>1, <2>1, MutualKept
<1>4. CASE inbox' = inbox
  BY <1>1, <1>4, MutualKept
<1> QED
  BY <1>2, <1>3, <1>4, QueueKept

(* Every step keeps the order of the channels.                             *)
LEMMA StepOrdered ==
    ASSUME IInv, ChannelsOK, OrderInv, MaxRestarts = 0, [Next]_vars
    PROVE  ChannelsOrdered'
<1>1. Persists(state, strategy, state', strategy') /\ ChannelsOrdered /\ NetOK
  BY StaysAuthorized DEF OrderInv, IInv
<1>2. CASE chan' = chan /\ opener' = opener
  BY <1>1, <1>2, StaysOrdered DEF EndOf, PeerOf
<1>3. ASSUME NEW d \in dials, OnSessionStarted(d) PROVE ChannelsOrdered'
  BY <1>1, <1>3, StartedOrdered
<1>4. ASSUME NEW s \in Session, NEW n \in Node, Receiving(s, n) PROVE ChannelsOrdered'
  BY <1>1, <1>4, ReceivingOrdered
<1>5. ASSUME NEW n \in Node, HandleIncoming(n) PROVE ChannelsOrdered'
  BY <1>1, <1>5, HandleIncomingOrdered
<1>6. ASSUME NEW s \in Session, NEW n \in Node, SessionFails(s, n) PROVE ChannelsOrdered'
  <2>1. Close({<<s, n>>}) /\ {<<s, n>>} \in SUBSET (Session \X Node)
    BY <1>6 DEF SessionFails, OnSessionStopped
  <2> QED
    BY <1>1, <2>1, CloseOrdered
<1>7. ASSUME NEW d \in dials, Connect(d) \/ DeclareResolvingPeer(d) \/ ConnectFails(d)
      PROVE  chan' = chan /\ opener' = opener
  BY <1>7 DEF Connect, DeclareResolvingPeer, ConnectFails, netVars
<1>8. ASSUME NEW e \in Bootstraps, ScheduleConnect(e) PROVE chan' = chan /\ opener' = opener
  BY <1>8 DEF ScheduleConnect, netVars
<1>9. UNCHANGED vars => chan' = chan /\ opener' = opener
  BY DEF vars, netVars
<1> QED
  BY <1>2, <1>3, <1>4, <1>5, <1>6, <1>7, <1>8, <1>9, NoRestart DEF Next, Dialing

(* What is at the head of a channel has nothing before it.                 *)
LEMMA OrderFinds == ASSUME IInv, LInv, OrderInv PROVE DiscoveryFindsAuthorized
<1> SUFFICES ASSUME NEW s \in Session, NEW n \in Node, Readable(s, n),
                    IsApplication(Head(chan[<<s, n>>]))
             PROVE  /\ receiver[EndOf(s, n)] = "sink"
                    /\ Head(chan[<<s, n>>]).key = strategy[EndOf(s, n)].key
  BY DEF DiscoveryFindsAuthorized
<1> DEFINE q == chan[<<s, n>>]
           e == EndOf(s, n)
<1>1. NetOK /\ PeersOK
  BY DEF IInv
<1>2. e \in End /\ Rev(e) \in End
  BY <1>1, ReadableType, EndOfType, RevType
<1>3. q \in Seq(Message) /\ q # <<>>
  BY <1>1 DEF NetOK, Readable
<1>4. 1 \in DOMAIN q /\ Head(q) = q[1] /\ \A j \in DOMAIN q : ~(j < 1)
  BY <1>3
<1>5. Ordered(q, e, state, strategy)
  BY DEF OrderInv, ChannelsOrdered, Channel
<1>6. state[Rev(e)] = "Authorized" /\ strategy[Rev(e)].key = Head(q).key /\ state[e] = "Authorized"
  BY <1>4, <1>5 DEF Ordered
<1>7. strategy[e].key = strategy[Rev(e)].key
  BY <1>2, <1>6, LInvAgrees DEF KeyAgreement
<1> QED
  BY <1>1, <1>2, <1>6, <1>7 DEF PeersOK, SinkMatchesMediator

(* While no process dies, an application message finds its receiver        *)
(* authorized and holding its key (ExchangeProcessor.cpp:208 sends the     *)
(* discovery request before the initiator is told of the success), however *)
(* many connections fail and whoever dials whom.                           *)
THEOREM DiscoveryOrdered == ASSUME MaxRestarts = 0 PROVE Spec => []DiscoveryFindsAuthorized
<1>1. Init => OrderInv
  BY DEF Init, OrderInv, ChannelsOrdered, QueuedIsMutual, Ordered, Channel
<1>2. IInv /\ LInv /\ OrderInv /\ [Next]_vars => OrderInv'
  BY StepOrdered, StepMutual DEF OrderInv, LInv
<1>3. IInv /\ LInv /\ OrderInv => DiscoveryFindsAuthorized
  BY OrderFinds
<1> QED
  BY <1>1, <1>2, <1>3, LinkInductive, PTL DEF Spec

-------------------------------------------------------------------------------
(***************************************************************************)
(* Addresses that are resolving.  Nothing but the end of a session takes   *)
(* away what works on one while it stays declared.                         *)
(***************************************************************************)
StrandStep(e) ==
    Stranded(e)' /\ ~Stranded(e) =>
        \E s \in Session : /\ opener[s] = e
                           /\ <<s, e[1]>> \in open \ promoted
                           /\ <<s, e[1]>> \notin open'

(* Steps that keep the attempts that connect and the sessions that have    *)
(* not had a message.                                                      *)
LEMMA WorkKept ==
    ASSUME NEW e \in End, UNCHANGED <<resolving, opener, open, promoted>>,
           \A d \in dials : d.step = "connecting" => d \in dials'
    PROVE  StrandStep(e)
<1>1. Working(e) => Working(e)'
  BY DEF Working
<1> QED
  BY <1>1 DEF StrandStep, Stranded

(* Whatever is declared is declared by an attempt that connects.           *)
LEMMA DeclaredWorks ==
    ASSUME IInv, NEW e \in End, NEW d \in dials, DeclareResolvingPeer(d)
    PROVE  StrandStep(e)
<1>1. dials \subseteq Dial /\ resolving \in [End -> Exchange] /\ d.step = "resolving"
  BY DEF IInv, RestOK, DeclareResolvingPeer
<1>2. UNCHANGED <<opener, open, promoted>>
  BY DEF DeclareResolvingPeer, netVars
<1>3. \A c \in dials : c.step = "connecting" => c \in dials'
  BY <1>1 DEF DeclareResolvingPeer, Advance
<1>4. CASE UNCHANGED resolving
  BY <1>2, <1>3, <1>4, WorkKept
<1>5. CASE /\ resolving' = [resolving EXCEPT ![d.end] = exchanges + 1]
           /\ Advance(d, "connecting", exchanges + 1)
  <2>1. CASE e = d.end
    <3>1. [d EXCEPT !.step = "connecting", !.exchange = exchanges + 1] \in dials'
      BY <1>5 DEF Advance
    <3>2. resolving'[e] = exchanges + 1
      BY <1>1, <1>5, <2>1
    <3>3. /\ [d EXCEPT !.step = "connecting", !.exchange = exchanges + 1].end = e
          /\ [d EXCEPT !.step = "connecting", !.exchange = exchanges + 1].step = "connecting"
          /\ [d EXCEPT !.step = "connecting", !.exchange = exchanges + 1].exchange
               = exchanges + 1
      BY <1>1, <2>1 DEF Dial
    <3> QED
      BY <3>1, <3>2, <3>3 DEF StrandStep, Stranded, Working
  <2>2. CASE e # d.end
    <3>1. resolving'[e] = resolving[e]
      BY <1>1, <1>5, <2>2
    <3>2. Working(e) => Working(e)'
      BY <1>2, <1>3, <3>1 DEF Working
    <3> QED
      BY <3>1, <3>2 DEF StrandStep, Stranded
  <2> QED
    BY <2>1, <2>2
<1> QED
  BY <1>4, <1>5 DEF DeclareResolvingPeer

(* The attempt that connects is followed by a session to the same address. *)
LEMMA StartedWorks ==
    ASSUME IInv, NEW e \in End, NEW d \in dials, OnSessionStarted(d)
    PROVE  StrandStep(e)
<1>1. PICK s \in Session :
          /\ opener' = [opener EXCEPT ![s] = d.end]
          /\ open' = open \cup {<<s, d.end[1]>>, <<s, d.end[2]>>}
          /\ opener[s] = NoEnd
  BY DEF OnSessionStarted
<1>2. UNCHANGED <<resolving, promoted>> /\ dials' = dials \ {d}
  BY DEF OnSessionStarted
<1>3. NetOK
  BY DEF IInv
<1>4. \A n \in Node : <<s, n>> \notin open
  BY <1>1, <1>3, NoEndIsNone DEF NetOK, OpenOK
<1>5. opener'[s] = d.end
  BY <1>1, <1>3 DEF NetOK
<1>6. \A t \in Session : opener[t] = e => opener'[t] = e
  BY <1>1, <1>3, NoEndIsNone DEF NetOK
<1>7. e[1] \in Node
  BY RevType
<1>8. CASE e = d.end
  <2>1. <<s, e[1]>> \in open' \ promoted'
    BY <1>1, <1>2, <1>3, <1>4, <1>7, <1>8 DEF NetOK
  <2> QED
    BY <1>5, <1>8, <2>1 DEF StrandStep, Stranded, Working
<1>9. CASE e # d.end
  <2>1. Working(e) => Working(e)'
    BY <1>1, <1>2, <1>6, <1>9 DEF Working
  <2> QED
    BY <1>2, <2>1 DEF StrandStep, Stranded
<1> QED
  BY <1>8, <1>9

(* A failed attempt undeclares its address.                                *)
LEMMA FailedWorks ==
    ASSUME IInv, NEW e \in End, NEW d \in dials, ConnectFails(d)
    PROVE  StrandStep(e)
<1>1. resolving \in [End -> Exchange] /\ dials' = dials \ {d}
  BY DEF IInv, RestOK, ConnectFails
<1>2. UNCHANGED <<opener, open, promoted>>
  BY DEF ConnectFails, netVars
<1>3. CASE d.step = "resolving" /\ UNCHANGED resolving
  BY <1>1, <1>2, <1>3, WorkKept
<1>4. CASE resolving' = [resolving EXCEPT ![d.end] = 0]
  <2>1. e = d.end => resolving'[e] = 0
    BY <1>1, <1>4
  <2>2. e # d.end => resolving'[e] = resolving[e] /\ (Working(e) => Working(e)')
    BY <1>1, <1>2, <1>4 DEF Working
  <2> QED
    BY <2>1, <2>2 DEF StrandStep, Stranded
<1> QED
  BY <1>3, <1>4 DEF ConnectFails

(* The first message of a dialed session undeclares its address, that of   *)
(* an accepted one belongs to no attempt of this node.                     *)
LEMMA LinkedWorks ==
    ASSUME IInv, NEW e \in End, NEW s \in Session, NEW n \in Node, LinkPeer(s, n)
    PROVE  StrandStep(e)
<1>1. NetOK /\ resolving \in [End -> Exchange] /\ Readable(s, n)
  BY DEF IInv, RestOK, LinkPeer
<1>2. <<s, n>> \in open /\ opener[s] \in End /\ n \in {opener[s][1], opener[s][2]}
  BY <1>1, ReadableType DEF NetOK, OpenOK
<1>3. UNCHANGED <<dials, opener, open>> /\ promoted' = promoted \cup {<<s, n>>}
  BY DEF LinkPeer
<1>4. PICK a \in Node, b \in Node : opener[s] = <<a, b>> /\ a # b
  BY <1>2 DEF End
<1>5. CASE n = a /\ e = opener[s]
  <2>1. KindOf(s, n) = "client" /\ EndOf(s, n) = e
    BY <1>4, <1>5 DEF KindOf, EndOf, PeerOf
  <2>2. resolving'[e] = 0
    BY <1>1, <2>1 DEF LinkPeer
  <2> QED
    BY <2>2 DEF StrandStep, Stranded
<1>6. CASE ~(n = a /\ e = opener[s])
  <2>1. <<s, n>> = <<s, e[1]>> => opener[s] # e
    BY <1>4, <1>6
  <2>2. resolving'[e] = resolving[e] \/ resolving'[e] = 0
    BY <1>1 DEF LinkPeer
  <2>3. resolving'[e] = resolving[e] /\ Working(e) => Working(e)'
    BY <1>3, <2>1 DEF Working
  <2> QED
    BY <2>2, <2>3 DEF StrandStep, Stranded
<1> QED
  BY <1>5, <1>6

(* Sessions that stop: either the one that worked on the address is among  *)
(* them or it still does.                                                  *)
LEMMA ClosedWorks ==
    ASSUME IInv, NEW e \in End, NEW sides \in SUBSET (Session \X Node), Close(sides),
           resolving'[e] # 0 => resolving'[e] = resolving[e],
           resolving'[e] # 0 => \A d \in dials : d.end = e => d \in dials'
    PROVE  StrandStep(e)
<1> SUFFICES ASSUME Stranded(e)', ~Stranded(e)
             PROVE  \E s \in Session : /\ opener[s] = e
                                       /\ <<s, e[1]>> \in open \ promoted
                                       /\ <<s, e[1]>> \notin open'
  BY DEF StrandStep
<1>1. resolving'[e] # 0 /\ resolving'[e] = resolving[e] /\ ~Working(e)' /\ Working(e)
  BY DEF Stranded
<1>2. e[1] \in Node
  BY RevType
<1>3. PICK s \in Session : opener[s] = e /\ <<s, e[1]>> \in open \ promoted
  BY <1>1 DEF Working
<1>4. CASE <<s, e[1]>> \in open'
  <2>1. opener'[s] = opener[s] /\ promoted' \subseteq promoted
    BY <1>2, <1>4 DEF Close
  <2> QED
    BY <1>1, <1>3, <1>4, <2>1 DEF Working
<1> QED
  BY <1>3, <1>4

(* The other steps of a worker touch neither attempts nor declarations.    *)
LEMMA ReceivedWorks ==
    ASSUME IInv, NEW e \in End, NEW s \in Session, NEW n \in Node, Receiving(s, n)
    PROVE  StrandStep(e)
<1>1. CASE LinkPeer(s, n)
  BY <1>1, LinkedWorks
<1>2. CASE SessionEnds(s, n)
  <2>1. Close({<<s, n>>}) /\ UNCHANGED <<dials, resolving>>
    BY <1>2 DEF SessionEnds, OnSessionStopped
  <2> QED
    BY <2>1, ClosedWorks
<1>3. CASE ~LinkPeer(s, n) /\ ~SessionEnds(s, n)
  <2>1. UNCHANGED <<dials, resolving, opener, open, promoted>>
    BY <1>3 DEF Receiving, NoSink, ExchangeRefuses, SynchronizeRequest,
       SynchronizeResponse, SynchronizeVerification, SynchronizeFails, AuthorizedQueues,
       AuthorizedAnswers, Consumed, Replied, Refused
  <2> QED
    BY <2>1, WorkKept
<1> QED
  BY <1>1, <1>2, <1>3

(* A process that dies declares nothing, and the attempts of the others    *)
(* stay.                                                                   *)
LEMMA RestartWorks ==
    ASSUME IInv, NEW e \in End, NEW n \in Node, Restart(n)
    PROVE  StrandStep(e)
<1>1. resolving \in [End -> Exchange] /\ open \subseteq Session \X Node
  BY DEF IInv, RestOK, NetOK
<1>2. {c \in open : c[2] = n} \in SUBSET (Session \X Node)
  BY <1>1
<1>3. resolving'[e] = (IF e[1] = n THEN 0 ELSE resolving[e])
  BY DEF Restart
<1>4. e[1] # n => \A d \in dials : d.end = e => d \in dials'
  BY DEF Restart
<1>5. Close({c \in open : c[2] = n})
  BY DEF Restart
<1> QED
  BY <1>2, <1>3, <1>4, <1>5, ClosedWorks

LEMMA StepWorks == ASSUME IInv, [Next]_vars, NEW e \in End PROVE StrandStep(e)
<1>1. CASE UNCHANGED vars
  BY <1>1, WorkKept DEF vars, netVars
<1>2. ASSUME NEW b \in Bootstraps, ScheduleConnect(b) PROVE StrandStep(e)
  BY <1>2, WorkKept DEF ScheduleConnect, netVars
<1>3. ASSUME NEW d \in dials, Connect(d) PROVE StrandStep(e)
  <2>1. UNCHANGED <<resolving, opener, open, promoted>>
    BY <1>3 DEF Connect, netVars
  <2>2. \A c \in dials : c.step = "connecting" => c \in dials'
    BY <1>3 DEF Connect, Advance
  <2> QED
    BY <2>1, <2>2, WorkKept
<1>4. ASSUME NEW n \in Node, HandleIncoming(n) PROVE StrandStep(e)
  BY <1>4, WorkKept DEF HandleIncoming
<1>5. ASSUME NEW s \in Session, NEW n \in Node, SessionFails(s, n) PROVE StrandStep(e)
  <2>1. Close({<<s, n>>}) /\ UNCHANGED <<dials, resolving>>
    BY <1>5 DEF SessionFails, OnSessionStopped
  <2> QED
    BY <2>1, ClosedWorks
<1> QED
  BY <1>1, <1>2, <1>3, <1>4, <1>5, DeclaredWorks, StartedWorks, FailedWorks, ReceivedWorks,
     RestartWorks DEF Next, Dialing

(* An address is left refused with nobody working on it only by the end of *)
(* the session dialed to it before its first message (PeerManager.cpp:80), *)
(* whatever fails, restarts or dials back.                                 *)
THEOREM StrandingIsLoss == Spec => StrandedByLoss
<1>1. IInv /\ [Next]_vars => [\A e \in End : StrandStep(e)]_vars
  BY StepWorks
<1> QED
  BY <1>1, Inductive, PTL DEF Spec, StrandedByLoss, StrandStep

-------------------------------------------------------------------------------
(***************************************************************************)
(* Registrations.  An endpoint is registered with the first message of a   *)
(* session and withdrawn with the first session that ends, so that the     *)
(* sessions of what stays registered have all stayed.                      *)
(***************************************************************************)
(* Steps that leave the sessions and their peers alone.                    *)
LEMMA RoutesKept ==
    ASSUME RegisteredHasSession, UNCHANGED <<opener, promoted, registered>>
    PROVE  RegisteredHasSession'
BY DEF RegisteredHasSession, Routes, EndOf, PeerOf, KindOf

(* A new connection takes an unused identity, which no session has.        *)
LEMMA StartedRoutes ==
    ASSUME IInv, RegisteredHasSession, NEW d \in dials, OnSessionStarted(d)
    PROVE  RegisteredHasSession'
<1>1. PICK s \in Session : opener' = [opener EXCEPT ![s] = d.end] /\ opener[s] = NoEnd
  BY DEF OnSessionStarted
<1>2. UNCHANGED <<promoted, registered>> /\ NetOK /\ registered \subseteq End \X Kind
  BY DEF OnSessionStarted, IInv, RestOK
<1>3. \A t \in Session, n \in Node : <<t, n>> \in promoted => t # s
  BY <1>1, <1>2, NoEndIsNone DEF NetOK, OpenOK
<1>4. \A t \in Session : t # s => opener'[t] = opener[t]
  BY <1>1, <1>2 DEF NetOK
<1>5. \A r \in registered : r[1][1] \in Node
  BY <1>2, RevType
<1>6. \A r \in registered : Routes(r[1], r[2]) \subseteq Routes(r[1], r[2])'
  BY <1>2, <1>3, <1>4, <1>5 DEF Routes, EndOf, PeerOf, KindOf
<1> QED
  BY <1>2, <1>6 DEF RegisteredHasSession

(* The session that registers an endpoint leads to its peer.               *)
LEMMA LinkedRoutes ==
    ASSUME IInv, RegisteredHasSession, NEW s \in Session, NEW n \in Node, LinkPeer(s, n)
    PROVE  RegisteredHasSession'
<1>1. /\ registered' = registered \cup {<<EndOf(s, n), KindOf(s, n)>>}
      /\ promoted' = promoted \cup {<<s, n>>}
      /\ UNCHANGED opener
  BY DEF LinkPeer
<1>2. EndOf(s, n)[1] = n
  BY DEF EndOf
<1>3. s \in Routes(EndOf(s, n), KindOf(s, n))'
  BY <1>1, <1>2 DEF Routes, EndOf, PeerOf, KindOf
<1>4. \A r \in registered : Routes(r[1], r[2]) \subseteq Routes(r[1], r[2])'
  BY <1>1 DEF Routes, EndOf, PeerOf, KindOf
<1>5. (EndOf(s, n))' = EndOf(s, n) /\ (KindOf(s, n))' = KindOf(s, n)
  BY <1>1 DEF EndOf, PeerOf, KindOf
<1> QED
  BY <1>1, <1>3, <1>4, <1>5 DEF RegisteredHasSession

(* What stays registered has lost no session.                              *)
LEMMA ClosedRoutes ==
    ASSUME IInv, RegisteredHasSession, NEW sides \in SUBSET (Session \X Node), Close(sides),
           registered' \subseteq registered,
           \A c \in sides \cap promoted :
               <<EndOf(c[1], c[2]), KindOf(c[1], c[2])>> \notin registered'
    PROVE  RegisteredHasSession'
<1> SUFFICES ASSUME NEW r \in registered' PROVE Routes(r[1], r[2])' # {}
  BY DEF RegisteredHasSession
<1>1. NetOK /\ r \in registered /\ r \in End \X Kind
  BY DEF IInv, RestOK
<1>2. r[1][1] \in Node /\ r = <<r[1], r[2]>>
  BY <1>1, RevType
<1>3. PICK t \in Session : /\ <<t, r[1][1]>> \in promoted
                           /\ EndOf(t, r[1][1]) = r[1]
                           /\ KindOf(t, r[1][1]) = r[2]
  BY <1>1 DEF RegisteredHasSession, Routes
<1>4. <<t, r[1][1]>> \notin sides
  BY <1>2, <1>3
<1>5. <<t, r[1][1]>> \in promoted' /\ opener'[t] = opener[t]
  BY <1>1, <1>2, <1>3, <1>4 DEF Close, NetOK
<1>6. t \in Routes(r[1], r[2])'
  BY <1>3, <1>5 DEF Routes, EndOf, PeerOf, KindOf
<1> QED
  BY <1>6

LEMMA StoppedRoutes ==
    ASSUME IInv, RegisteredHasSession, NEW s \in Session, NEW n \in Node,
           OnSessionStopped(s, n)
    PROVE  RegisteredHasSession'
<1>1. Close({<<s, n>>}) /\ registered' \subseteq registered
  BY DEF OnSessionStopped
<1>2. <<s, n>> \in promoted => <<EndOf(s, n), KindOf(s, n)>> \notin registered'
  BY DEF OnSessionStopped
<1> QED
  BY <1>1, <1>2, ClosedRoutes

LEMMA RestartRoutes ==
    ASSUME IInv, RegisteredHasSession, NEW n \in Node, Restart(n)
    PROVE  RegisteredHasSession'
<1> DEFINE sides == {c \in open : c[2] = n}
<1>1. NetOK /\ sides \in SUBSET (Session \X Node)
  BY DEF IInv, NetOK
<1>2. Close(sides) /\ registered' = {r \in registered : r[1][1] # n}
  BY DEF Restart
<1>3. \A c \in sides : EndOf(c[1], c[2])[1] = n
  BY DEF EndOf
<1>4. \A c \in sides \cap promoted :
          <<EndOf(c[1], c[2]), KindOf(c[1], c[2])>> \notin registered'
  BY <1>2, <1>3
<1> HIDE DEF sides
<1> QED
  BY <1>1, <1>2, <1>4, ClosedRoutes

LEMMA ReceivedRoutes ==
    ASSUME IInv, RegisteredHasSession, NEW s \in Session, NEW n \in Node, Receiving(s, n)
    PROVE  RegisteredHasSession'
<1>1. CASE ~LinkPeer(s, n) /\ ~SessionEnds(s, n)
  <2>1. UNCHANGED <<opener, promoted, registered>>
    BY <1>1 DEF Receiving, NoSink, ExchangeRefuses, SynchronizeRequest,
       SynchronizeResponse, SynchronizeVerification, SynchronizeFails, AuthorizedQueues,
       AuthorizedAnswers, Consumed, Replied, Refused
  <2> QED
    BY <2>1, RoutesKept
<1> QED
  BY <1>1, LinkedRoutes, StoppedRoutes DEF SessionEnds

LEMMA StepRoutes == ASSUME IInv, RegisteredHasSession, [Next]_vars PROVE RegisteredHasSession'
<1>1. CASE UNCHANGED vars
  BY <1>1, RoutesKept DEF vars, netVars
<1>2. ASSUME NEW b \in Bootstraps, ScheduleConnect(b) PROVE RegisteredHasSession'
  BY <1>2, RoutesKept DEF ScheduleConnect, netVars
<1>3. ASSUME NEW d \in dials, Connect(d) \/ DeclareResolvingPeer(d) \/ ConnectFails(d)
      PROVE  RegisteredHasSession'
  BY <1>3, RoutesKept DEF Connect, DeclareResolvingPeer, ConnectFails, netVars
<1>4. ASSUME NEW n \in Node, HandleIncoming(n) PROVE RegisteredHasSession'
  BY <1>4, RoutesKept DEF HandleIncoming
<1> QED
  BY <1>1, <1>2, <1>3, <1>4, StartedRoutes, ReceivedRoutes, StoppedRoutes, RestartRoutes
  DEF Next, Dialing, SessionFails

(* No endpoint stays registered beyond the last session that leads to its  *)
(* peer, whichever of several ends first (BryptPeer.cpp:195, 222), so that *)
(* a waiting request (Handler.cpp:135) finds no endpoint or a way.         *)
THEOREM RegistrationsLead == Spec => []RegisteredHasSession
<1>1. Init => RegisteredHasSession
  BY DEF Init, RegisteredHasSession
<1> QED
  BY <1>1, StepRoutes, Inductive, PTL DEF Spec

===============================================================================
