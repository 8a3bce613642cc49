------------------------------- MODULE PartsProofs -----------------------------
(***************************************************************************)
(* What is proved of AuthorizedLink, and of the parts that MCParts holds   *)
(* side by side: of the strategies that synchronize, of the addresses, and *)
(* of the identifiers.                                                     *)
(***************************************************************************)
EXTENDS AuthorizedLink, Synchronization, Address, BryptIdentifier,
        SequenceTheorems, WellFoundedInduction, TLAPS

(***************************************************************************)
(* What the abstract link is good for: whoever implements it has no two    *)
(* nodes that authorize each other with different keys.                    *)
(***************************************************************************)

LEMMA RevRev ==
    ASSUME NEW e \in End
    PROVE  Rev(e) \in End /\ Rev(Rev(e)) = e /\ Rev(e) # e
BY DEF End, Rev

LEMMA GrantAgrees ==
    ASSUME TypeOK, Agreement, NEW e \in End, NEW k \in Key,
           Grant(e, k), view[Rev(e)] \in {k, NoKey}
    PROVE  TypeOK' /\ Agreement'
<1>1. TypeOK'
  BY DEF TypeOK, Grant
<1>2. /\ view'[e] = k
      /\ \A d \in End : d # e => view'[d] = view[d]
  BY DEF TypeOK, Grant
<1>3. ASSUME NEW d \in End, NoKey \notin {view'[d], view'[Rev(d)]}
      PROVE  view'[d] = view'[Rev(d)]
  <2>1. Rev(d) \in End /\ Rev(e) \in End /\ Rev(Rev(d)) = d /\ Rev(e) # e
    BY RevRev
  <2>2. CASE d = e
    BY <1>2, <1>3, <2>1, <2>2
  <2>3. CASE Rev(d) = e
    BY <1>2, <1>3, <2>1, <2>3
  <2>4. CASE d # e /\ Rev(d) # e
    BY <1>2, <1>3, <2>1, <2>4 DEF Agreement
  <2> QED
    BY <2>2, <2>3, <2>4
<1> QED
  BY <1>1, <1>3 DEF Agreement

LEMMA ForgetAgrees ==
    ASSUME TypeOK, Agreement, NEW n \in Node, Forget(n)
    PROVE  TypeOK' /\ Agreement'
<1>1. \A e \in End : view'[e] \in {view[e], NoKey}
  BY DEF Forget
<1>2. TypeOK'
  BY DEF TypeOK, Forget
<1> QED
  BY <1>1, <1>2, RevRev DEF Agreement

(* Two nodes that have both authorized each other hold the same key, for   *)
(* any nodes and keys: PeerExchange and Synchronization implement this     *)
(* Spec.                                                                   *)
THEOREM LinkAgrees == Spec => []Agreement
<1>1. Init => TypeOK /\ Agreement
  BY RevRev DEF Init, TypeOK, Agreement
<1>2. TypeOK /\ Agreement /\ [Next]_vars => TypeOK' /\ Agreement'
  <2> SUFFICES ASSUME TypeOK, Agreement, [Next]_vars PROVE TypeOK' /\ Agreement'
    OBVIOUS
  <2>1. ASSUME NEW e \in End, NEW k \in Key, Open(e, k) \/ Accept(e, k)
        PROVE  TypeOK' /\ Agreement'
    BY <2>1, GrantAgrees DEF Open, Accept
  <2>2. CASE UNCHANGED vars
    BY <2>2 DEF vars, TypeOK, Agreement
  <2> QED
    BY <2>1, <2>2, ForgetAgrees DEF Next
<1> QED
  BY <1>1, <1>2, PTL DEF Spec

(***************************************************************************)
(* The synchronization of two strategies, for any sizes of keys and any    *)
(* numbers of requests, secrets and resets: it implements AuthorizedLink,  *)
(* and the keys of the two roles mirror each other.                        *)
(***************************************************************************)

(* The answer to request r with secret k.                                  *)
Signed(r, s, k) ==
    [ type |-> "signed", answer |-> Answer(s, k),
      signature |-> SignTransaction("Acceptor", k, <<Request(r)>>, Answer(s, k)) ]
Shown(k) == [type |-> "proof", proof |-> Proof(k), signature |-> Sign("Initiator", k, <<Proof(k)>>)]

(* What every message in the network is.                                   *)
NetworkOK ==
    \A m \in network :
        \/ \E r \in 1..requests : m = Request(r)
        \/ \E r \in 1..requests, s \in Nat, k \in 1..secrets : m = Signed(r, s, k)
        \/ \E k \in 1..secrets : <<"Initiator", k>> \in granted /\ m = Shown(k)

Answers(r, k) == \E s \in Nat : Signed(r, s, k) \in network
Awaits == Receives("Initiator", "Initialization")
Verifies == Receives("Acceptor", "Verification")
Ready(role) == status[role] = "Ready"

(* Whoever is ready has been granted an answered secret, the initiator     *)
(* first; a secret answers one request.                                    *)
GrantsOK ==
    /\ granted \subseteq Role \X (1..secrets)
    /\ \A k \in 1..secrets : <<"Acceptor", k>> \in granted => <<"Initiator", k>> \in granted
    /\ \A k \in 1..secrets : <<"Initiator", k>> \in granted => \E r \in 1..requests : Answers(r, k)

AnswersOne ==
    \A k \in 1..secrets, p, r \in 1..requests : Answers(p, k) /\ Answers(r, k) => p = r

(* Secrets that are granted answer requests in the order of both, with no  *)
(* two for one request, and no earlier secret answers a later request.     *)
GrantsInOrder ==
    \A j, k \in 1..secrets, p, r \in 1..requests :
        Answers(p, j) /\ Answers(r, k) /\ <<"Initiator", k>> \in granted /\ j < k =>
            /\ p <= r
            /\ <<"Initiator", j>> \in granted => p < r

(* No secret that is granted answers the request that is waited for.       *)
AwaitsNew ==
    \A k \in 1..secrets, r \in 1..requests :
        Answers(r, k) /\ <<"Initiator", k>> \in granted /\ Awaits => r < requests

HistoryOK == GrantsOK /\ AnswersOne /\ GrantsInOrder /\ AwaitsNew

RolesOK ==
    /\ Awaits /\ requests > 0 => transaction["Initiator"] = <<Request(requests)>>
    /\ Receives("Acceptor", "Initialization") => transaction["Acceptor"] = <<>>
    /\ Verifies => secret["Acceptor"] = secrets /\ secrets > 0 /\ <<"Acceptor", secrets>> \notin granted
    /\ Ready("Acceptor") => secret["Acceptor"] = secrets /\ <<"Acceptor", secrets>> \in granted
    /\ Ready("Initiator") => /\ <<"Initiator", secret["Initiator"]>> \in granted
                             /\ Answers(requests, secret["Initiator"])

TypesOK ==
    /\ status \in [Role -> {"Processing", "Ready", "Error"}]
    /\ stage \in [Role -> {"Initialization", "Verification", "Complete"}]
    /\ stage["Initiator"] # "Verification"
    /\ secret \in [Role -> Secret \cup {NoSecret}]
    /\ DOMAIN transaction = Role
    /\ requests \in Nat /\ secrets \in 0..MaxSecrets /\ resets \in Nat

IInv == TypesOK /\ NetworkOK /\ HistoryOK /\ RolesOK

-------------------------------------------------------------------------------
(* What a message shows of what it was made of.                            *)
LEMMA Kinds ==
    ASSUME NEW r, NEW s, NEW k
    PROVE  /\ Request(r).type = "request" /\ Request(r).seed = r
           /\ Signed(r, s, k).type = "signed" /\ Signed(r, s, k).answer = Answer(s, k)
           /\ Answer(s, k).secret = k
           /\ Shown(k).type = "proof"
BY DEF Request, Signed, Answer, Shown

(* An answer is to one request and has one secret.                         *)
LEMMA SignedIsOne ==
    ASSUME NEW r, NEW s, NEW k, NEW p, NEW t, NEW j, Signed(r, s, k) = Signed(p, t, j)
    PROVE  r = p /\ k = j
<1>1. Signed(r, s, k).signature.data[1] = Request(r) /\ Signed(p, t, j).signature.data[1] = Request(p)
  BY DEF Signed, SignTransaction, Sign
<1> QED
  BY <1>1, Kinds

(* The initiator accepts an answer to the request that it awaits.          *)
LEMMA AcceptsItsOwn ==
    ASSUME NEW r, NEW s, NEW k, NEW q, transaction["Initiator"] = <<Request(q)>>,
           Accepts(Signed(r, s, k), k)
    PROVE  r = q
<1>1. Signed(r, s, k).signature.data = Append(<<Request(q)>>, Signed(r, s, k).answer)
  BY DEF Accepts, VerifyTransaction, Verify
<1>2. Signed(r, s, k).signature.data[1] = Request(r)
  BY DEF Signed, SignTransaction, Sign
<1>3. Append(<<Request(q)>>, Signed(r, s, k).answer)[1] = Request(q)
  OBVIOUS
<1> QED
  BY <1>1, <1>2, <1>3, Kinds

(* The acceptor accepts the proof of who holds its secret.                 *)
LEMMA AcceptsItsSecret ==
    ASSUME NEW k, NEW j, Verify("Acceptor", j, <<Shown(k).proof>>, Shown(k).signature)
    PROVE  j = k
<1>1. Shown(k).signature.key.derived.secret = k
  BY DEF Shown, Sign, SessionKey, DeriveSecureKey
<1>2. Shown(k).signature.key.derived.secret = j
  BY DEF Verify, SessionKey, DeriveSecureKey
<1> QED
  BY <1>1, <1>2

LEMMA AnswersAreKnown ==
    ASSUME NetworkOK, NEW r, NEW k, Answers(r, k)
    PROVE  r \in 1..requests /\ k \in 1..secrets
<1>1. PICK s \in Nat : Signed(r, s, k) \in network
  BY DEF Answers
<1>2. PICK p \in 1..requests, t \in Nat, j \in 1..secrets : Signed(r, s, k) = Signed(p, t, j)
  <2>1. \A p : Signed(r, s, k) # Request(p) /\ Signed(r, s, k) # Shown(p)
    BY Kinds
  <2> QED
    BY <1>1, <2>1 DEF NetworkOK
<1> QED
  BY <1>2, SignedIsOne

(* Messages are told apart by their type.                                  *)
LEMMA SignedMessages ==
    ASSUME NetworkOK, NEW m \in network, m.type = "signed"
    PROVE  \E r \in 1..requests, s \in Nat, k \in 1..secrets : m = Signed(r, s, k)
<1>1. \A p : m # Request(p) /\ m # Shown(p)
  BY Kinds
<1> QED
  BY <1>1 DEF NetworkOK

LEMMA RequestMessages ==
    ASSUME NetworkOK, NEW m \in network, m.type = "request"
    PROVE  \E r \in 1..requests : m = Request(r)
<1>1. \A p, s, k : m # Signed(p, s, k) /\ m # Shown(p)
  BY Kinds
<1> QED
  BY <1>1 DEF NetworkOK

LEMMA ProofMessages ==
    ASSUME NetworkOK, NEW m \in network, m.type = "proof"
    PROVE  \E k \in 1..secrets : <<"Initiator", k>> \in granted /\ m = Shown(k)
<1>1. \A p, s, k : m # Signed(p, s, k) /\ m # Request(p)
  BY Kinds
<1> QED
  BY <1>1 DEF NetworkOK

(* A request or a proof answers nothing.                                   *)
LEMMA OtherMessages ==
    ASSUME NEW m, m.type # "signed", network' = network \cup {m}, NEW r, NEW k
    PROVE  Answers(r, k)' <=> Answers(r, k)
BY Kinds DEF Answers

(* Where no message is sent and nobody becomes ready, only the roles move. *)
LEMMA HistoryStays ==
    ASSUME NetworkOK, HistoryOK, UNCHANGED <<network, granted, requests, secrets>>, Awaits' => Awaits
    PROVE  NetworkOK' /\ HistoryOK'
<1>1. \A r, k : Answers(r, k)' <=> Answers(r, k)
  BY DEF Answers
<1>2. NetworkOK'
  BY DEF NetworkOK
<1> QED
  BY <1>1, <1>2 DEF HistoryOK, GrantsOK, AnswersOne, GrantsInOrder, AwaitsNew

LEMMA InitOK == SynchronizationInit => IInv
<1> SUFFICES ASSUME SynchronizationInit PROVE IInv
  OBVIOUS
<1>1. TypesOK
  BY BoundAssumption DEF SynchronizationInit, TypesOK, Role, Secret, NoSecret, Garbled
<1>2. NetworkOK
  BY DEF SynchronizationInit, NetworkOK
<1>3. HistoryOK
  BY DEF SynchronizationInit, HistoryOK, GrantsOK, AnswersOne, GrantsInOrder, AwaitsNew
<1>4. RolesOK
  BY DEF SynchronizationInit, RolesOK, Awaits, Verifies, Receives, Ready, Role
<1> QED
  BY <1>1, <1>2, <1>3, <1>4 DEF IInv

LEMMA PrepareInitiatorOK == IInv /\ PrepareInitiator => IInv'
<1> SUFFICES ASSUME IInv, PrepareInitiator PROVE IInv'
  OBVIOUS
<1> USE DEF IInv
<1>1. /\ requests' = requests + 1
      /\ network' = network \cup {Request(requests')}
      /\ UNCHANGED <<secrets, granted>>
      /\ requests \in Nat /\ secrets \in Nat
  BY BoundAssumption DEF PrepareInitiator, counts, TypesOK
<1>2. /\ status' = [status EXCEPT !["Initiator"] = "Processing"]
      /\ stage' = [stage EXCEPT !["Initiator"] = "Initialization"]
      /\ transaction' = [transaction EXCEPT !["Initiator"] = <<Request(requests')>>]
      /\ secret' = [secret EXCEPT !["Initiator"] = NoSecret]
  BY DEF PrepareInitiator, Prepare, Set
<1>3. TypesOK'
  BY <1>1, <1>2 DEF PrepareInitiator, TypesOK, Role
<1>4. \A r, k : Answers(r, k)' <=> Answers(r, k)
  BY <1>1, OtherMessages, Kinds
<1>5. \A r, k : Answers(r, k) => r \in 1..requests
  BY AnswersAreKnown
<1>6. NetworkOK'
  BY <1>1 DEF NetworkOK
<1>7. HistoryOK'
  <2>1. GrantsOK' /\ AnswersOne' /\ GrantsInOrder'
    BY <1>1, <1>4, <1>5 DEF HistoryOK, GrantsOK, AnswersOne, GrantsInOrder
  <2>2. AwaitsNew'
    BY <1>1, <1>4, <1>5 DEF AwaitsNew
  <2> QED
    BY <2>1, <2>2 DEF HistoryOK
<1>8. RolesOK'
  BY <1>1, <1>2 DEF RolesOK, TypesOK, Role, Awaits, Verifies, Receives, Ready
<1> QED
  BY <1>3, <1>6, <1>7, <1>8

LEMMA PrepareAcceptorOK == IInv /\ PrepareAcceptor => IInv'
<1> SUFFICES ASSUME IInv, PrepareAcceptor PROVE IInv'
  OBVIOUS
<1> USE DEF IInv
<1>1. UNCHANGED <<network, granted, requests, secrets>> /\ resets' = resets + 1
  BY DEF PrepareAcceptor
<1>2. /\ status' = [status EXCEPT !["Acceptor"] = "Processing"]
      /\ stage' = [stage EXCEPT !["Acceptor"] = "Initialization"]
      /\ transaction' = [transaction EXCEPT !["Acceptor"] = <<>>]
      /\ secret' = [secret EXCEPT !["Acceptor"] = NoSecret]
  BY DEF PrepareAcceptor, Prepare, Set
<1>3. TypesOK'
  BY <1>1, <1>2 DEF TypesOK, Role
<1>4. RolesOK'
  BY <1>1, <1>2 DEF RolesOK, TypesOK, Role, Awaits, Verifies, Receives, Ready, Answers
<1> QED
  BY <1>1, <1>2, <1>3, <1>4, HistoryStays DEF TypesOK, Role, Awaits, Receives

LEMMA InitializationFailsOK == ASSUME NEW m, IInv, InitializationFails(m) PROVE IInv'
<1> USE DEF IInv
<1>1. /\ UNCHANGED <<network, granted, requests, secrets, resets, stage, secret>>
      /\ status' = [status EXCEPT !["Acceptor"] = "Error"]
      /\ \E x : transaction' = [transaction EXCEPT !["Acceptor"] = x]
  BY DEF InitializationFails, Set, counts
<1>2. TypesOK'
  BY <1>1 DEF TypesOK, Role
<1>3. RolesOK'
  BY <1>1 DEF RolesOK, TypesOK, Role, Awaits, Verifies, Receives, Ready, Answers
<1> QED
  BY <1>1, <1>2, <1>3, HistoryStays DEF TypesOK, Role, Awaits, Receives

LEMMA SynchronizationFailsOK == ASSUME NEW role \in Role, IInv, SynchronizationFails(role) PROVE IInv'
<1> USE DEF IInv
<1>1. /\ UNCHANGED <<network, granted, requests, secrets, resets, stage, secret, transaction>>
      /\ status' = [status EXCEPT ![role] = "Error"]
  BY DEF SynchronizationFails, Set, counts
<1>2. TypesOK'
  BY <1>1 DEF TypesOK
<1>3. RolesOK'
  BY <1>1 DEF RolesOK, TypesOK, Role, Awaits, Verifies, Receives, Ready, Answers
<1> QED
  BY <1>1, <1>2, <1>3, HistoryStays DEF TypesOK, Role, Awaits, Receives

LEMMA ResponseFailsOK == ASSUME NEW m \in network, IInv, ResponseFails(m) PROVE IInv'
<1> USE DEF IInv
<1>1. /\ UNCHANGED <<network, granted, requests, secrets, resets, stage, transaction>>
      /\ status' = [status EXCEPT !["Initiator"] = "Error"]
      /\ \E k : secret' = [secret EXCEPT !["Initiator"] = k]
  <2>1. secret = [secret EXCEPT !["Initiator"] = secret["Initiator"]]
    BY DEF TypesOK
  <2> QED
    BY <2>1 DEF ResponseFails, Set, counts, DecapsulateSharedSecret
<1>2. secret' \in [Role -> Secret \cup {NoSecret}]
  <2>1. ASSUME NEW k \in {NoSecret, Garbled, m.answer.secret},
               secret' = [secret EXCEPT !["Initiator"] = k]
        PROVE  k \in Secret \cup {NoSecret}
    <3>1. m.type = "signed"
      BY DEF ResponseFails
    <3>2. m.answer.secret \in 1..secrets
      BY <3>1, SignedMessages, Kinds
    <3> QED
      BY <2>1, <3>2, BoundAssumption DEF TypesOK, Secret, Garbled
  <2> QED
    BY <2>1, <1>1 DEF ResponseFails, TypesOK, Set, DecapsulateSharedSecret, Role
<1>3. TypesOK'
  BY <1>1, <1>2 DEF TypesOK, Role
<1>4. RolesOK'
  BY <1>1 DEF RolesOK, TypesOK, Role, Awaits, Verifies, Receives, Ready, Answers
<1> QED
  BY <1>1, <1>3, <1>4, HistoryStays DEF TypesOK, Role, Awaits, Receives

LEMMA AcceptorInitializationOK ==
    ASSUME NEW m \in network, IInv, HandleAcceptorInitialization(m)
    PROVE  IInv'
<1> USE DEF IInv
<1>1. PICK r \in 1..requests : m = Request(r)
  BY RequestMessages DEF HandleAcceptorInitialization
<1> DEFINE k == secrets + 1
           nonce == MaxRequests + k
<1>2. /\ secrets' = k /\ secrets < MaxSecrets /\ k \in Nat /\ nonce \in Nat
      /\ UNCHANGED <<status, requests, resets, granted>>
      /\ secret' = [secret EXCEPT !["Acceptor"] = k]
      /\ stage' = [stage EXCEPT !["Acceptor"] = "Verification"]
      /\ transaction' = [transaction EXCEPT !["Acceptor"] = Append(Append(@, m), Answer(nonce, k))]
  <2>1. secrets' = k /\ secrets < MaxSecrets /\ k \in Nat /\ nonce \in Nat
    BY BoundAssumption DEF HandleAcceptorInitialization, EncapsulateSharedSecret, TypesOK
  <2> QED
    BY <2>1 DEF HandleAcceptorInitialization, EncapsulateSharedSecret, Set
<1>3. network' = network \cup {Signed(r, nonce, k)}
  <2>1. transaction["Acceptor"] = <<>> /\ Append(<<>>, m) = <<m>>
    BY DEF HandleAcceptorInitialization, RolesOK
  <2> QED
    BY <1>1, <1>2, <2>1 DEF HandleAcceptorInitialization, Signed
<1>4. TypesOK'
  BY <1>2, BoundAssumption DEF TypesOK, Role, Secret, Garbled
<1>5. NetworkOK'
  BY <1>2, <1>3 DEF NetworkOK, TypesOK
<1>6. \A p, j : Answers(p, j)' <=> Answers(p, j) \/ (p = r /\ j = k)
  BY <1>2, <1>3, SignedIsOne DEF Answers
<1>7. \A p, j : Answers(p, j) => j \in 1..secrets
  BY AnswersAreKnown
<1>8. secrets \in Nat /\ k > secrets /\ ~(<<"Initiator", k>> \in granted) /\ ~(<<"Acceptor", k>> \in granted)
  BY <1>2, BoundAssumption DEF TypesOK, HistoryOK, GrantsOK
<1>9. HistoryOK'
  <2>1. GrantsOK'
    BY <1>2, <1>6, <1>8 DEF HistoryOK, GrantsOK
  <2>2. AnswersOne'
    BY <1>2, <1>6, <1>7, <1>8 DEF HistoryOK, AnswersOne
  <2>3. GrantsInOrder'
    BY <1>2, <1>6, <1>7, <1>8 DEF HistoryOK, GrantsInOrder
  <2>4. AwaitsNew'
    BY <1>2, <1>6, <1>7, <1>8 DEF HistoryOK, AwaitsNew, Awaits, Receives, TypesOK, Role
  <2> QED
    BY <2>1, <2>2, <2>3, <2>4 DEF HistoryOK
<1>10. RolesOK'
  BY <1>2, <1>6, <1>8 DEF HandleAcceptorInitialization, RolesOK, TypesOK, Role, Awaits, Verifies, Receives, Ready
<1> QED
  BY <1>4, <1>5, <1>9, <1>10

LEMMA InitiatorInitializationOK ==
    ASSUME NEW m \in network, IInv, HandleInitiatorInitialization(m)
    PROVE  /\ IInv'
           /\ \E k \in 1..secrets :
                 /\ Answers(requests, k) /\ <<"Initiator", k>> \notin granted
                 /\ status' = [status EXCEPT !["Initiator"] = "Ready"]
                 /\ secret' = [secret EXCEPT !["Initiator"] = k]
                 /\ granted' = granted \cup {<<"Initiator", k>>}
<1> USE DEF IInv
<1>1. PICK r \in 1..requests, s \in Nat, k \in 1..secrets : m = Signed(r, s, k)
  BY SignedMessages DEF HandleInitiatorInitialization
<1>2. m.answer.secret = k
  BY <1>1, Kinds
<1>3. /\ Accepts(m, k) /\ Awaits
      /\ UNCHANGED <<requests, secrets, resets>>
      /\ status' = [status EXCEPT !["Initiator"] = "Ready"]
      /\ stage' = [stage EXCEPT !["Initiator"] = "Complete"]
      /\ secret' = [secret EXCEPT !["Initiator"] = k]
      /\ transaction' = [transaction EXCEPT !["Initiator"] = <<>>]
      /\ network' = network \cup {Shown(k)}
      /\ granted' = granted \cup {<<"Initiator", k>>}
  BY <1>2 DEF HandleInitiatorInitialization, DecapsulateSharedSecret, Finalize, Set, counts, Awaits, Shown
<1>4. r = requests
  <2>1. transaction["Initiator"] = <<Request(requests)>>
    BY <1>3 DEF RolesOK, TypesOK
  <2> QED
    BY <1>1, <1>3, <2>1, AcceptsItsOwn
<1>5. Answers(requests, k)
  BY <1>1, <1>4 DEF Answers
<1>6. <<"Initiator", k>> \notin granted
  BY <1>3, <1>5, <1>1, <1>4 DEF HistoryOK, AwaitsNew
<1>7. \A p, j : Answers(p, j)' <=> Answers(p, j)
  BY <1>3, OtherMessages, Kinds
<1>8. TypesOK'
  BY <1>3, BoundAssumption DEF TypesOK, Role, Secret, Garbled
<1>9. NetworkOK'
  BY <1>3 DEF NetworkOK
<1>10. HistoryOK'
  <2>1. GrantsOK'
    BY <1>3, <1>5, <1>7, <1>1, <1>4 DEF HistoryOK, GrantsOK, Role
  <2>2. AnswersOne'
    BY <1>3, <1>7 DEF HistoryOK, AnswersOne
  <2>3. GrantsInOrder'
    <3> SUFFICES ASSUME NEW j \in 1..secrets, NEW i \in 1..secrets, NEW p \in 1..requests, NEW q \in 1..requests,
                        Answers(p, j), Answers(q, i), <<"Initiator", i>> \in granted', j < i
                 PROVE  p <= q /\ (<<"Initiator", j>> \in granted' => p < q)
      BY <1>3, <1>7 DEF GrantsInOrder
    <3>1. CASE i = k
      <4>1. q = requests
        BY <3>1, <1>5, <1>1, <1>4 DEF HistoryOK, AnswersOne
      <4>2. j # k
        BY <3>1 DEF TypesOK
      <4>3. <<"Initiator", j>> \in granted => p < requests
        BY <1>3 DEF HistoryOK, AwaitsNew
      <4> QED
        BY <4>1, <4>2, <4>3, <1>3 DEF TypesOK
    <3>2. CASE i # k
      <4>1. <<"Initiator", i>> \in granted
        BY <3>2, <1>3
      <4>2. q < requests /\ p <= q
        BY <4>1, <1>3 DEF HistoryOK, AwaitsNew, GrantsInOrder
      <4>3. j # k
        BY <4>2, <1>5, <1>1, <1>4 DEF HistoryOK, AnswersOne, TypesOK
      <4> QED
        BY <4>1, <4>2, <4>3, <1>3 DEF HistoryOK, GrantsInOrder
    <3> QED
      BY <3>1, <3>2
  <2>4. AwaitsNew'
    BY <1>3 DEF AwaitsNew, Awaits, Receives, TypesOK, Role
  <2> QED
    BY <2>1, <2>2, <2>3, <2>4 DEF HistoryOK
<1>11. RolesOK'
  BY <1>3, <1>5, <1>7 DEF RolesOK, TypesOK, Role, Awaits, Verifies, Receives, Ready
<1> QED
  BY <1>3, <1>5, <1>6, <1>8, <1>9, <1>10, <1>11

LEMMA AcceptorVerificationOK ==
    ASSUME NEW m \in network, IInv, HandleAcceptorVerification(m)
    PROVE  /\ IInv'
           /\ secrets > 0 /\ secret["Acceptor"] = secrets
           /\ <<"Initiator", secrets>> \in granted /\ <<"Acceptor", secrets>> \notin granted
           /\ status["Acceptor"] # "Ready"
           /\ status' = [status EXCEPT !["Acceptor"] = "Ready"]
           /\ UNCHANGED secret
           /\ granted' = granted \cup {<<"Acceptor", secrets>>}
<1> USE DEF IInv
<1>1. PICK k \in 1..secrets : <<"Initiator", k>> \in granted /\ m = Shown(k)
  BY ProofMessages DEF HandleAcceptorVerification
<1>2. /\ Verifies
      /\ secret["Acceptor"] = secrets /\ secrets > 0 /\ <<"Acceptor", secrets>> \notin granted
      /\ UNCHANGED <<network, requests, secrets, resets, secret>>
      /\ status' = [status EXCEPT !["Acceptor"] = "Ready"]
      /\ stage' = [stage EXCEPT !["Acceptor"] = "Complete"]
      /\ transaction' = [transaction EXCEPT !["Acceptor"] = <<>>]
      /\ granted' = granted \cup {<<"Acceptor", secrets>>}
  BY DEF HandleAcceptorVerification, Finalize, Set, counts, Verifies, RolesOK
<1>3. k = secrets
  BY <1>1, <1>2, AcceptsItsSecret DEF HandleAcceptorVerification
<1>4. \A p, j : Answers(p, j)' <=> Answers(p, j)
  BY <1>2 DEF Answers
<1>5. TypesOK'
  BY <1>2 DEF TypesOK, Role
<1>6. NetworkOK'
  BY <1>2 DEF NetworkOK
<1>7. HistoryOK'
  BY <1>1, <1>2, <1>3, <1>4
     DEF HistoryOK, GrantsOK, AnswersOne, GrantsInOrder, AwaitsNew, Awaits, Receives, TypesOK, Role
<1>8. RolesOK'
  BY <1>2, <1>4 DEF RolesOK, TypesOK, Role, Awaits, Verifies, Receives, Ready
<1> QED
  BY <1>1, <1>2, <1>3, <1>5, <1>6, <1>7, <1>8 DEF Verifies, Receives

LEMMA StepOK == IInv /\ [SynchronizationNext]_synchronizationVars => IInv'
<1> SUFFICES ASSUME IInv, [SynchronizationNext]_synchronizationVars PROVE IInv'
  OBVIOUS
<1>1. CASE UNCHANGED synchronizationVars
  BY <1>1 DEF synchronizationVars, counts, IInv, TypesOK, NetworkOK, HistoryOK, GrantsOK, AnswersOne,
              GrantsInOrder, AwaitsNew, RolesOK, Awaits, Verifies, Receives, Ready, Answers
<1> QED
  BY <1>1, PrepareInitiatorOK, PrepareAcceptorOK, AcceptorInitializationOK, InitializationFailsOK,
     InitiatorInitializationOK, ResponseFailsOK, AcceptorVerificationOK, SynchronizationFailsOK
     DEF SynchronizationNext

LEMMA Invariant == SynchronizationSpec => []IInv
BY InitOK, StepOK, PTL DEF SynchronizationSpec

-------------------------------------------------------------------------------
(* The state of the abstract link.                                         *)
View == [e \in {<<role, Other(role)>> : role \in Role} |->
            IF status[e[1]] = "Ready" THEN secret[e[1]] ELSE NoSecret]
Grants == {<<<<g[1], Other(g[1])>>, g[2]>> : g \in granted}
InitiatorsEnd == <<"Initiator", "Acceptor">>
AcceptorsEnd == <<"Acceptor", "Initiator">>

LEMMA Ends ==
    /\ Link!End = {InitiatorsEnd, AcceptorsEnd}
    /\ InitiatorsEnd # AcceptorsEnd
    /\ {<<role, Other(role)>> : role \in Role} = {InitiatorsEnd, AcceptorsEnd}
    /\ Link!Rev(InitiatorsEnd) = AcceptorsEnd /\ Link!Rev(AcceptorsEnd) = InitiatorsEnd
BY DEF Link!End, Link!Rev, InitiatorsEnd, AcceptorsEnd, Role, Other

LEMMA Views ==
    /\ View = [e \in Link!End |-> View[e]]
    /\ View[InitiatorsEnd] = IF Ready("Initiator") THEN secret["Initiator"] ELSE NoSecret
    /\ View[AcceptorsEnd] = IF Ready("Acceptor") THEN secret["Acceptor"] ELSE NoSecret
BY Ends DEF View, Ready, InitiatorsEnd, AcceptorsEnd

LEMMA GrantsOf ==
    ASSUME TypesOK, HistoryOK, NEW k, NEW role \in Role
    PROVE  <<<<role, Other(role)>>, k>> \in Grants <=> <<role, k>> \in granted
<1>1. ASSUME NEW g \in granted, <<<<g[1], Other(g[1])>>, g[2]>> = <<<<role, Other(role)>>, k>>
      PROVE  g = <<role, k>>
  <2>1. g = <<g[1], g[2]>>
    BY DEF HistoryOK, GrantsOK
  <2>2. g[1] = role /\ g[2] = k
    BY <1>1
  <2> QED
    BY <2>1, <2>2
<1>2. ASSUME <<role, k>> \in granted
      PROVE  <<<<role, Other(role)>>, k>> \in Grants
  <2>1. <<role, k>>[1] = role /\ <<role, k>>[2] = k
    OBVIOUS
  <2> QED
    BY <1>2, <2>1, Zenon DEF Grants
<1> QED
  BY <1>1, <1>2 DEF Grants

LEMMA GrantsOfBoth ==
    ASSUME TypesOK, HistoryOK, NEW k
    PROVE  /\ <<InitiatorsEnd, k>> \in Grants <=> <<"Initiator", k>> \in granted
           /\ <<AcceptorsEnd, k>> \in Grants <=> <<"Acceptor", k>> \in granted
BY GrantsOf DEF Role, Other, InitiatorsEnd, AcceptorsEnd

LEMMA GrantsAdded ==
    ASSUME NEW role \in Role, NEW k, granted' = granted \cup {<<role, k>>}
    PROVE  Grants' = Grants \cup {<<<<role, Other(role)>>, k>>}
<1> DEFINE F(g) == <<<<g[1], Other(g[1])>>, g[2]>>
<1>1. F(<<role, k>>) = <<<<role, Other(role)>>, k>>
  OBVIOUS
<1>2. Grants = {F(g) : g \in granted} /\ Grants' = {F(g) : g \in granted'}
  BY DEF Grants
<1> HIDE DEF F
<1> QED
  BY <1>1, <1>2

(* What becomes of the two views when one role's status and secret change. *)
LEMMA ViewStays ==
    ASSUME TypesOK, TypesOK',
           \A role \in Role : /\ Ready(role)' <=> Ready(role)
                              /\ Ready(role) => secret'[role] = secret[role]
    PROVE  View' = View
BY DEF View, Ready

LEMMA ViewChanges ==
    ASSUME NEW role \in Role, NEW k,
           TypesOK, status' = [status EXCEPT ![role] = "Ready"], secret' = [secret EXCEPT ![role] = k]
    PROVE  View' = [View EXCEPT ![<<role, Other(role)>>] = k]
<1> DEFINE end == <<role, Other(role)>>
<1>1. /\ DOMAIN View = Link!End /\ DOMAIN View' = Link!End
      /\ \A e \in Link!End : View[e] = IF Ready(e[1]) THEN secret[e[1]] ELSE NoSecret
      /\ \A e \in Link!End : View'[e] = IF Ready(e[1])' THEN secret'[e[1]] ELSE NoSecret
  BY Ends DEF View, Ready
<1>2. end \in Link!End /\ end[1] = role /\ \A e \in Link!End : e # end => e[1] \in Role \ {role}
  BY Ends DEF InitiatorsEnd, AcceptorsEnd, Role, Other
<1>3. View'[end] = k /\ \A e \in Link!End \ {end} : View'[e] = View[e]
  BY <1>1, <1>2 DEF Ready, TypesOK
<1>4. View = [e \in Link!End |-> View[e]] /\ View' = [e \in Link!End |-> View'[e]]
  BY Ends DEF View
<1> HIDE DEF end
<1>5. View' = [View EXCEPT ![end] = k]
  BY <1>2, <1>3, <1>4
<1> QED
  BY <1>5 DEF end

LEMMA ViewIsForgotten ==
    ASSUME NEW role \in Role, TypesOK, TypesOK', status' = [status EXCEPT ![role] = "Processing"],
           \E k : secret' = [secret EXCEPT ![role] = k]
    PROVE  View' = [e \in Link!End |-> IF e[1] = role THEN NoSecret ELSE View[e]]
BY Ends DEF View, TypesOK, InitiatorsEnd, AcceptorsEnd

(* A role that starts again forgets; what fails shows nothing.             *)
LEMMA PrepareForgets ==
    ASSUME IInv, IInv', PrepareInitiator \/ PrepareAcceptor
    PROVE  Link!Next
<1>1. Grants' = Grants
  BY DEF PrepareInitiator, PrepareAcceptor, Grants
<1>2. CASE PrepareInitiator
  <2>1. View' = [e \in Link!End |-> IF e[1] = "Initiator" THEN NoSecret ELSE View[e]]
    BY <1>2, ViewIsForgotten DEF PrepareInitiator, Prepare, Set, IInv, Role
  <2>2. Link!Forget("Initiator")
    BY <1>1, <2>1 DEF Link!Forget, View, Grants
  <2> QED
    BY <2>2 DEF Link!Next, Role
<1>3. CASE PrepareAcceptor
  <2>1. View' = [e \in Link!End |-> IF e[1] = "Acceptor" THEN NoSecret ELSE View[e]]
    BY <1>3, ViewIsForgotten DEF PrepareAcceptor, Prepare, Set, IInv, Role
  <2>2. Link!Forget("Acceptor")
    BY <1>1, <2>1 DEF Link!Forget, View, Grants
  <2> QED
    BY <2>2 DEF Link!Next, Role
<1> QED
  BY <1>2, <1>3

LEMMA InitiatorOpens ==
    ASSUME IInv, IInv', NEW m \in network, HandleInitiatorInitialization(m)
    PROVE  Link!Next
<1> USE DEF IInv
<1>1. PICK k \in 1..secrets :
         /\ Answers(requests, k) /\ <<"Initiator", k>> \notin granted
         /\ status' = [status EXCEPT !["Initiator"] = "Ready"]
         /\ secret' = [secret EXCEPT !["Initiator"] = k]
         /\ granted' = granted \cup {<<"Initiator", k>>}
  BY InitiatorInitializationOK
<1>2. Awaits /\ ~Ready("Initiator") /\ requests \in Nat /\ secrets \in Nat /\ k \in Secret
  BY BoundAssumption DEF HandleInitiatorInitialization, Awaits, Receives, Ready, TypesOK, Secret, Garbled
<1>3. ~Ready("Acceptor")
  <2>1. SUFFICES ASSUME <<"Initiator", secrets>> \in granted, secrets > 0 PROVE FALSE
    BY DEF RolesOK, HistoryOK, GrantsOK
  <2>2. PICK r \in 1..requests : Answers(r, secrets)
    BY <1>2, <2>1 DEF HistoryOK, GrantsOK
  <2>3. requests \in 1..requests /\ r < requests
    BY <1>2, <2>1, <2>2 DEF HistoryOK, AwaitsNew
  <2>4. requests <= r
    BY <1>1, <1>2, <2>1, <2>2, <2>3 DEF HistoryOK, GrantsInOrder
  <2> QED
    BY <2>3, <2>4
<1>4. View' = [View EXCEPT ![InitiatorsEnd] = k] /\ Grants' = Grants \cup {<<InitiatorsEnd, k>>}
  BY <1>1, ViewChanges, GrantsAdded DEF InitiatorsEnd, Role, Other
<1>5. View[InitiatorsEnd] = NoSecret /\ View[AcceptorsEnd] = NoSecret
  BY <1>2, <1>3, Views
<1>6. \A d \in Link!End : <<d, k>> \notin Grants
  BY <1>1, Ends, GrantsOfBoth DEF HistoryOK, GrantsOK
<1>7. Link!Open(InitiatorsEnd, k)
  BY <1>4, <1>5, <1>6, Ends DEF Link!Open, Link!Grant, View, Grants
<1> QED
  BY <1>2, <1>7, Ends DEF Link!Next

LEMMA AcceptorAccepts ==
    ASSUME IInv, IInv', NEW m \in network, HandleAcceptorVerification(m)
    PROVE  Link!Next
<1> USE DEF IInv
<1>1. /\ secrets > 0 /\ secret["Acceptor"] = secrets
      /\ <<"Initiator", secrets>> \in granted /\ <<"Acceptor", secrets>> \notin granted
      /\ ~Ready("Acceptor")
      /\ status' = [status EXCEPT !["Acceptor"] = "Ready"]
      /\ secret' = [secret EXCEPT !["Acceptor"] = secrets]
      /\ granted' = granted \cup {<<"Acceptor", secrets>>}
  <2>1. secret = [secret EXCEPT !["Acceptor"] = secret["Acceptor"]]
    BY DEF TypesOK
  <2> QED
    BY <2>1, AcceptorVerificationOK DEF Ready
<1>2. requests \in Nat /\ secrets \in Nat /\ secrets \in Secret
  BY <1>1, BoundAssumption DEF TypesOK, Secret, Garbled
<1>3. Ready("Initiator") => secret["Initiator"] = secrets
  <2> SUFFICES ASSUME Ready("Initiator"), secret["Initiator"] # secrets PROVE FALSE
    OBVIOUS
  <2> DEFINE j == secret["Initiator"]
  <2>1. j \in 1..secrets /\ <<"Initiator", j>> \in granted /\ Answers(requests, j)
    BY DEF RolesOK, HistoryOK, GrantsOK
  <2>2. j < secrets
    BY <1>2, <2>1
  <2>3. PICK r \in 1..requests : Answers(r, secrets)
    BY <1>1, <1>2 DEF HistoryOK, GrantsOK
  <2> HIDE DEF j
  <2>4. requests < r
    BY <1>1, <1>2, <2>1, <2>2, <2>3 DEF HistoryOK, GrantsInOrder
  <2> QED
    BY <1>2, <2>3, <2>4
<1>4. View' = [View EXCEPT ![AcceptorsEnd] = secrets] /\ Grants' = Grants \cup {<<AcceptorsEnd, secrets>>}
  BY <1>1, ViewChanges, GrantsAdded DEF AcceptorsEnd, Role, Other
<1>5. View[AcceptorsEnd] = NoSecret /\ View[InitiatorsEnd] \in {secrets, NoSecret}
  BY <1>1, <1>3, Views
<1>6. <<InitiatorsEnd, secrets>> \in Grants /\ <<AcceptorsEnd, secrets>> \notin Grants
  BY <1>1, GrantsOfBoth
<1>7. Link!Accept(AcceptorsEnd, secrets)
  BY <1>4, <1>5, <1>6, Ends DEF Link!Accept, Link!Grant, View, Grants
<1> QED
  BY <1>2, <1>7, Ends DEF Link!Next

LEMMA OthersStutter ==
    ASSUME IInv, IInv',
           \/ \E m \in network : \/ HandleAcceptorInitialization(m)
                                 \/ InitializationFails(m)
                                 \/ ResponseFails(m)
           \/ \E role \in Role : SynchronizationFails(role)
           \/ UNCHANGED synchronizationVars
    PROVE  UNCHANGED <<View, Grants>>
<1>1. Grants' = Grants
  BY DEF HandleAcceptorInitialization, InitializationFails, ResponseFails, SynchronizationFails,
         synchronizationVars, counts, Grants
<1>2. \A role \in Role : (Ready(role)' <=> Ready(role)) /\ (Ready(role) => secret'[role] = secret[role])
  BY DEF HandleAcceptorInitialization, InitializationFails, ResponseFails, SynchronizationFails,
         synchronizationVars, EncapsulateSharedSecret, DecapsulateSharedSecret, Set, Receives, Ready,
         IInv, TypesOK, Role
<1> QED
  BY <1>1, <1>2, ViewStays DEF IInv

(* However messages are lost, repeated, delayed and damaged, and whoever   *)
(* starts again: a key is authorized first by its initiator, once by each  *)
(* role, and never while the other is ready with another.                  *)
THEOREM SynchronizationRefines == SynchronizationSpec => SynchronizationLink
<1>1. SynchronizationInit => Link!Init
  BY Ends DEF SynchronizationInit, Link!Init, Role, Other
<1>2. IInv /\ IInv' /\ [SynchronizationNext]_synchronizationVars => [Link!Next]_(Link!vars)
  <2> SUFFICES ASSUME IInv, IInv', [SynchronizationNext]_synchronizationVars
               PROVE  [Link!Next]_(Link!vars)
    OBVIOUS
  <2>1. UNCHANGED <<View, Grants>> => UNCHANGED Link!vars
    BY DEF Link!vars, View, Grants
  <2> QED
    BY <2>1, PrepareForgets, InitiatorOpens, AcceptorAccepts, OthersStutter DEF SynchronizationNext
<1> QED
  BY <1>1, <1>2, Invariant, StepOK, PTL DEF SynchronizationSpec, SynchronizationLink, Link!Spec

(* The keys of the two roles mirror each other and no two of them share a  *)
(* byte, whatever sizes of keys a strategy has.                            *)
THEOREM CordonsMirror == SynchronizationSpec => []KeysMirror
<1>1. KeysMirror
  BY SizeAssumption
     DEF KeysMirror, Cordons, SetInitiatorKeyCordons, SetAcceptorKeyCordons, Cordon, Part, PrincipalKeySize
<1> QED
  BY <1>1, PTL

-------------------------------------------------------------------------------
(***************************************************************************)
(* Addresses.  The object at a place has the members of an address, and    *)
(* its uri is made of lengths.                                             *)
(***************************************************************************)
IsObject(object) ==
    /\ object = Object(object.protocol, object.uri, object.heap, object.of, object.parts)
    /\ object.uri \in UriText

(* What is said of one address by PartitionsAreParts.                      *)
Faithful(h, object) ==
    IsValid(object) /\ object.protocol = "TCP" /\ object.heap =>
        /\ object.of = h
        /\ object.parts = Parts(object.uri.scheme, object.uri)
        /\ GetAddressComponents(object).ip.first < GetAddressComponents(object).ip.last
        /\ ParseAddressType("TCP", object.uri, object.parts) # "Invalid"

(* CacheAddressPartitions cuts whatever text it is given into its parts, or *)
(* resets the address.                                                     *)
LEMMA CacheIsFaithful ==
    ASSUME NEW h, NEW protocol, NEW uri \in UriText, NEW heap
    PROVE  LET object == CacheAddressPartitions(h, protocol, uri, heap)
           IN IsObject(object) /\ Faithful(h, object)
<1> DEFINE object == CacheAddressPartitions(h, protocol, uri, heap)
           given == Prepended(protocol, uri)
           parts == Cached(protocol, uri)
           stored == heap \/ Size(given) > InlineCapacity
<1>1. given \in UriText
  BY DEF Prepended, Scheme, UriText
<1>2. Empty \in UriText
  BY DEF Empty, UriText
<1>3. ASSUME object = Reset(h, protocol, heap) \/ object = Reset(h, protocol, stored)
      PROVE  IsObject(object) /\ Faithful(h, object)
  <2>1. object.uri = Empty
    BY <1>3 DEF Reset, Object
  <2> QED
    BY <1>2, <1>3, <2>1 DEF Faithful, IsValid, IsObject, Reset, Object
<1>4. ASSUME Valid(protocol, given, parts), object = Object(protocol, given, stored, h, parts)
      PROVE  IsObject(object) /\ Faithful(h, object)
  <2>1. /\ object.uri = given /\ object.of = h /\ object.protocol = protocol
        /\ object.parts = parts
    BY <1>4 DEF Object
  <2> SUFFICES ASSUME protocol = "TCP" PROVE Faithful(h, object)
    BY <1>1, <1>4, <2>1 DEF Faithful, IsObject, Object
  <2>2. given.scheme = IF uri.scheme = 0 THEN Scheme("TCP") ELSE uri.scheme
    BY DEF Prepended, UriText
  <2>3. parts = Parts(given.scheme, given)
    BY <2>2 DEF Cached
  <2>4. ParseAddressType("TCP", given, parts) # "Invalid"
    BY <1>4 DEF Valid
  <2>5. /\ parts.primary.first # parts.primary.last
        /\ given.colon # None
    BY <2>4 DEF ParseAddressType
  <2>6. parts.primary = Interval(Start(given), Start(given) + given.colon)
    BY <2>3, <2>5 DEF Parts, LastColon, Start
  <2>7. Start(given) \in Nat /\ given.colon \in Nat
    BY <1>1, <2>5 DEF Start, UriText, SchemeSeparatorSize
  <2>8. parts.primary.first < parts.primary.last
    BY <2>5, <2>6, <2>7 DEF Interval
  <2> HIDE DEF object, given, parts
  <2> QED
    BY <2>1, <2>3, <2>4, <2>8 DEF Faithful, GetAddressComponents
<1> QED
  BY <1>3, <1>4 DEF CacheAddressPartitions

(* A binding's uri is one again once its wildcard is replaced.             *)
LEMMA BindingIsUri ==
    ASSUME NEW protocol, NEW uri \in UriText, Bindable(uri), NEW length \in InterfaceAddress
    PROVE  BuildBindingUri(protocol, uri, length) \in UriText
<1> DEFINE given == Prepended(protocol, uri)
           found == IF protocol = "LoRa" THEN 0 ELSE length
           kept == IF uri.colon = None THEN SchemeSeparatorSize + uri.size
                   ELSE uri.size - uri.colon
<1>1. given \in UriText /\ Empty \in UriText
  BY DEF Prepended, Scheme, UriText, Empty
<1>2. found \in Nat
  BY UriAssumption
<1>3. kept \in Nat /\ kept > 0
  BY DEF UriText, SchemeSeparatorSize
<1>4. CASE uri.host = "*"
  <2> DEFINE built == [given EXCEPT !.size = found + kept, !.colon = found,
                                   !.host = IF found = 0 THEN "other" ELSE "v4",
                                   !.port = IF uri.colon = None THEN "other" ELSE uri.port]
  <2>1. found + kept \in Nat /\ found < found + kept /\ uri.port \in {"number", "other"}
    BY <1>2, <1>3 DEF UriText
  <2> HIDE DEF given, found, kept
  <2>2. built \in UriText
    BY <1>1, <1>2, <2>1 DEF UriText
  <2> QED
    BY <1>1, <1>4, <2>2 DEF BuildBindingUri, given, found, kept
<1>5. CASE uri.host # "*"
  BY <1>1, <1>5 DEF BuildBindingUri
<1> QED
  BY <1>4, <1>5

(* Every address that lives is an object, and faithful at its place.       *)
AddressInv ==
    /\ DOMAIN address = Handle
    /\ \A h \in Handle : Lives(h) => IsObject(address[h]) /\ Faithful(h, address[h])

(* An address that is put at a place, and faithful there, keeps them so.   *)
LEMMA PutKeeps ==
    ASSUME AddressInv, NEW h \in Handle, NEW object, Put(h, object),
           object # Nothing => IsObject(object) /\ Faithful(h, object)
    PROVE  AddressInv'
<1>1. /\ DOMAIN address' = Handle
      /\ \A g \in Handle : address'[g] = IF g = h THEN object ELSE address[g]
  BY DEF Put, AddressInv
<1>2. \A g \in Handle : address'[g] # Nothing =>
          IsObject(address'[g]) /\ Faithful(g, address'[g])
  BY <1>1 DEF AddressInv, Lives
<1> QED
  BY <1>1, <1>2 DEF AddressInv, Lives

(* The characters of an address that is moved go along, or its views are   *)
(* not claimed to be of them.                                              *)
LEMMA MoveKeeps ==
    ASSUME AddressInv, NEW h \in Handle, NEW g \in Handle, Move(h, g)
    PROVE  AddressInv'
<1> DEFINE moved == [address[g] EXCEPT !.of = IF address[g].heap /\ @ = g THEN h ELSE @]
           left == Object("Invalid", Empty, FALSE, g, NoParts)
<1>1. IsObject(address[g]) /\ Faithful(g, address[g])
  BY DEF AddressInv, Move
<1>2. /\ h # g
      /\ DOMAIN address' = Handle
      /\ \A f \in Handle : address'[f] = IF f = h THEN moved ELSE IF f = g THEN left ELSE address[f]
  BY DEF Move, AddressInv
<1>3. moved = Object(address[g].protocol, address[g].uri, address[g].heap,
                     IF address[g].heap /\ address[g].of = g THEN h ELSE address[g].of,
                     address[g].parts)
  BY <1>1 DEF IsObject, Object
<1>4. IsObject(moved) /\ Faithful(h, moved)
  <2> HIDE DEF moved
  <2>1. /\ moved.protocol = address[g].protocol /\ moved.uri = address[g].uri
        /\ moved.heap = address[g].heap /\ moved.parts = address[g].parts
        /\ moved.of = IF address[g].heap /\ address[g].of = g THEN h ELSE address[g].of
    BY <1>3 DEF Object
  <2>2. IsObject(moved)
    BY <1>1, <1>3, <2>1 DEF IsObject, Object
  <2>3. Faithful(h, moved)
    BY <1>1, <2>1 DEF Faithful, IsValid, GetAddressComponents
  <2> QED
    BY <2>2, <2>3
<1>5. IsObject(left) /\ Faithful(g, left)
  BY DEF IsObject, Faithful, IsValid, Object, Empty, UriText
<1> HIDE DEF moved, left
<1> QED
  BY <1>2, <1>4, <1>5 DEF AddressInv, Lives

(* Whatever is constructed, copied, moved or destroyed, addresses stay so.  *)
LEMMA AddressStep ==
    ASSUME AddressInv, [AddressNext]_address
    PROVE  AddressInv'
<1>1. ASSUME NEW h \in Handle, NEW protocol, NEW uri \in Uri, Construct(h, protocol, uri)
      PROVE  AddressInv'
  BY <1>1, UriAssumption, CacheIsFaithful, PutKeeps DEF Construct
<1>2. ASSUME NEW h \in Handle, NEW protocol, NEW uri \in Uri, Bind(h, protocol, uri)
      PROVE  AddressInv'
  <2>1. PICK length \in InterfaceAddress :
            Put(h, CacheAddressPartitions(h, protocol, BuildBindingUri(protocol, uri, length),
                       Size(BuildBindingUri(protocol, uri, length)) > InlineCapacity))
    BY <1>2 DEF Bind
  <2>2. BuildBindingUri(protocol, uri, length) \in UriText
    BY <1>2, UriAssumption, BindingIsUri DEF Bind
  <2> QED
    BY <2>1, <2>2, CacheIsFaithful, PutKeeps
<1>3. ASSUME NEW h \in Handle, NEW g \in Handle, CopyConstruct(h, g) \/ Assign(h, g)
      PROVE  AddressInv'
  <2>1. address[g].uri \in UriText
    BY <1>3 DEF AddressInv, IsObject, CopyConstruct, Assign
  <2>2. CASE CopyConstruct(h, g)
    BY <2>1, <2>2, CacheIsFaithful, PutKeeps DEF CopyConstruct
  <2>3. CASE Assign(h, g)
    BY <2>1, <2>3, CacheIsFaithful, PutKeeps DEF Assign
  <2> QED
    BY <1>3, <2>2, <2>3
<1>4. ASSUME NEW h \in Handle, NEW g \in Handle, Move(h, g)
      PROVE  AddressInv'
  BY <1>4, MoveKeeps
<1>5. ASSUME NEW h \in Handle, Destroy(h)
      PROVE  AddressInv'
  BY <1>5, PutKeeps DEF Destroy
<1>6. CASE UNCHANGED address
  BY <1>6 DEF AddressInv, Lives
<1> QED
  BY <1>1, <1>2, <1>3, <1>4, <1>5, <1>6 DEF AddressNext

(* A valid TCP address shows its own characters, cut where its uri says,   *)
(* for every set of uris and places, and every sequence of copies,         *)
(* assignments, moves and destructions.                                    *)
THEOREM PartitionsHold == AddressSpec => []PartitionsAreParts
<1>1. AddressInit => AddressInv
  BY DEF AddressInit, AddressInv, Lives
<1>2. AddressInv /\ [AddressNext]_address => AddressInv'
  BY AddressStep
<1>3. AddressInv => PartitionsAreParts
  BY DEF AddressInv, PartitionsAreParts, Faithful
<1> QED
  BY <1>1, <1>2, <1>3, PTL DEF AddressSpec

-------------------------------------------------------------------------------
(***************************************************************************)
(* An identifier, its text and what is read of that: numbers of two bases. *)
(***************************************************************************)

(* A set of naturals that is not empty has a least element.                *)
LEMMA Least ==
    ASSUME NEW T \in SUBSET Nat, T # {}
    PROVE  \E x \in T : \A y \in T : x <= y
<1> DEFINE R == OpToRel(<, Nat)
<1>1. IsWellFoundedOn(R, Nat)
  BY NatLessThanWellFounded
<1>2. \A x \in Nat, y \in Nat : x < y => <<x, y>> \in R
  BY DEF OpToRel
<1> HIDE DEF R
<1>3. \E x \in T : \A y \in T : ~(<<y, x>> \in R)
  BY <1>1, WFMin, Zenon
<1>4. \A x \in Nat, y \in Nat : ~(y < x) => x <= y
  BY SMT
<1>5. \A x \in T : x \in Nat
  OBVIOUS
<1> QED
  BY <1>2, <1>3, <1>4, <1>5, Zenon

(* Induction over the naturals, said of a set: what holds of 0 and of the  *)
(* successor of every number it holds of is all of Nat.                    *)
LEMMA NaturalInduction ==
    ASSUME NEW S \in SUBSET Nat, 0 \in S, \A n \in S : n + 1 \in S
    PROVE  S = Nat
<1> SUFFICES ASSUME Nat \ S # {} PROVE FALSE
  OBVIOUS
<1>1. Nat \ S \in SUBSET Nat
  OBVIOUS
<1>2. PICK x \in Nat \ S : \A y \in Nat \ S : x <= y
  BY <1>1, Least, Zenon
<1>3. x # 0 /\ x - 1 \in Nat /\ ~(x <= x - 1) /\ (x - 1) + 1 = x
  BY SMT
<1> QED
  BY <1>2, <1>3, Zenon


(* What is known of one element, and carried on to the next, is known of   *)
(* all that a bound leaves.                                                *)
LEMMA BoundedInduction ==
    ASSUME NEW n \in Nat, NEW S \in SUBSET Nat, 0 \in S,
           \A k \in S : k < n => k + 1 \in S
    PROVE  \A k \in 0..n : k \in S
<1> DEFINE T == {k \in Nat : k <= n => k \in S}
<1>1. 0 \in T
  BY SMT
<1>2. \A k \in T : k + 1 \in T
  <2> SUFFICES ASSUME NEW k \in T PROVE k + 1 \in T
    OBVIOUS
  <2>1. CASE k + 1 <= n
    BY <2>1, SMT
  <2>2. CASE ~(k + 1 <= n)
    BY <2>2, SMT
  <2> QED
    BY <2>1, <2>2
<1>3. T \in SUBSET Nat
  OBVIOUS
<1> HIDE DEF T
<1>4. T = Nat
  BY <1>1, <1>2, <1>3, NaturalInduction, Zenon
<1> USE DEF T
<1> SUFFICES ASSUME NEW k \in 0..n PROVE k \in S
  OBVIOUS
<1>5. k \in T /\ k <= n
  BY <1>4, SMT
<1> QED
  BY <1>5

(* A function that is defined from each value to the next, and that there  *)
(* is one.                                                                 *)
Recursive(n, T, a, G, f) ==
    /\ f \in [0..n -> T]
    /\ f[0] = a
    /\ \A k \in 1..n : f[k] = G[<<k, f[k - 1]>>]

(* For every step there is that function.                                  *)
LEMMA Recursion ==
    ASSUME NEW n \in Nat, NEW T, NEW a \in T, NEW G \in [(1..n) \X T -> T]
    PROVE  \E f : Recursive(n, T, a, G, f)
<1> DEFINE Q(m) == \E f \in [0..n -> T] :
                       f[0] = a /\ \A k \in 1..n : k <= m => f[k] = G[<<k, f[k - 1]>>]
           S == {m \in Nat : Q(m)}
<1>1. 0 \in S
  <2> DEFINE f == [k \in 0..n |-> a]
  <2>1. f \in [0..n -> T] /\ f[0] = a
    BY SMT
  <2>2. \A k \in 1..n : ~(k <= 0)
    BY SMT
  <2> HIDE DEF f
  <2> QED
    BY <2>1, <2>2
<1>2. \A m \in S : m < n => m + 1 \in S
  <2> SUFFICES ASSUME NEW m \in S, m < n PROVE m + 1 \in S
    OBVIOUS
  <2>1. PICK f \in [0..n -> T] : f[0] = a /\ \A k \in 1..n : k <= m => f[k] = G[<<k, f[k - 1]>>]
    OBVIOUS
  <2>2. m \in Nat /\ m \in 0..n /\ m + 1 \in 1..n /\ m + 1 \in 0..n /\ (m + 1) - 1 = m /\ m + 1 # 0
    BY SMT
  <2> DEFINE e == G[<<m + 1, f[m]>>]
             g == [f EXCEPT ![m + 1] = e]
  <2>3. e \in T
    <3>1. f[m] \in T
      BY <2>2
    <3> QED
      BY <2>2, <3>1
  <2> HIDE DEF e
  <2>4. g \in [0..n -> T] /\ g[0] = a
    BY <2>1, <2>2, <2>3
  <2>5. ASSUME NEW k \in 1..n, k <= m + 1 PROVE g[k] = G[<<k, g[k - 1]>>]
    <3>1. k \in 0..n /\ k - 1 \in 0..n /\ k - 1 # m + 1 /\ (k = m + 1 \/ (k <= m /\ k # m + 1))
      BY SMT, <2>2, <2>5
    <3>2. g[k - 1] = f[k - 1]
      BY <3>1
    <3>3. CASE k = m + 1
      <4>1. g[k] = e
        BY <2>2, <3>3
      <4>2. k - 1 = m
        BY <2>2, <3>3
      <4> HIDE DEF g
      <4> QED
        BY <3>2, <3>3, <4>1, <4>2 DEF e
    <3>4. CASE k <= m /\ k # m + 1
      <4>1. g[k] = f[k]
        BY <3>1, <3>4
      <4>2. f[k] = G[<<k, f[k - 1]>>]
        BY <2>1, <3>4
      <4> HIDE DEF g
      <4> QED
        BY <3>2, <4>1, <4>2
    <3> QED
      BY <3>1, <3>3, <3>4
  <2> HIDE DEF g
  <2>6. Q(m + 1)
    BY <2>4, <2>5
  <2> HIDE DEF Q
  <2> QED
    BY <2>2, <2>6
<1> HIDE DEF Q
<1>3. S \in SUBSET Nat
  OBVIOUS
<1> HIDE DEF S
<1>4. n \in S
  <2>1. n \in 0..n
    BY SMT
  <2> QED
    BY <1>1, <1>2, <1>3, <2>1, BoundedInduction, Zenon
<1>5. PICK f \in [0..n -> T] : f[0] = a /\ \A k \in 1..n : k <= n => f[k] = G[<<k, f[k - 1]>>]
  BY <1>4 DEF S, Q
<1>6. \A k \in 1..n : k <= n
  BY SMT
<1> QED
  BY <1>5, <1>6 DEF Recursive

-------------------------------------------------------------------------------
(* What a sequence holds at one of its places.                             *)
LEMMA Element ==
    ASSUME NEW T, NEW s \in Seq(T), NEW k \in 1..Len(s)
    PROVE  s[k] \in T
OBVIOUS

(* The two conversions: of bytes to characters, and of those to bytes.     *)
Conversion(base, factor) ==
    \/ base = CharacterSpace /\ factor = 256
    \/ base = 256 /\ factor = CharacterSpace

(* What a step of Add may carry, and what it is given: a byte, or the      *)
(* number of a character.                                                  *)
Carry == 0..255

(* What is carried from one digit to the next is a byte.                   *)
LEMMA CarryIs ==
    ASSUME NEW base, NEW factor, Conversion(base, factor),
           NEW c \in Carry, NEW d \in 0..base - 1
    PROVE  (c + d * factor) \div base \in Carry
<1>1. CASE base = 58 /\ factor = 256
  <2>1. d \in 0..57
    BY <1>1, SMT
  <2>2. (c + d * 256) \div 58 \in 0..255
    BY <2>1, SMT DEF Carry
  <2> QED
    BY <1>1, <2>2 DEF Carry
<1>2. CASE base = 256 /\ factor = 58
  <2>1. d \in 0..255
    BY <1>2, SMT
  <2>2. (c + d * 58) \div 256 \in 0..255
    BY <2>1, SMT DEF Carry
  <2> QED
    BY <1>2, <2>2 DEF Carry
<1> QED
  BY <1>1, <1>2 DEF Conversion, CharacterSpace

(* The carries of Add, from the lowest digit on.                           *)
Carries(digit, digits, factor, base, c) ==
    /\ c \in [0..Len(digits) -> Carry]
    /\ c[0] = digit
    /\ \A k \in 1..Len(digits) : c[k] = (c[k - 1] + digits[k] * factor) \div base

(* There are carries for all digits.                                       *)
LEMMA CarriesExist ==
    ASSUME NEW base, NEW factor, Conversion(base, factor),
           NEW digit \in Carry, NEW digits \in Seq(0..base - 1)
    PROVE  \E c : Carries(digit, digits, factor, base, c)
<1>1. PICK n \in Nat : n = Len(digits)
  OBVIOUS
<1> DEFINE G == [p \in (1..n) \X Carry |-> (p[2] + digits[p[1]] * factor) \div base]
<1>2. G \in [(1..n) \X Carry -> Carry]
  <2> SUFFICES ASSUME NEW k \in 1..n, NEW c \in Carry
               PROVE  (c + digits[k] * factor) \div base \in Carry
    OBVIOUS
  <2>1. digits[k] \in 0..base - 1
    BY <1>1, Element, Zenon
  <2> QED
    BY <2>1, CarryIs, Zenon
<1>3. \A k \in 1..n, c \in Carry : G[<<k, c>>] = (c + digits[k] * factor) \div base
  BY Zenon
<1> HIDE DEF G
<1>4. PICK c : Recursive(n, Carry, digit, G, c)
  BY <1>2, Recursion, Zenon
<1>5. \A k \in 1..n : k - 1 \in 0..n
  BY SMT
<1>6. \A k \in 1..n : c[k] = (c[k - 1] + digits[k] * factor) \div base
  BY <1>3, <1>4, <1>5, Zenon DEF Recursive
<1> QED
  BY <1>1, <1>4, <1>6, Zenon DEF Carries, Recursive

(* Add by the carries: the recursive function that defines it exists.      *)
LEMMA AddIs ==
    ASSUME NEW base, NEW factor, Conversion(base, factor),
           NEW digit \in Carry, NEW digits \in Seq(0..base - 1)
    PROVE  \E c : /\ Carries(digit, digits, factor, base, c)
                  /\ Add(digit, digits, factor, base) =
                        [k \in 1..Len(digits) |-> (c[k - 1] + digits[k] * factor) % base]
                        \o Carried(c[Len(digits)], base)
<1> DEFINE G(f) == [k \in 0..Len(digits) |->
                       IF k = 0 THEN digit ELSE (f[k - 1] + digits[k] * factor) \div base]
           carry == CHOOSE f : f = G(f)
<1>1. PICK n \in Nat : n = Len(digits)
  OBVIOUS
<1>2. \E f : f = G(f)
  <2>1. PICK c : Carries(digit, digits, factor, base, c)
    BY CarriesExist, Zenon
  <2>2. c = [k \in 0..n |-> c[k]]
    BY <1>1, <2>1 DEF Carries
  <2>3. ASSUME NEW k \in 0..n
        PROVE  c[k] = IF k = 0 THEN digit ELSE (c[k - 1] + digits[k] * factor) \div base
    <3>1. k = 0 \/ (k # 0 /\ k \in 1..n)
      BY SMT
    <3> QED
      BY <1>1, <2>1, <3>1, Zenon DEF Carries
  <2>4. c = G(c)
    BY <1>1, <2>2, <2>3, Zenon
  <2> QED
    BY <2>4
<1> HIDE DEF G
<1>3. carry = G(carry)
  BY <1>2
<1>4. Add(digit, digits, factor, base) =
        [k \in 1..Len(digits) |-> (carry[k - 1] + digits[k] * factor) % base]
        \o Carried(carry[Len(digits)], base)
  BY Zenon DEF Add, G
<1> HIDE DEF carry
<1>5. /\ carry[0] = digit
      /\ \A k \in 1..n : carry[k] = (carry[k - 1] + digits[k] * factor) \div base
      /\ carry = [k \in 0..n |-> carry[k]]
  <2>1. carry = [k \in 0..n |-> IF k = 0 THEN digit ELSE (carry[k - 1] + digits[k] * factor) \div base]
    BY <1>1, <1>3, Zenon DEF G
  <2>2. 0 \in 0..n /\ \A k \in 1..n : k \in 0..n /\ k # 0
    BY SMT
  <2> QED
    BY <2>1, <2>2, Zenon
<1>6. \A k \in 0..n : carry[k] \in Carry
  <2> DEFINE S == {k \in Nat : k <= n => carry[k] \in Carry}
  <2>1. 0 \in S
    BY <1>5
  <2>2. \A k \in S : k < n => k + 1 \in S
    <3> SUFFICES ASSUME NEW k \in S, k < n PROVE k + 1 \in S
      OBVIOUS
    <3>1. k + 1 \in 1..n /\ (k + 1) - 1 = k /\ k <= n /\ k + 1 \in Nat
      BY SMT
    <3>2. digits[k + 1] \in 0..base - 1
      BY <1>1, <3>1, Element, Zenon
    <3>3. carry[k] \in Carry
      BY <3>1
    <3>4. (carry[k] + digits[k + 1] * factor) \div base \in Carry
      BY <3>2, <3>3, CarryIs, Zenon
    <3>5. carry[k + 1] = (carry[k] + digits[k + 1] * factor) \div base
      BY <1>5, <3>1, Zenon
    <3> QED
      BY <3>1, <3>4, <3>5
  <2>3. S \in SUBSET Nat
    OBVIOUS
  <2> HIDE DEF S
  <2>4. \A k \in 0..n : k \in S
    BY <2>1, <2>2, <2>3, BoundedInduction, Zenon
  <2>5. \A k \in 0..n : k \in Nat /\ k <= n
    BY SMT
  <2> QED
    BY <2>4, <2>5 DEF S
<1>7. carry \in [0..n -> Carry]
  BY <1>5, <1>6
<1>8. Carries(digit, digits, factor, base, carry)
  BY <1>1, <1>5, <1>7, Zenon DEF Carries
<1> QED
  BY <1>4, <1>8

-------------------------------------------------------------------------------
(* What the digits from each place on are worth, the lowest digit first.   *)
Chain(base, digits, w) ==
    /\ w \in [1..Len(digits) + 1 -> Nat]
    /\ w[Len(digits) + 1] = 0
    /\ \A k \in 1..Len(digits) : w[k] = digits[k] + base * w[k + 1]

(* No digit is left where nothing is.                                      *)
Positive(digits, w) == \A k \in 1..Len(digits) : w[k] # 0

(* The digits of a number: none of them are zeros at its end, but for the  *)
(* one digit of zero.                                                      *)
Worth(base, digits, w) == Chain(base, digits, w) /\ (Len(digits) = 1 \/ Positive(digits, w))

(* The digits that a conversion has stand for a number.                    *)
Stands(base, digits, v) ==
    /\ digits \in Seq(0..base - 1)
    /\ Len(digits) # 0
    /\ \E w : Worth(base, digits, w) /\ w[1] = v

(* A function on the places of a sequence is one.                          *)
LEMMA FunctionIsSeq ==
    ASSUME NEW T, NEW n \in Nat, NEW f \in [1..n -> T]
    PROVE  f \in Seq(T) /\ Len(f) = n
OBVIOUS

(* Numbers of the two bases, of which the provers multiply constants only. *)
LEMMA Shifted ==
    ASSUME NEW base, NEW factor, Conversion(base, factor), NEW c \in Carry,
           NEW d \in 0..base - 1, NEW w \in Nat, NEW u, u = d + base * w
    PROVE  /\ (c + d * factor) % base \in 0..base - 1
           /\ factor * u + c =
                 ((c + d * factor) % base) + base * (factor * w + ((c + d * factor) \div base))
           /\ factor * u + c \in Nat
           /\ u # 0 => factor * u + c # 0
<1>1. CASE base = 58 /\ factor = 256
  <2>1. d \in 0..57 /\ u = d + 58 * w
    BY <1>1, SMT
  <2>2. /\ (c + d * 256) % 58 \in 0..57
        /\ 256 * u + c = ((c + d * 256) % 58) + 58 * (256 * w + ((c + d * 256) \div 58))
        /\ 256 * u + c \in Nat
        /\ u # 0 => 256 * u + c # 0
    <3>1. PICK x \in Nat : x = c + d * 256
      BY <2>1, SMT DEF Carry
    <3>2. PICK q \in Nat, r \in 0..57 : q = x \div 58 /\ r = x % 58 /\ x = 58 * q + r
      BY SMT
    <3>3. 256 * u + c = r + 58 * (256 * w + q)
      BY <2>1, <3>1, <3>2, SMT DEF Carry
    <3>4. 256 * u + c \in Nat /\ (u # 0 => 256 * u + c # 0)
      <4>1. u \in Nat
        BY <2>1, SMT
      <4> QED
        BY <4>1, SMT DEF Carry
    <3> QED
      BY <3>1, <3>2, <3>3, <3>4, Zenon
  <2> QED
    BY <1>1, <2>2
<1>2. CASE base = 256 /\ factor = 58
  <2>1. d \in 0..255 /\ u = d + 256 * w
    BY <1>2, SMT
  <2>2. /\ (c + d * 58) % 256 \in 0..255
        /\ 58 * u + c = ((c + d * 58) % 256) + 256 * (58 * w + ((c + d * 58) \div 256))
        /\ 58 * u + c \in Nat
        /\ u # 0 => 58 * u + c # 0
    <3>1. PICK x \in Nat : x = c + d * 58
      BY <2>1, SMT DEF Carry
    <3>2. PICK q \in Nat, r \in 0..255 : q = x \div 256 /\ r = x % 256 /\ x = 256 * q + r
      BY SMT
    <3>3. 58 * u + c = r + 256 * (58 * w + q)
      BY <2>1, <3>1, <3>2, SMT DEF Carry
    <3>4. 58 * u + c \in Nat /\ (u # 0 => 58 * u + c # 0)
      <4>1. u \in Nat
        BY <2>1, SMT
      <4> QED
        BY <4>1, SMT DEF Carry
    <3> QED
      BY <3>1, <3>2, <3>3, <3>4, Zenon
  <2> QED
    BY <1>2, <2>2
<1> QED
  BY <1>1, <1>2 DEF Conversion, CharacterSpace

(* The digits that Carried adds are worth what is carried.                 *)
LEMMA CarriedIs ==
    ASSUME NEW base, NEW factor, Conversion(base, factor), NEW c \in Carry
    PROVE  /\ Carried(c, base) \in Seq(0..base - 1)
           /\ Len(Carried(c, base)) <= 2
           /\ base = 256 => Len(Carried(c, base)) <= 1
           /\ \E u : Chain(base, Carried(c, base), u) /\ Positive(Carried(c, base), u) /\ u[1] = c
<1>1. CASE c = 0
  <2> DEFINE u == [k \in 1..1 |-> 0]
  <2>1. Carried(c, base) = << >>
    BY <1>1 DEF Carried
  <2>2. << >> \in Seq(0..base - 1) /\ Len(<< >>) = 0
    OBVIOUS
  <2>3. Chain(base, << >>, u) /\ Positive(<< >>, u) /\ u[1] = c
    BY <1>1, SMT DEF Chain, Positive
  <2> HIDE DEF u
  <2> QED
    BY <2>1, <2>2, <2>3
<1>2. CASE c # 0 /\ c < base
  <2> DEFINE u == [k \in 1..2 |-> IF k = 1 THEN c ELSE 0]
  <2>1. Carried(c, base) = <<c>>
    BY <1>2 DEF Carried
  <2>2. c \in 0..base - 1
    BY <1>2, SMT DEF Carry, Conversion, CharacterSpace
  <2>3. <<c>> \in Seq(0..base - 1) /\ Len(<<c>>) = 1 /\ <<c>>[1] = c
    BY <2>2
  <2>4. /\ u \in [1..1 + 1 -> Nat] /\ u[1 + 1] = 0 /\ u[1] = c
        /\ \A k \in 1..1 : k = 1
    BY SMT DEF Carry
  <2>5. c = c + base * 0
    BY SMT DEF Carry, Conversion, CharacterSpace
  <2> HIDE DEF u
  <2>6. Chain(base, <<c>>, u) /\ Positive(<<c>>, u)
    BY <1>2, <2>3, <2>4, <2>5 DEF Chain, Positive
  <2> QED
    BY <2>1, <2>3, <2>4, <2>6
<1>3. CASE c # 0 /\ ~(c < base)
  <2> DEFINE u == [k \in 1..3 |-> IF k = 1 THEN c ELSE IF k = 2 THEN c \div 58 ELSE 0]
             s == <<c % 58, c \div 58>>
  <2>1. base = 58
    BY <1>3, SMT DEF Carry, Conversion, CharacterSpace
  <2>2. Carried(c, base) = s
    BY <1>3, <2>1 DEF Carried
  <2>3. /\ c % 58 \in 0..57 /\ c \div 58 \in 0..57 /\ c \div 58 # 0
        /\ c = (c % 58) + 58 * (c \div 58)
        /\ c \div 58 = c \div 58 + 58 * 0
    BY <1>3, <2>1, SMT DEF Carry
  <2>4. s \in Seq(0..57) /\ Len(s) = 2 /\ s[1] = c % 58 /\ s[2] = c \div 58
    BY <2>3
  <2>5. /\ u \in [1..2 + 1 -> Nat] /\ u[3] = 0 /\ u[2] = c \div 58 /\ u[1] = c
        /\ \A k \in 1..2 : k = 1 \/ k = 2
        /\ 2 + 1 = 3 /\ 1 + 1 = 2
    BY <2>3, SMT DEF Carry
  <2>6. 0..58 - 1 = 0..57
    BY SMT
  <2> HIDE DEF u, s
  <2>7. \A k \in 1..2 : u[k] = s[k] + 58 * u[k + 1] /\ u[k] # 0
    <3>1. u[1] = s[1] + 58 * u[2] /\ u[2] = s[2] + 58 * u[3]
      BY <2>3, <2>4, <2>5, Zenon
    <3> QED
      BY <1>3, <2>3, <2>5, <3>1, Zenon
  <2>8. Chain(58, s, u) /\ Positive(s, u)
    <3>1. u \in [1..Len(s) + 1 -> Nat] /\ u[Len(s) + 1] = 0
      BY <2>4, <2>5
    <3> QED
      BY <2>4, <2>7, <3>1, Zenon DEF Chain, Positive
  <2>9. Len(s) <= 2 /\ base # 256
    BY <2>1, <2>4, SMT
  <2>10. s \in Seq(0..base - 1) /\ Chain(base, s, u)
    BY <2>1, <2>4, <2>6, <2>8, Zenon
  <2> QED
    BY <2>2, <2>5, <2>8, <2>9, <2>10, Zenon
<1> QED
  BY <1>1, <1>2, <1>3

(* A byte or a character is put below the digits of a number: they stand   *)
(* for what it is then, and there are at most two more of them.            *)
LEMMA AddStands ==
    ASSUME NEW base, NEW factor, Conversion(base, factor),
           NEW digit \in Carry, NEW digits, NEW v \in Nat, Stands(base, digits, v)
    PROVE  /\ Stands(base, Add(digit, digits, factor, base), factor * v + digit)
           /\ Len(Add(digit, digits, factor, base)) <= Len(digits) + 2
           /\ base = 256 => Len(Add(digit, digits, factor, base)) <= Len(digits) + 1
<1>1. digits \in Seq(0..base - 1) /\ Len(digits) # 0
  BY DEF Stands
<1>2. PICK w : Worth(base, digits, w) /\ w[1] = v
  BY DEF Stands
<1>3. PICK c : /\ Carries(digit, digits, factor, base, c)
               /\ Add(digit, digits, factor, base) =
                     [k \in 1..Len(digits) |-> (c[k - 1] + digits[k] * factor) % base]
                     \o Carried(c[Len(digits)], base)
  BY <1>1, AddIs, Zenon
<1>4. PICK n \in Nat : n = Len(digits) /\ n # 0
  BY <1>1
<1> DEFINE low == [k \in 1..n |-> (c[k - 1] + digits[k] * factor) % base]
           high == Carried(c[n], base)
<1>5. \A k \in 1..n :
        k \in 1..n + 1 /\ k + 1 \in 1..n + 1 /\ k - 1 \in 0..n /\ k \in 0..n /\ (k + 1) - 1 = k
  BY SMT
<1>6. c \in [0..n -> Carry] /\ w \in [1..n + 1 -> Nat] /\ w[n + 1] = 0 /\ n \in 0..n
  BY <1>2, <1>3, <1>4, SMT DEF Carries, Worth, Chain
<1>7. ASSUME NEW k \in 1..n
      PROVE  /\ low[k] \in 0..base - 1
             /\ factor * w[k] + c[k - 1] = low[k] + base * (factor * w[k + 1] + c[k])
             /\ factor * w[k] + c[k - 1] \in Nat
             /\ w[k] # 0 => factor * w[k] + c[k - 1] # 0
  <2>1. w[k] = digits[k] + base * w[k + 1]
    BY <1>2, <1>4, Zenon DEF Worth, Chain
  <2>2. c[k - 1] \in Carry /\ w[k + 1] \in Nat
    BY <1>5, <1>6
  <2>3. digits[k] \in 0..base - 1
    BY <1>1, <1>4, Element, Zenon
  <2>4. c[k] = (c[k - 1] + digits[k] * factor) \div base
    BY <1>3, <1>4, Zenon DEF Carries
  <2>5. low[k] = (c[k - 1] + digits[k] * factor) % base
    BY Zenon
  <2> HIDE DEF low
  <2>6. /\ (c[k - 1] + digits[k] * factor) % base \in 0..base - 1
        /\ factor * w[k] + c[k - 1] =
              ((c[k - 1] + digits[k] * factor) % base)
              + base * (factor * w[k + 1] + ((c[k - 1] + digits[k] * factor) \div base))
        /\ factor * w[k] + c[k - 1] \in Nat
        /\ w[k] # 0 => factor * w[k] + c[k - 1] # 0
    <3>1. PICK a, d, y, z : a = c[k - 1] /\ d = digits[k] /\ y = w[k + 1] /\ z = w[k]
      OBVIOUS
    <3>2. a \in Carry /\ d \in 0..base - 1 /\ y \in Nat /\ z = d + base * y
      BY <2>1, <2>2, <2>3, <3>1
    <3>3. /\ (a + d * factor) % base \in 0..base - 1
          /\ factor * z + a = ((a + d * factor) % base) + base * (factor * y + ((a + d * factor) \div base))
          /\ factor * z + a \in Nat
          /\ z # 0 => factor * z + a # 0
      BY <3>2, Shifted
    <3> QED
      BY <3>1, <3>3
  <2> QED
    BY <2>4, <2>5, <2>6, Zenon
<1>8. low \in Seq(0..base - 1) /\ Len(low) = n
  <2>1. low \in [1..n -> 0..base - 1]
    BY <1>7
  <2> HIDE DEF low
  <2> QED
    BY <2>1, FunctionIsSeq, Zenon
<1> HIDE DEF low
<1>9. c[n] \in Carry
  BY <1>6
<1>10. high \in Seq(0..base - 1) /\ Len(high) <= 2 /\ (base = 256 => Len(high) <= 1)
  BY <1>9, CarriedIs, Zenon
<1>11. PICK u : Chain(base, high, u) /\ Positive(high, u) /\ u[1] = c[n]
  BY <1>9, CarriedIs, Zenon
<1> HIDE DEF high
<1>12. PICK m \in Nat : m = Len(high)
  BY <1>10
<1> DEFINE s == low \o high
           x == [k \in 1..(n + m) + 1 |-> IF k <= n THEN factor * w[k] + c[k - 1] ELSE u[k - n]]
<1>13. /\ s \in Seq(0..base - 1)
       /\ Len(s) = n + m
       /\ \A k \in 1..n + m : s[k] = IF k <= n THEN low[k] ELSE high[k - n]
  BY <1>8, <1>10, <1>12, ConcatProperties, Zenon
<1>14. /\ u \in [1..m + 1 -> Nat] /\ u[m + 1] = 0
       /\ \A k \in 1..m : u[k] = high[k] + base * u[k + 1] /\ u[k] # 0
  BY <1>11, <1>12, Zenon DEF Chain, Positive
<1>15. ASSUME NEW k \in 1..(n + m) + 1
       PROVE  /\ x[k] \in Nat
              /\ k <= n => x[k] = factor * w[k] + c[k - 1]
              /\ ~(k <= n) => x[k] = u[k - n]
  <2>1. CASE k <= n
    <3>1. k \in 1..n
      BY <2>1, SMT
    <3> QED
      BY <1>7, <2>1, <3>1
  <2>2. CASE ~(k <= n)
    <3>1. k - n \in 1..m + 1
      BY <2>2, SMT
    <3> QED
      BY <1>14, <2>2, <3>1
  <2> QED
    BY <2>1, <2>2
<1>16. x \in [1..(n + m) + 1 -> Nat]
  BY <1>15
<1> HIDE DEF x, s
<1>17. x[(n + m) + 1] = 0
  <2>1. (n + m) + 1 \in 1..(n + m) + 1 /\ ~((n + m) + 1 <= n) /\ ((n + m) + 1) - n = m + 1
    BY SMT
  <2> QED
    BY <1>14, <1>15, <2>1
<1>18. \A k \in 1..n : factor * w[k + 1] + c[k] = x[k + 1]
  <2> SUFFICES ASSUME NEW k \in 1..n PROVE factor * w[k + 1] + c[k] = x[k + 1]
    OBVIOUS
  <2>1. k + 1 \in 1..(n + m) + 1 /\ (k + 1) - 1 = k
    BY SMT
  <2>2. CASE k + 1 <= n
    BY <1>15, <2>1, <2>2, Zenon
  <2>3. CASE ~(k + 1 <= n)
    <3>1. k = n /\ (k + 1) - n = 1
      BY <2>3, SMT
    <3>2. x[k + 1] = c[k]
      BY <1>11, <1>15, <2>1, <2>3, <3>1, Zenon
    <3>3. factor * 0 + c[k] = c[k]
      <4>1. c[k] \in Carry
        BY <1>9, <3>1
      <4> QED
        BY <4>1, SMT DEF Carry, Conversion, CharacterSpace
    <3> QED
      BY <1>6, <3>1, <3>2, <3>3
  <2> QED
    BY <2>2, <2>3
<1>19. ASSUME NEW k \in 1..n + m PROVE x[k] = s[k] + base * x[k + 1]
  <2>1. k \in 1..(n + m) + 1 /\ k + 1 \in 1..(n + m) + 1
    BY SMT
  <2>2. CASE k <= n
    <3>1. k \in 1..n
      BY <2>2, SMT
    <3>2. factor * w[k + 1] + c[k] = x[k + 1]
      BY <1>18, <3>1
    <3> QED
      BY <1>7, <1>13, <1>15, <2>1, <2>2, <3>1, <3>2, Zenon
  <2>3. CASE ~(k <= n)
    <3>1. k - n \in 1..m /\ ~(k + 1 <= n) /\ (k + 1) - n = (k - n) + 1
      BY <2>3, SMT
    <3> QED
      BY <1>13, <1>14, <1>15, <2>1, <2>3, <3>1, Zenon
  <2> QED
    BY <2>2, <2>3
<1>20. n + m = 1 \/ \A k \in 1..n + m : x[k] # 0
  <2> SUFFICES ASSUME n + m # 1, NEW k \in 1..n + m PROVE x[k] # 0
    OBVIOUS
  <2>1. k \in 1..(n + m) + 1
    BY SMT
  <2>2. CASE ~(k <= n)
    <3>1. k - n \in 1..m
      BY <2>2, SMT
    <3> QED
      BY <1>14, <1>15, <2>1, <2>2, <3>1
  <2>3. CASE k <= n /\ n # 1
    <3>1. k \in 1..n
      BY <2>3, SMT
    <3>2. w[k] # 0
      BY <1>2, <1>4, <2>3, <3>1, Zenon DEF Worth, Positive
    <3> QED
      BY <1>7, <1>15, <2>1, <2>3, <3>1, <3>2, Zenon
  <2>4. CASE k <= n /\ n = 1
    <3>1. /\ k = 1 /\ k \in 1..n /\ m # 0 /\ 1 \in 1..m /\ 2 \in 1..(n + m) + 1
          /\ ~(2 <= n) /\ 2 - n = 1 /\ k + 1 = 2
      BY <2>4, SMT
    <3>2. x[2] # 0 /\ x[2] \in Nat
      BY <1>14, <1>15, <3>1, Zenon
    <3>3. x[k] = s[k] + base * x[2] /\ s[k] \in 0..base - 1
      <4>1. s[k] \in 0..base - 1
        BY <1>13, Element, Zenon
      <4> QED
        BY <1>19, <3>1, <4>1, Zenon
    <3> QED
      BY <3>2, <3>3, SMT DEF Conversion, CharacterSpace
  <2> QED
    BY <2>2, <2>3, <2>4
<1>21. x[1] = factor * v + digit
  <2>1. 1 \in 1..(n + m) + 1 /\ 1 <= n /\ 1 - 1 = 0
    BY <1>4, SMT
  <2> QED
    BY <1>2, <1>3, <1>15, <2>1, Zenon DEF Carries
<1>22. Stands(base, s, factor * v + digit)
  <2>1. Worth(base, s, x)
    BY <1>13, <1>16, <1>17, <1>19, <1>20, Zenon DEF Worth, Chain, Positive
  <2>2. n + m # 0
    BY <1>4, SMT
  <2> QED
    BY <1>13, <1>21, <2>1, <2>2, Zenon DEF Stands
<1>23. Add(digit, digits, factor, base) = s
  BY <1>3, <1>4, Zenon DEF s, low, high
<1>24. m <= 2 /\ (base = 256 => m <= 1)
  BY <1>10, <1>12
<1>25. n + m <= n + 2 /\ (base = 256 => n + m <= n + 1)
  BY <1>24, SMT
<1> QED
  BY <1>4, <1>13, <1>22, <1>23, <1>25, Zenon

-------------------------------------------------------------------------------
(* One digit and what is left of a number are those of it.                 *)
LEMMA OneDigit ==
    ASSUME NEW base, NEW factor, Conversion(base, factor),
           NEW d \in 0..base - 1, NEW e \in 0..base - 1, NEW w \in Nat, NEW u \in Nat,
           d + base * w = e + base * u
    PROVE  d = e /\ w = u
<1>1. CASE base = 58
  <2>1. d \in 0..57 /\ e \in 0..57 /\ d + 58 * w = e + 58 * u
    BY <1>1, SMT
  <2> QED
    BY <2>1, SMT
<1>2. CASE base = 256
  <2>1. d \in 0..255 /\ e \in 0..255 /\ d + 256 * w = e + 256 * u
    BY <1>2, SMT
  <2> QED
    BY <2>1, SMT
<1> QED
  BY <1>1, <1>2 DEF Conversion, CharacterSpace

(* What the digits of a number are is there in the digits of its equal.    *)
LEMMA DigitsBegin ==
    ASSUME NEW base, NEW factor, Conversion(base, factor),
           NEW s \in Seq(0..base - 1), NEW t \in Seq(0..base - 1), NEW w, NEW u,
           Worth(base, s, w), Worth(base, t, u), w[1] = u[1], Len(t) # 0
    PROVE  Len(s) <= Len(t) /\ \A k \in 1..Len(s) : s[k] = t[k]
<1>1. PICK n \in Nat, m \in Nat : n = Len(s) /\ m = Len(t) /\ m # 0
  OBVIOUS
<1>2. /\ w \in [1..n + 1 -> Nat] /\ u \in [1..m + 1 -> Nat] /\ u[m + 1] = 0
      /\ \A k \in 1..n : w[k] = s[k] + base * w[k + 1]
      /\ \A k \in 1..m : u[k] = t[k] + base * u[k + 1]
      /\ n = 1 \/ \A k \in 1..n : w[k] # 0
  BY <1>1, Zenon DEF Worth, Chain, Positive
<1>3. w[1] = u[1]
  OBVIOUS
<1> DEFINE P(k) == k <= m /\ w[k + 1] = u[k + 1] /\ \A j \in 1..k : s[j] = t[j]
           S == {k \in Nat : P(k)}
<1>4. 0 \in S
  <2>1. 0 <= m /\ 0 + 1 = 1 /\ \A j \in 1..0 : FALSE
    BY SMT
  <2> QED
    BY <1>3, <2>1
<1>5. \A k \in S : k < n => k + 1 \in S
  <2> SUFFICES ASSUME NEW k \in S, k < n PROVE k + 1 \in S
    OBVIOUS
  <2>1. k \in Nat /\ k <= m /\ w[k + 1] = u[k + 1] /\ \A j \in 1..k : s[j] = t[j]
    OBVIOUS
  <2>2. k + 1 \in 1..n
    BY SMT
  <2>3. k + 1 <= m
    <3>1. CASE k = 0
      BY <1>1, <3>1, SMT
    <3>2. CASE k # 0
      <4>1. n # 1
        BY <3>2, SMT
      <4>2. u[k + 1] # 0
        BY <1>2, <2>1, <2>2, <4>1
      <4>3. k # m
        BY <1>2, <4>2
      <4> QED
        BY <2>1, <4>3, SMT
    <3> QED
      BY <3>1, <3>2
  <2>4. k + 1 \in 1..m /\ (k + 1) + 1 \in 1..n + 1 /\ (k + 1) + 1 \in 1..m + 1
    BY <2>2, <2>3, SMT
  <2>5. s[k + 1] + base * w[(k + 1) + 1] = t[k + 1] + base * u[(k + 1) + 1]
    <3>1. w[k + 1] = s[k + 1] + base * w[(k + 1) + 1]
      BY <1>2, <2>2, Zenon
    <3>2. u[k + 1] = t[k + 1] + base * u[(k + 1) + 1]
      BY <1>2, <2>4, Zenon
    <3> QED
      BY <2>1, <3>1, <3>2
  <2>6. /\ s[k + 1] \in 0..base - 1 /\ t[k + 1] \in 0..base - 1
        /\ w[(k + 1) + 1] \in Nat /\ u[(k + 1) + 1] \in Nat
    <3>1. s[k + 1] \in 0..base - 1 /\ t[k + 1] \in 0..base - 1
      BY <1>1, <2>2, <2>4, Element, Zenon
    <3> QED
      BY <1>2, <2>4, <3>1
  <2>7. s[k + 1] = t[k + 1] /\ w[(k + 1) + 1] = u[(k + 1) + 1]
    <3>1. PICK d, e, x, y : d = s[k + 1] /\ e = t[k + 1] /\ x = w[(k + 1) + 1] /\ y = u[(k + 1) + 1]
      OBVIOUS
    <3>2. d \in 0..base - 1 /\ e \in 0..base - 1 /\ x \in Nat /\ y \in Nat /\ d + base * x = e + base * y
      BY <2>5, <2>6, <3>1
    <3>3. d = e /\ x = y
      BY <3>2, OneDigit
    <3> QED
      BY <3>1, <3>3
  <2>8. \A j \in 1..k + 1 : j \in 1..k \/ j = k + 1
    BY <2>1, SMT
  <2>9. k + 1 \in Nat
    BY <2>1, SMT
  <2> QED
    BY <2>1, <2>3, <2>7, <2>8, <2>9, Zenon
<1>6. S \in SUBSET Nat
  OBVIOUS
<1> HIDE DEF S
<1>7. n \in S
  <2>1. n \in 0..n
    BY SMT
  <2> QED
    BY <1>4, <1>5, <1>6, <2>1, BoundedInduction, Zenon
<1> QED
  BY <1>1, <1>7 DEF S

(* A number has one sequence of digits.                                    *)
LEMMA DigitsAreOne ==
    ASSUME NEW base, NEW factor, Conversion(base, factor),
           NEW s, NEW t, NEW v, Stands(base, s, v), Stands(base, t, v)
    PROVE  s = t
<1>1. s \in Seq(0..base - 1) /\ t \in Seq(0..base - 1) /\ Len(s) # 0 /\ Len(t) # 0
  BY DEF Stands
<1>2. PICK w, u : Worth(base, s, w) /\ Worth(base, t, u) /\ w[1] = v /\ u[1] = v
  BY Zenon DEF Stands
<1>3. w[1] = u[1] /\ u[1] = w[1]
  BY <1>2
<1>4. Len(s) <= Len(t) /\ \A k \in 1..Len(s) : s[k] = t[k]
  BY <1>1, <1>2, <1>3, DigitsBegin, Zenon
<1>5. Len(t) <= Len(s)
  BY <1>1, <1>2, <1>3, DigitsBegin, Zenon
<1>6. Len(s) \in Nat /\ Len(t) \in Nat
  BY <1>1
<1>7. Len(s) = Len(t)
  BY <1>4, <1>5, <1>6, SMT
<1> QED
  BY <1>1, <1>4, <1>7, SeqEqual, Zenon

(* A sequence of digits stands for one number.                             *)
LEMMA NumberIsOne ==
    ASSUME NEW base, NEW s, NEW v, NEW x, Stands(base, s, v), Stands(base, s, x)
    PROVE  v = x
<1>1. PICK n \in Nat : n = Len(s) /\ n # 0
  BY DEF Stands
<1>2. PICK w, u : Chain(base, s, w) /\ Chain(base, s, u) /\ w[1] = v /\ u[1] = x
  BY Zenon DEF Stands, Worth
<1>3. /\ w[n + 1] = 0 /\ \A k \in 1..n : w[k] = s[k] + base * w[k + 1]
      /\ u[n + 1] = 0 /\ \A k \in 1..n : u[k] = s[k] + base * u[k + 1]
  BY <1>1, <1>2, Zenon DEF Chain
<1> DEFINE S == {k \in Nat : w[(n + 1) - k] = u[(n + 1) - k]}
<1>4. 0 \in S
  <2>1. (n + 1) - 0 = n + 1
    BY SMT
  <2> QED
    BY <1>3, <2>1
<1>5. \A k \in S : k < n => k + 1 \in S
  <2> SUFFICES ASSUME NEW k \in S, k < n PROVE k + 1 \in S
    OBVIOUS
  <2>1. PICK j : j = (n + 1) - (k + 1)
    OBVIOUS
  <2>2. j \in 1..n /\ j + 1 = (n + 1) - k /\ k + 1 \in Nat
    BY <2>1, SMT
  <2>3. w[j + 1] = u[j + 1]
    BY <2>2
  <2>4. w[j] = u[j]
    BY <1>3, <2>2, <2>3, Zenon
  <2> QED
    BY <2>1, <2>2, <2>4
<1>6. S \in SUBSET Nat
  OBVIOUS
<1> HIDE DEF S
<1>7. n \in S
  <2>1. n \in 0..n
    BY SMT
  <2> QED
    BY <1>4, <1>5, <1>6, <2>1, BoundedInduction, Zenon
<1>8. (n + 1) - n = 1
  BY SMT
<1> QED
  BY <1>2, <1>7, <1>8 DEF S

-------------------------------------------------------------------------------
(* LeadingZeros is the place of the first digit that is not zero, or of    *)
(* the last.                                                               *)
Leading(s, z) ==
    /\ z \in 0..Len(s) - 1
    /\ \A i \in 1..z : s[i] = 0
    /\ z = Len(s) - 1 \/ s[z + 1] # 0

(* LeadingZeros is such a place.                                           *)
LEMMA LeadingIs ==
    ASSUME NEW s, NEW n \in Nat, n = Len(s), n # 0
    PROVE  Leading(s, LeadingZeros(s))
<1> DEFINE T == {i \in 1..n - 1 : s[i] # 0}
<1>1. CASE \E i \in 1..n - 1 : s[i] # 0
  <2>1. T \in SUBSET Nat /\ T # {}
    BY <1>1
  <2>2. PICK x \in T : \A y \in T : x <= y
    BY <2>1, Least, Zenon
  <2>3. x \in 1..n - 1 /\ s[x] # 0
    OBVIOUS
  <2>4. \A j \in 1..x - 1 : s[j] = 0
    <3> SUFFICES ASSUME NEW j \in 1..x - 1, s[j] # 0 PROVE FALSE
      OBVIOUS
    <3>1. j \in 1..n - 1 /\ ~(x <= j)
      BY <2>3, SMT
    <3>2. j \in T
      BY <3>1
    <3> QED
      BY <2>2, <3>1, <3>2
  <2> DEFINE y == CHOOSE i \in 1..n - 1 : s[i] # 0 /\ \A j \in 1..i - 1 : s[j] = 0
  <2>5. y \in 1..n - 1 /\ s[y] # 0 /\ \A j \in 1..y - 1 : s[j] = 0
    BY <2>3, <2>4, Zenon
  <2>6. LeadingZeros(s) = y - 1
    BY <1>1, Zenon DEF LeadingZeros
  <2> HIDE DEF y
  <2>7. y - 1 \in 0..n - 1 /\ (y - 1) + 1 = y
    BY <2>5, SMT
  <2> QED
    BY <2>5, <2>6, <2>7, Zenon DEF Leading
<1>2. CASE ~(\E i \in 1..n - 1 : s[i] # 0)
  <2>1. LeadingZeros(s) = n - 1
    BY <1>2, Zenon DEF LeadingZeros
  <2>2. n - 1 \in 0..n - 1
    BY SMT
  <2> QED
    BY <1>2, <2>1, <2>2, Zenon DEF Leading
<1> QED
  BY <1>1, <1>2

(* There is one.                                                           *)
LEMMA LeadingIsOne ==
    ASSUME NEW s, NEW n \in Nat, n = Len(s), NEW y, NEW z, Leading(s, y), Leading(s, z)
    PROVE  y = z
<1>1. /\ y \in 0..n - 1 /\ z \in 0..n - 1
      /\ \A i \in 1..y : s[i] = 0
      /\ \A i \in 1..z : s[i] = 0
      /\ y = n - 1 \/ s[y + 1] # 0
      /\ z = n - 1 \/ s[z + 1] # 0
  BY Zenon DEF Leading
<1>2. y < z => y + 1 \in 1..z /\ y # n - 1
  BY <1>1, SMT
<1>3. z < y => z + 1 \in 1..y /\ z # n - 1
  BY <1>1, SMT
<1>4. ~(y < z) /\ ~(z < y)
  BY <1>1, <1>2, <1>3, Zenon
<1> QED
  BY <1>1, <1>4, SMT

-------------------------------------------------------------------------------
(* The value of what has been taken of a sequence, its head first.         *)
Value(factor, s, h) ==
    /\ h \in [0..Len(s) -> Nat]
    /\ h[0] = 0
    /\ \A k \in 1..Len(s) : h[k] = factor * h[k - 1] + s[k]

(* Every sequence of bytes or of numbers of characters has values.         *)
LEMMA ValueExists ==
    ASSUME NEW base, NEW factor, Conversion(base, factor), NEW s \in Seq(Carry)
    PROVE  \E h : Value(factor, s, h)
<1>1. PICK n \in Nat : n = Len(s)
  OBVIOUS
<1> DEFINE G == [p \in (1..n) \X Nat |-> factor * p[2] + s[p[1]]]
<1>2. G \in [(1..n) \X Nat -> Nat]
  <2> SUFFICES ASSUME NEW k \in 1..n, NEW x \in Nat PROVE factor * x + s[k] \in Nat
    OBVIOUS
  <2>1. PICK d \in 0..255 : d = s[k]
    BY <1>1, Element DEF Carry
  <2>2. factor * x + d \in Nat
    BY SMT DEF Conversion, CharacterSpace
  <2> QED
    BY <2>1, <2>2
<1>3. \A k \in 1..n, x \in Nat : G[<<k, x>>] = factor * x + s[k]
  BY Zenon
<1> HIDE DEF G
<1>4. 0 \in Nat
  OBVIOUS
<1>5. PICK h : Recursive(n, Nat, 0, G, h)
  BY <1>2, <1>4, Recursion, Zenon
<1>6. \A k \in 1..n : k - 1 \in 0..n
  BY SMT
<1>7. \A k \in 1..n : h[k] = factor * h[k - 1] + s[k]
  BY <1>3, <1>5, <1>6, Zenon DEF Recursive
<1> QED
  BY <1>1, <1>5, <1>7, Zenon DEF Recursive, Value

(* The digits of a sequence behind its zeros, the lowest first.            *)
Significant(s) == [k \in 1..Len(s) - LeadingZeros(s) |-> s[(Len(s) - k) + 1]]

(* They stand for the value of all of it.                                  *)
LEMMA SignificantStand ==
    ASSUME NEW base, NEW factor, Conversion(base, factor),
           NEW s \in Seq(0..factor - 1), Len(s) # 0, NEW h, Value(factor, s, h)
    PROVE  Stands(factor, Significant(s), h[Len(s)])
<1>1. PICK n \in Nat : n = Len(s) /\ n # 0
  OBVIOUS
<1>2. PICK z : z = LeadingZeros(s)
  OBVIOUS
<1>3. Leading(s, z)
  BY <1>1, <1>2, LeadingIs, Zenon
<1>4. /\ z \in 0..n - 1
      /\ \A i \in 1..z : s[i] = 0
      /\ z = n - 1 \/ s[z + 1] # 0
  BY <1>1, <1>3, Zenon DEF Leading
<1>5. /\ h \in [0..n -> Nat] /\ h[0] = 0
      /\ \A k \in 1..n : h[k] = factor * h[k - 1] + s[k]
  BY <1>1, Zenon DEF Value
<1> DEFINE P(k) == /\ k <= z => h[k] = 0
                   /\ (z < k /\ z # n - 1) => h[k] # 0
           S == {k \in Nat : P(k)}
<1>6. 0 \in S
  BY <1>4, <1>5, SMT
<1>7. \A k \in S : k < n => k + 1 \in S
  <2> SUFFICES ASSUME NEW k \in S, k < n PROVE k + 1 \in S
    OBVIOUS
  <2>1. k \in Nat /\ k <= n /\ P(k) /\ z \in Nat
    BY <1>4, SMT
  <2> HIDE DEF P
  <2>2. k + 1 \in 1..n /\ (k + 1) - 1 = k /\ k + 1 \in Nat /\ k \in 0..n
    BY <2>1, SMT
  <2>3. PICK x \in Nat, y \in Nat, d \in 0..factor - 1 : x = h[k] /\ y = h[k + 1] /\ d = s[k + 1]
    <3>1. s[k + 1] \in 0..factor - 1
      BY <1>1, <2>2, Element, Zenon
    <3>2. h[k] \in Nat /\ h[k + 1] \in Nat
      BY <1>5, <2>2, SMT
    <3> QED
      BY <3>1, <3>2
  <2>4. y = factor * x + d
    BY <1>5, <2>2, <2>3, Zenon
  <2>5. (x = 0 /\ d = 0 => y = 0) /\ (x # 0 \/ d # 0 => y # 0)
    <3>1. d \in Nat
      BY <2>3, SMT DEF Conversion, CharacterSpace
    <3>2. CASE factor = 256
      <4>1. y = 256 * x + d
        BY <2>4, <3>2
      <4> QED
        BY <2>3, <3>1, <4>1, SMT
    <3>3. CASE factor = 58
      <4>1. y = 58 * x + d
        BY <2>4, <3>3
      <4> QED
        BY <2>3, <3>1, <4>1, SMT
    <3> QED
      BY <3>2, <3>3 DEF Conversion, CharacterSpace
  <2>6. CASE k + 1 <= z
    <3>1. k <= z /\ k + 1 \in 1..z /\ ~(z < k + 1)
      BY <2>1, <2>6, SMT
    <3>2. d = 0 /\ x = 0
      BY <1>4, <2>1, <2>3, <3>1 DEF P
    <3> QED
      BY <2>2, <2>3, <2>5, <2>6, <3>1, <3>2, Zenon DEF P
  <2>7. CASE ~(k + 1 <= z)
    <3>1. k = z \/ z < k
      BY <2>1, <2>7, SMT
    <3>2. z # n - 1 => x # 0 \/ d # 0
      BY <1>4, <2>1, <2>3, <3>1, Zenon DEF P
    <3> QED
      BY <2>2, <2>3, <2>5, <2>7, <3>2, Zenon DEF P
  <2> QED
    BY <2>6, <2>7
<1>8. S \in SUBSET Nat
  OBVIOUS
<1> HIDE DEF P, S
<1>9. \A k \in 0..n : P(k)
  <2>1. \A k \in 0..n : k \in S
    BY <1>6, <1>7, <1>8, BoundedInduction, Zenon
  <2> QED
    BY <2>1 DEF S
<1>10. PICK m \in Nat : m = n - z /\ m # 0
  BY <1>4, SMT
<1> DEFINE t == Significant(s)
           w == [k \in 1..m + 1 |-> h[(n - k) + 1]]
<1>11. t = [k \in 1..m |-> s[(n - k) + 1]]
  BY <1>1, <1>2, <1>10, Zenon DEF Significant
<1>12. t \in Seq(0..factor - 1) /\ Len(t) = m /\ \A k \in 1..m : t[k] = s[(n - k) + 1]
  <2>1. t \in [1..m -> 0..factor - 1]
    <3> SUFFICES ASSUME NEW k \in 1..m PROVE s[(n - k) + 1] \in 0..factor - 1
      BY <1>11
    <3>1. (n - k) + 1 \in 1..n
      BY <1>4, <1>10, SMT
    <3> QED
      BY <1>1, <3>1, Element, Zenon
  <2>2. \A k \in 1..m : t[k] = s[(n - k) + 1]
    BY <1>11, Zenon
  <2> HIDE DEF t
  <2> QED
    BY <2>1, <2>2, FunctionIsSeq, Zenon
<1> HIDE DEF t
<1>13. ASSUME NEW k \in 1..m + 1 PROVE (n - k) + 1 \in 0..n /\ w[k] = h[(n - k) + 1] /\ w[k] \in Nat
  <2>1. (n - k) + 1 \in 0..n
    BY <1>4, <1>10, SMT
  <2> QED
    BY <1>5, <2>1
<1>14. w \in [1..m + 1 -> Nat]
  BY <1>13
<1> HIDE DEF w
<1>15. w[m + 1] = 0
  <2>1. (n - (m + 1)) + 1 = z /\ z \in 0..n /\ z <= z /\ m + 1 \in 1..m + 1
    BY <1>4, <1>10, SMT
  <2> QED
    BY <1>9, <1>13, <2>1, Zenon DEF P
<1>16. ASSUME NEW k \in 1..m PROVE w[k] = t[k] + factor * w[k + 1]
  <2>1. PICK j : j = (n - k) + 1
    OBVIOUS
  <2>2. j \in 1..n /\ j - 1 \in 0..n /\ (n - (k + 1)) + 1 = j - 1 /\ k \in 1..m + 1 /\ k + 1 \in 1..m + 1
    BY <1>4, <1>10, <2>1, SMT
  <2>3. w[k] = factor * h[j - 1] + s[j] /\ w[k + 1] = h[j - 1] /\ t[k] = s[j]
    BY <1>5, <1>12, <1>13, <2>1, <2>2, Zenon
  <2>4. PICK x \in Nat, d \in 0..factor - 1 : x = h[j - 1] /\ d = s[j]
    BY <1>1, <1>5, <2>2, Element
  <2>5. factor * x + d = d + factor * x
    BY SMT DEF Conversion, CharacterSpace
  <2> QED
    BY <2>3, <2>4, <2>5
<1>17. m = 1 \/ \A k \in 1..m : w[k] # 0
  <2> SUFFICES ASSUME m # 1, NEW k \in 1..m PROVE w[k] # 0
    OBVIOUS
  <2>1. (n - k) + 1 \in 0..n /\ z < (n - k) + 1 /\ z # n - 1 /\ k \in 1..m + 1
    BY <1>4, <1>10, SMT
  <2> QED
    BY <1>9, <1>13, <2>1, Zenon DEF P
<1>18. w[1] = h[n]
  <2>1. 1 \in 1..m + 1 /\ (n - 1) + 1 = n
    BY SMT
  <2> QED
    BY <1>13, <2>1, Zenon
<1>19. Worth(factor, t, w)
  BY <1>12, <1>14, <1>15, <1>16, <1>17, Zenon DEF Worth, Chain, Positive
<1> QED
  BY <1>1, <1>10, <1>12, <1>18, <1>19, Zenon DEF Stands, t

-------------------------------------------------------------------------------
(* The powers of a base, as far as identifiers go.                         *)
Powers(base, n, p) ==
    /\ p \in [0..n -> Nat]
    /\ p[0] = 1
    /\ \A k \in 1..n : p[k] = base * p[k - 1]

(* There are these powers.                                                 *)
LEMMA PowersExist ==
    ASSUME NEW base, NEW factor, Conversion(base, factor), NEW n \in Nat
    PROVE  \E p : Powers(base, n, p)
<1> DEFINE G == [x \in (1..n) \X Nat |-> base * x[2]]
<1>1. G \in [(1..n) \X Nat -> Nat]
  <2> SUFFICES ASSUME NEW x \in Nat PROVE base * x \in Nat
    OBVIOUS
  <2> QED
    BY SMT DEF Conversion, CharacterSpace
<1>2. \A k \in 1..n, x \in Nat : G[<<k, x>>] = base * x
  BY Zenon
<1> HIDE DEF G
<1>3. 1 \in Nat
  OBVIOUS
<1>4. PICK p : Recursive(n, Nat, 1, G, p)
  BY <1>1, <1>3, Recursion, Zenon
<1>5. \A k \in 1..n : k - 1 \in 0..n
  BY SMT
<1>6. \A k \in 1..n : p[k] = base * p[k - 1]
  BY <1>2, <1>4, <1>5, Zenon DEF Recursive
<1> QED
  BY <1>4, <1>6, Zenon DEF Recursive, Powers

(* A greater power is of a greater number.                                 *)
LEMMA PowersGrow ==
    ASSUME NEW base, NEW factor, Conversion(base, factor), NEW n \in Nat, NEW p, Powers(base, n, p),
           NEW i \in 0..n, NEW j \in i..n
    PROVE  p[i] <= p[j]
<1> DEFINE S == {k \in Nat : i <= k => p[i] <= p[k]}
<1>1. p \in [0..n -> Nat] /\ \A k \in 1..n : p[k] = base * p[k - 1]
  BY Zenon DEF Powers
<1>2. 0 \in S
  <2>1. i <= 0 => i = 0
    BY SMT
  <2>2. p[0] <= p[0]
    <3>1. p[0] \in Nat
      BY <1>1, SMT
    <3> QED
      BY <3>1, SMT
  <2> QED
    BY <2>1, <2>2
<1>3. \A k \in S : k < n => k + 1 \in S
  <2> SUFFICES ASSUME NEW k \in S, k < n PROVE k + 1 \in S
    OBVIOUS
  <2>1. k \in Nat /\ (i <= k => p[i] <= p[k])
    OBVIOUS
  <2> HIDE DEF S
  <2>2. k + 1 \in 1..n /\ (k + 1) - 1 = k /\ k \in 0..n /\ k + 1 \in 0..n /\ k + 1 \in Nat
    BY <2>1, SMT
  <2>3. PICK x \in Nat, y \in Nat, z \in Nat : x = p[i] /\ y = p[k] /\ z = p[k + 1]
    <3>1. p[i] \in Nat /\ p[k] \in Nat /\ p[k + 1] \in Nat
      BY <1>1, <2>2
    <3> QED
      BY <3>1
  <2>4. z = base * y
    BY <1>1, <2>2, <2>3, Zenon
  <2>5. y <= z
    BY <2>4, SMT DEF Conversion, CharacterSpace
  <2>6. CASE i <= k
    <3>1. x <= z
      BY <2>1, <2>3, <2>5, <2>6, SMT
    <3> QED
      BY <2>2, <2>3, <3>1 DEF S
  <2>7. CASE i = k + 1
    <3>1. p[i] <= p[k + 1]
      BY <2>3, <2>7, SMT
    <3> QED
      BY <2>2, <3>1 DEF S
  <2>8. CASE ~(i <= k + 1)
    BY <2>2, <2>8 DEF S
  <2> QED
    BY <2>1, <2>6, <2>7, <2>8, SMT
<1>4. S \in SUBSET Nat
  OBVIOUS
<1> HIDE DEF S
<1>5. j \in S /\ i <= j
  <2>1. j \in 0..n /\ i <= j
    BY SMT
  <2>2. \A k \in 0..n : k \in S
    BY <1>2, <1>3, <1>4, BoundedInduction, Zenon
  <2> QED
    BY <2>1, <2>2, Zenon
<1> QED
  BY <1>5 DEF S

(* A number of more than n digits is not below the power n.                *)
LEMMA AtLeast ==
    ASSUME NEW base, NEW factor, Conversion(base, factor), NEW N \in Nat, NEW p, Powers(base, N, p),
           NEW s, NEW v, Stands(base, s, v), NEW n \in 1..N, n < Len(s)
    PROVE  p[n] <= v
<1>1. PICK m \in Nat : m = Len(s)
  BY DEF Stands
<1>2. n < m /\ n \in Nat /\ n # 0 /\ m # 1
  BY <1>1, SMT
<1>3. PICK w : Worth(base, s, w) /\ w[1] = v
  BY Zenon DEF Stands
<1>4. /\ w \in [1..m + 1 -> Nat]
      /\ \A k \in 1..m : w[k] = s[k] + base * w[k + 1]
      /\ \A k \in 1..m : w[k] # 0
      /\ \A k \in 1..m : s[k] \in 0..base - 1
  <2>1. s \in Seq(0..base - 1)
    BY DEF Stands
  <2> QED
    BY <1>1, <1>2, <1>3, <2>1, Element, Zenon DEF Worth, Chain, Positive
<1>5. p \in [0..N -> Nat] /\ p[0] = 1 /\ \A k \in 1..N : p[k] = base * p[k - 1]
  BY Zenon DEF Powers
<1> DEFINE S == {k \in Nat : p[k] <= w[(n + 1) - k]}
<1>6. 0 \in S
  <2>1. (n + 1) - 0 = n + 1 /\ n + 1 \in 1..m /\ n + 1 \in 1..m + 1
    BY <1>2, SMT
  <2>2. w[n + 1] \in Nat /\ w[n + 1] # 0
    BY <1>4, <2>1
  <2>3. 1 <= w[n + 1]
    BY <2>2, SMT
  <2> QED
    BY <1>5, <2>1, <2>3
<1>7. \A k \in S : k < n => k + 1 \in S
  <2> SUFFICES ASSUME NEW k \in S, k < n PROVE k + 1 \in S
    OBVIOUS
  <2>1. k \in Nat /\ p[k] <= w[(n + 1) - k]
    OBVIOUS
  <2> HIDE DEF S
  <2>2. PICK j : j = (n + 1) - (k + 1)
    OBVIOUS
  <2>3. /\ j \in 1..m /\ j \in 1..m + 1 /\ j + 1 \in 1..m + 1 /\ j + 1 = (n + 1) - k
        /\ k + 1 \in 1..N /\ (k + 1) - 1 = k /\ k \in 0..N /\ k + 1 \in 0..N /\ k + 1 \in Nat
    BY <1>2, <2>1, <2>2, SMT
  <2>4. PICK a \in Nat, b \in Nat, x \in Nat, y \in Nat : a = p[k] /\ b = p[k + 1] /\ x = w[j + 1] /\ y = w[j]
    <3>1. p[k] \in Nat /\ p[k + 1] \in Nat /\ w[j + 1] \in Nat /\ w[j] \in Nat
      BY <1>4, <1>5, <2>3
    <3> QED
      BY <3>1
  <2>5. PICK d \in 0..base - 1 : d = s[j]
    BY <1>4, <2>3
  <2>6. a <= x /\ b = base * a /\ y = d + base * x
    BY <1>4, <1>5, <2>1, <2>3, <2>4, <2>5, Zenon
  <2>7. d \in Nat
    BY SMT DEF Conversion, CharacterSpace
  <2>8. b <= y
    <3>1. CASE base = 58
      <4>1. b = 58 * a /\ y = d + 58 * x
        BY <2>6, <3>1
      <4> QED
        BY <2>6, <2>7, <4>1, SMT
    <3>2. CASE base = 256
      <4>1. b = 256 * a /\ y = d + 256 * x
        BY <2>6, <3>2
      <4> QED
        BY <2>6, <2>7, <4>1, SMT
    <3> QED
      BY <3>1, <3>2 DEF Conversion, CharacterSpace
  <2> QED
    BY <2>2, <2>3, <2>4, <2>8 DEF S
<1>8. S \in SUBSET Nat
  OBVIOUS
<1> HIDE DEF S
<1>9. n \in S
  <2>1. n \in 0..n
    BY SMT
  <2> QED
    BY <1>2, <1>6, <1>7, <1>8, <2>1, BoundedInduction, Zenon
<1>10. (n + 1) - n = 1
  BY SMT
<1> QED
  BY <1>3, <1>9, <1>10 DEF S

(* A number is below the power of as many digits as it has.                *)
LEMMA Below ==
    ASSUME NEW base, NEW factor, Conversion(base, factor), NEW N \in Nat, NEW p, Powers(base, N, p),
           NEW s, NEW v, Stands(base, s, v), Len(s) <= N
    PROVE  v < p[Len(s)]
<1>1. PICK m \in Nat : m = Len(s)
  BY DEF Stands
<1>2. m <= N
  BY <1>1
<1>3. PICK w : Worth(base, s, w) /\ w[1] = v
  BY Zenon DEF Stands
<1>4. /\ w \in [1..m + 1 -> Nat] /\ w[m + 1] = 0
      /\ \A k \in 1..m : w[k] = s[k] + base * w[k + 1]
      /\ \A k \in 1..m : s[k] \in 0..base - 1
  <2>1. s \in Seq(0..base - 1)
    BY DEF Stands
  <2> QED
    BY <1>1, <1>3, <2>1, Element, Zenon DEF Worth, Chain
<1>5. p \in [0..N -> Nat] /\ p[0] = 1 /\ \A k \in 1..N : p[k] = base * p[k - 1]
  BY Zenon DEF Powers
<1> DEFINE S == {k \in Nat : w[(m + 1) - k] < p[k]}
<1>6. 0 \in S
  <2>1. (m + 1) - 0 = m + 1 /\ 0 < 1
    BY SMT
  <2> QED
    BY <1>4, <1>5, <2>1
<1>7. \A k \in S : k < m => k + 1 \in S
  <2> SUFFICES ASSUME NEW k \in S, k < m PROVE k + 1 \in S
    OBVIOUS
  <2>1. k \in Nat /\ w[(m + 1) - k] < p[k]
    OBVIOUS
  <2> HIDE DEF S
  <2>2. PICK j : j = (m + 1) - (k + 1)
    OBVIOUS
  <2>3. /\ j \in 1..m /\ j \in 1..m + 1 /\ j + 1 \in 1..m + 1 /\ j + 1 = (m + 1) - k
        /\ k + 1 \in 1..N /\ (k + 1) - 1 = k /\ k \in 0..N /\ k + 1 \in 0..N /\ k + 1 \in Nat
    BY <1>2, <2>1, <2>2, SMT
  <2>4. PICK a \in Nat, b \in Nat, x \in Nat, y \in Nat : a = p[k] /\ b = p[k + 1] /\ x = w[j + 1] /\ y = w[j]
    <3>1. p[k] \in Nat /\ p[k + 1] \in Nat /\ w[j + 1] \in Nat /\ w[j] \in Nat
      BY <1>4, <1>5, <2>3
    <3> QED
      BY <3>1
  <2>5. PICK d \in 0..base - 1 : d = s[j]
    BY <1>4, <2>3
  <2>6. x < a /\ b = base * a /\ y = d + base * x
    BY <1>4, <1>5, <2>1, <2>3, <2>4, <2>5, Zenon
  <2>7. y < b
    <3>1. CASE base = 58
      <4>1. b = 58 * a /\ y = d + 58 * x /\ d \in 0..57
        BY <2>6, <3>1, SMT
      <4> QED
        BY <2>6, <4>1, SMT
    <3>2. CASE base = 256
      <4>1. b = 256 * a /\ y = d + 256 * x /\ d \in 0..255
        BY <2>6, <3>2, SMT
      <4> QED
        BY <2>6, <4>1, SMT
    <3> QED
      BY <3>1, <3>2 DEF Conversion, CharacterSpace
  <2> QED
    BY <2>2, <2>3, <2>4, <2>7 DEF S
<1>8. S \in SUBSET Nat
  OBVIOUS
<1> HIDE DEF S
<1>9. m \in S
  <2>1. m \in 0..m
    BY SMT
  <2> QED
    BY <1>6, <1>7, <1>8, <2>1, BoundedInduction, Zenon
<1>10. (m + 1) - m = 1
  BY SMT
<1> QED
  BY <1>1, <1>3, <1>9, <1>10 DEF S

(* The value of k bytes is below the power k.                              *)
LEMMA ValueBelow ==
    ASSUME NEW n \in Nat, NEW q, Powers(256, n, q),
           NEW s \in Seq(0..255), Len(s) = n, NEW h, Value(256, s, h), NEW i \in 0..n
    PROVE  h[i] < q[i] /\ h[i] \in Nat
<1>1. q \in [0..n -> Nat] /\ q[0] = 1 /\ \A k \in 1..n : q[k] = 256 * q[k - 1]
  BY Zenon DEF Powers
<1>2. h \in [0..n -> Nat] /\ h[0] = 0 /\ \A k \in 1..n : h[k] = 256 * h[k - 1] + s[k]
  BY Zenon DEF Value
<1> DEFINE S == {k \in Nat : h[k] < q[k]}
<1>3. 0 \in S
  <2>1. 0 < 1
    BY SMT
  <2> QED
    BY <1>1, <1>2, <2>1
<1>4. \A k \in S : k < n => k + 1 \in S
  <2> SUFFICES ASSUME NEW k \in S, k < n PROVE k + 1 \in S
    OBVIOUS
  <2>1. k \in Nat /\ h[k] < q[k]
    OBVIOUS
  <2> HIDE DEF S
  <2>2. k + 1 \in 1..n /\ (k + 1) - 1 = k /\ k \in 0..n /\ k + 1 \in 0..n /\ k + 1 \in Nat
    BY <2>1, SMT
  <2>3. PICK a \in Nat, b \in Nat, x \in Nat, y \in Nat : a = q[k] /\ b = q[k + 1] /\ x = h[k] /\ y = h[k + 1]
    <3>1. q[k] \in Nat /\ q[k + 1] \in Nat /\ h[k] \in Nat /\ h[k + 1] \in Nat
      BY <1>1, <1>2, <2>2
    <3> QED
      BY <3>1
  <2>4. PICK d \in 0..255 : d = s[k + 1]
    BY <2>2, Element
  <2>5. x < a /\ b = 256 * a /\ y = 256 * x + d
    <3>1. h[k + 1] = 256 * h[k] + s[k + 1] /\ q[k + 1] = 256 * q[k]
      BY <1>1, <1>2, <2>2
    <3> QED
      BY <2>1, <2>3, <2>4, <3>1
  <2>6. y < b
    BY <2>5, SMT
  <2> QED
    BY <2>2, <2>3, <2>6 DEF S
<1>5. S \in SUBSET Nat
  OBVIOUS
<1> HIDE DEF S
<1>6. i \in S
  BY <1>3, <1>4, <1>5, BoundedInduction, Zenon
<1> QED
  BY <1>2, <1>6 DEF S

(* Eight characters more are enough for as many bytes as an identifier and *)
(* its checksum have, and six are not too many for all of those but two.   *)
LEMMA PowersCompare ==
    ASSUME NEW p, Powers(58, 28, p), NEW q, Powers(256, 20, q)
    PROVE  /\ \A k \in 0..20 : q[k] <= p[k + 8]
           /\ p[25] <= q[19] /\ p[24] <= q[18] /\ p[23] <= q[17]
<1>1. p \in [0..28 -> Nat] /\ p[0] = 1 /\ \A k \in 1..28 : p[k] = 58 * p[k - 1]
  BY Zenon DEF Powers
<1>2. q \in [0..20 -> Nat] /\ q[0] = 1 /\ \A k \in 1..20 : q[k] = 256 * q[k - 1]
  BY Zenon DEF Powers
<1>3. /\ p[1] = 58 * p[0] /\ p[2] = 58 * p[1] /\ p[3] = 58 * p[2] /\ p[4] = 58 * p[3]
      /\ p[5] = 58 * p[4] /\ p[6] = 58 * p[5] /\ p[7] = 58 * p[6] /\ p[8] = 58 * p[7]
      /\ p[9] = 58 * p[8] /\ p[10] = 58 * p[9] /\ p[11] = 58 * p[10] /\ p[12] = 58 * p[11]
      /\ p[13] = 58 * p[12] /\ p[14] = 58 * p[13] /\ p[15] = 58 * p[14] /\ p[16] = 58 * p[15]
      /\ p[17] = 58 * p[16] /\ p[18] = 58 * p[17] /\ p[19] = 58 * p[18] /\ p[20] = 58 * p[19]
      /\ p[21] = 58 * p[20] /\ p[22] = 58 * p[21] /\ p[23] = 58 * p[22] /\ p[24] = 58 * p[23]
      /\ p[25] = 58 * p[24] /\ p[26] = 58 * p[25] /\ p[27] = 58 * p[26] /\ p[28] = 58 * p[27]
  BY <1>1, SMT
<1>4. /\ q[1] = 256 * q[0] /\ q[2] = 256 * q[1] /\ q[3] = 256 * q[2] /\ q[4] = 256 * q[3]
      /\ q[5] = 256 * q[4] /\ q[6] = 256 * q[5] /\ q[7] = 256 * q[6] /\ q[8] = 256 * q[7]
      /\ q[9] = 256 * q[8] /\ q[10] = 256 * q[9] /\ q[11] = 256 * q[10] /\ q[12] = 256 * q[11]
      /\ q[13] = 256 * q[12] /\ q[14] = 256 * q[13] /\ q[15] = 256 * q[14] /\ q[16] = 256 * q[15]
      /\ q[17] = 256 * q[16] /\ q[18] = 256 * q[17] /\ q[19] = 256 * q[18] /\ q[20] = 256 * q[19]
  BY <1>2, SMT
<1>5. p[25] <= q[19] /\ p[24] <= q[18] /\ p[23] <= q[17] /\ q[20] <= p[28]
  BY <1>1, <1>2, <1>3, <1>4, SMT
<1> DEFINE S == {k \in Nat : q[20 - k] <= p[28 - k]}
<1>6. 0 \in S
  <2>1. 20 - 0 = 20 /\ 28 - 0 = 28
    BY SMT
  <2> QED
    BY <1>5, <2>1
<1>7. \A k \in S : k < 20 => k + 1 \in S
  <2> SUFFICES ASSUME NEW k \in S, k < 20 PROVE k + 1 \in S
    OBVIOUS
  <2>1. k \in Nat /\ q[20 - k] <= p[28 - k]
    OBVIOUS
  <2> HIDE DEF S
  <2>2. PICK i, j : i = 20 - k /\ j = 28 - k
    OBVIOUS
  <2>3. /\ i \in 1..20 /\ i - 1 \in 0..20 /\ i \in 0..20 /\ i - 1 = 20 - (k + 1)
        /\ j \in 1..28 /\ j - 1 \in 0..28 /\ j \in 0..28 /\ j - 1 = 28 - (k + 1)
        /\ k + 1 \in Nat
    BY <2>1, <2>2, SMT
  <2>4. PICK a \in Nat, b \in Nat, x \in Nat, y \in Nat : a = q[i - 1] /\ b = q[i] /\ x = p[j - 1] /\ y = p[j]
    <3>1. q[i - 1] \in Nat /\ q[i] \in Nat /\ p[j - 1] \in Nat /\ p[j] \in Nat
      BY <1>1, <1>2, <2>3
    <3> QED
      BY <3>1
  <2>5. b <= y /\ b = 256 * a /\ y = 58 * x
    BY <1>1, <1>2, <2>1, <2>2, <2>3, <2>4, Zenon
  <2>6. a <= x
    BY <2>5, SMT
  <2> QED
    BY <2>3, <2>4, <2>6 DEF S
<1>8. S \in SUBSET Nat
  OBVIOUS
<1> HIDE DEF S
<1>9. \A k \in 0..20 : q[k] <= p[k + 8]
  <2> SUFFICES ASSUME NEW k \in 0..20 PROVE q[k] <= p[k + 8]
    OBVIOUS
  <2>1. 20 - k \in 0..20 /\ 20 - (20 - k) = k /\ 28 - (20 - k) = k + 8
    BY SMT
  <2>2. 20 - k \in S
    <3>1. 20 \in Nat
      OBVIOUS
    <3> QED
      BY <1>6, <1>7, <1>8, <2>1, <3>1, BoundedInduction, Zenon
  <2> QED
    BY <2>1, <2>2 DEF S
<1> QED
  BY <1>5, <1>9

-------------------------------------------------------------------------------
(* Converted puts the zeros before the digits, the highest first.          *)
LEMMA ReverseIs ==
    ASSUME NEW s, NEW t
    PROVE  Converted(s, t) = Zeros(LeadingZeros(s)) \o [k \in 1..Len(t) |-> t[(Len(t) - k) + 1]]
BY Zenon DEF Converted, Reverse

(* A sequence that begins with z zeros and ends with the digits of a       *)
(* number.                                                                 *)
Written(z, t) == Zeros(z) \o [k \in 1..Len(t) |-> t[(Len(t) - k) + 1]]

(* Its elements.                                                           *)
LEMMA WrittenIs ==
    ASSUME NEW T, 0 \in T, NEW z \in Nat, NEW t \in Seq(T)
    PROVE  /\ Written(z, t) \in Seq(T)
           /\ Len(Written(z, t)) = z + Len(t)
           /\ \A k \in 1..z : Written(z, t)[k] = 0
           /\ \A k \in 1..Len(t) : Written(z, t)[z + k] = t[(Len(t) - k) + 1]
<1>1. PICK n \in Nat : n = Len(t)
  OBVIOUS
<1> DEFINE low == [k \in 1..z |-> 0]
           high == [k \in 1..n |-> t[(n - k) + 1]]
<1>2. low \in [1..z -> T]
  OBVIOUS
<1>3. high \in [1..n -> T]
  <2> SUFFICES ASSUME NEW k \in 1..n PROVE t[(n - k) + 1] \in T
    OBVIOUS
  <2>1. (n - k) + 1 \in 1..n
    BY SMT
  <2> QED
    BY <1>1, <2>1, Element, Zenon
<1>4. (\A k \in 1..z : low[k] = 0) /\ \A k \in 1..n : high[k] = t[(n - k) + 1]
  BY Zenon
<1>5. Written(z, t) = low \o high
  BY <1>1, Zenon DEF Written, Zeros
<1> HIDE DEF low, high
<1>6. low \in Seq(T) /\ Len(low) = z /\ high \in Seq(T) /\ Len(high) = n
  BY <1>2, <1>3, FunctionIsSeq, Zenon
<1>7. /\ low \o high \in Seq(T) /\ Len(low \o high) = z + n
      /\ \A k \in 1..z + n : (low \o high)[k] = IF k <= z THEN low[k] ELSE high[k - z]
  BY <1>6, ConcatProperties, Zenon
<1>8. \A k \in 1..z : k \in 1..z + n /\ k <= z
  BY SMT
<1>9. \A k \in 1..n : z + k \in 1..z + n /\ ~(z + k <= z) /\ (z + k) - z = k
  BY SMT
<1>10. \A k \in 1..z : (low \o high)[k] = 0
  BY <1>4, <1>7, <1>8, Zenon
<1>11. \A k \in 1..n : (low \o high)[z + k] = t[(n - k) + 1]
  <2> SUFFICES ASSUME NEW k \in 1..n PROVE (low \o high)[z + k] = t[(n - k) + 1]
    OBVIOUS
  <2>1. (low \o high)[z + k] = high[(z + k) - z]
    BY <1>7, <1>9, Zenon
  <2> QED
    BY <1>4, <1>9, <2>1, Zenon
<1> QED
  BY <1>1, <1>5, <1>7, <1>10, <1>11, Zenon

(* It has these zeros and these digits.                                    *)
LEMMA WrittenReads ==
    ASSUME NEW base, NEW factor, Conversion(base, factor),
           NEW z \in Nat, NEW t, NEW v, Stands(base, t, v)
    PROVE  /\ Written(z, t) \in Seq(0..base - 1)
           /\ Len(Written(z, t)) = z + Len(t)
           /\ Len(Written(z, t)) # 0
           /\ LeadingZeros(Written(z, t)) = z
           /\ Significant(Written(z, t)) = t
<1>1. t \in Seq(0..base - 1)
  BY DEF Stands
<1>2. PICK n \in Nat : n = Len(t) /\ n # 0
  BY DEF Stands
<1>3. PICK w : Worth(base, t, w)
  BY Zenon DEF Stands
<1>4. 0 \in 0..base - 1
  BY SMT DEF Conversion, CharacterSpace
<1> DEFINE s == Written(z, t)
<1>5. /\ s \in Seq(0..base - 1) /\ Len(s) = z + n
      /\ \A k \in 1..z : s[k] = 0
      /\ \A k \in 1..n : s[z + k] = t[(n - k) + 1]
  <2>1. /\ s \in Seq(0..base - 1) /\ Len(s) = z + Len(t)
        /\ \A k \in 1..z : s[k] = 0
        /\ \A k \in 1..Len(t) : s[z + k] = t[(Len(t) - k) + 1]
    BY <1>1, <1>4, WrittenIs, Zenon
  <2> HIDE DEF s
  <2> QED
    BY <1>2, <2>1
<1> HIDE DEF s
<1>6. Leading(s, z)
  <2>1. z \in 0..(z + n) - 1
    BY <1>2, SMT
  <2>2. ASSUME z # (z + n) - 1 PROVE s[z + 1] # 0
    <3>1. n # 1 /\ 1 \in 1..n /\ (n - 1) + 1 = n /\ n \in 1..n
      BY <1>2, <2>2, SMT
    <3>2. s[z + 1] = t[n]
      BY <1>5, <3>1, Zenon
    <3>3. w[n] # 0 /\ w[n] = t[n] + base * 0
      BY <1>2, <1>3, <3>1, Zenon DEF Worth, Chain, Positive
    <3>4. PICK d \in 0..base - 1 : d = t[n]
      BY <1>1, <1>2, <3>1, Element
    <3>5. d + base * 0 = d
      BY SMT DEF Conversion, CharacterSpace
    <3> QED
      BY <3>2, <3>3, <3>4, <3>5
  <2> QED
    BY <1>5, <2>1, <2>2, Zenon DEF Leading
<1>7. z + n \in Nat /\ z + n # 0
  BY <1>2, SMT
<1>8. LeadingZeros(s) = z
  <2>1. PICK m \in Nat : m = Len(s) /\ m # 0
    BY <1>5, <1>7
  <2>2. Leading(s, LeadingZeros(s))
    BY <2>1, LeadingIs, Zenon
  <2> QED
    BY <1>6, <2>1, <2>2, LeadingIsOne, Zenon
<1>9. Significant(s) = t
  <2>1. (z + n) - z = n
    BY SMT
  <2>2. Significant(s) = [k \in 1..n |-> s[((z + n) - k) + 1]]
    BY <1>5, <1>8, <2>1, Zenon DEF Significant
  <2>3. ASSUME NEW k \in 1..n PROVE s[((z + n) - k) + 1] = t[k]
    <3>1. PICK j : j = (n - k) + 1
      OBVIOUS
    <3>2. j \in 1..n /\ z + j = ((z + n) - k) + 1 /\ (n - j) + 1 = k
      BY <3>1, SMT
    <3> QED
      BY <1>5, <3>2, Zenon
  <2>4. t = [k \in 1..n |-> t[k]]
    BY <1>1, <1>2
  <2> QED
    BY <2>2, <2>3, <2>4, Zenon
<1> QED
  BY <1>2, <1>5, <1>7, <1>8, <1>9, Zenon DEF s

(* A sequence is its zeros and its digits.                                 *)
LEMMA ReadsWritten ==
    ASSUME NEW T, 0 \in T, NEW s \in Seq(T), Len(s) # 0
    PROVE  Written(LeadingZeros(s), Significant(s)) = s
<1>1. PICK n \in Nat : n = Len(s) /\ n # 0
  OBVIOUS
<1>2. PICK z : z = LeadingZeros(s)
  OBVIOUS
<1>3. Leading(s, z)
  BY <1>1, <1>2, LeadingIs, Zenon
<1>4. z \in 0..n - 1 /\ \A i \in 1..z : s[i] = 0
  BY <1>1, <1>3, Zenon DEF Leading
<1>5. z \in Nat
  BY <1>4, SMT
<1>6. PICK m \in Nat : m = n - z
  BY <1>4, SMT
<1> DEFINE t == Significant(s)
<1>7. t = [k \in 1..m |-> s[(n - k) + 1]]
  BY <1>1, <1>2, <1>6, Zenon DEF Significant
<1>8. \A k \in 1..m : (n - k) + 1 \in 1..n
  BY <1>4, <1>6, SMT
<1>9. t \in [1..m -> T] /\ \A k \in 1..m : t[k] = s[(n - k) + 1]
  <2>1. \A k \in 1..m : s[(n - k) + 1] \in T
    BY <1>1, <1>8, Element, Zenon
  <2> QED
    BY <1>7, <2>1
<1> HIDE DEF t
<1>10. t \in Seq(T) /\ Len(t) = m
  BY <1>9, FunctionIsSeq, Zenon
<1>11. /\ Written(z, t) \in Seq(T) /\ Len(Written(z, t)) = z + m
       /\ \A k \in 1..z : Written(z, t)[k] = 0
       /\ \A k \in 1..m : Written(z, t)[z + k] = t[(m - k) + 1]
  <2>1. /\ Written(z, t) \in Seq(T) /\ Len(Written(z, t)) = z + Len(t)
        /\ \A k \in 1..z : Written(z, t)[k] = 0
        /\ \A k \in 1..Len(t) : Written(z, t)[z + k] = t[(Len(t) - k) + 1]
    <3>1. 0 \in T /\ z \in Nat /\ t \in Seq(T)
      BY <1>5, <1>10
    <3> QED
      BY <3>1, WrittenIs, Zenon
  <2> QED
    BY <1>10, <2>1
<1>12. z + m = n
  BY <1>4, <1>6, SMT
<1>13. \A k \in 1..n : Written(z, t)[k] = s[k]
  <2> SUFFICES ASSUME NEW k \in 1..n PROVE Written(z, t)[k] = s[k]
    OBVIOUS
  <2>1. CASE k <= z
    <3>1. k \in 1..z
      BY <2>1, SMT
    <3> QED
      BY <1>4, <1>11, <3>1, Zenon
  <2>2. CASE ~(k <= z)
    <3>1. PICK j : j = k - z
      OBVIOUS
    <3>2. /\ j \in 1..m /\ z + j = k /\ (m - j) + 1 \in 1..m
          /\ (n - ((m - j) + 1)) + 1 = k
      BY <1>4, <1>6, <2>2, <3>1, SMT
    <3> QED
      BY <1>9, <1>11, <3>2, Zenon
  <2> QED
    BY <2>1, <2>2
<1>14. Len(Written(z, t)) = Len(s)
  BY <1>1, <1>11, <1>12
<1>15. Written(z, t) = s
  <2>1. \A k \in 1..Len(Written(z, t)) : Written(z, t)[k] = s[k]
    BY <1>1, <1>13, <1>14
  <2> QED
    BY <1>11, <1>14, <2>1, SeqEqual, Zenon
<1> QED
  BY <1>2, <1>15 DEF t

-------------------------------------------------------------------------------
(* The number of an identifier and its checksum is the source as it is and *)
(* the checksum behind it, for the zeros are put back.                     *)
LEMMA PaddedIs ==
    ASSUME NEW s \in Seq(Carry), Len(s) = 16
    PROVE  Padded(Exported(s)) = s
<1>1. PICK z : z = LeadingZeros(s)
  OBVIOUS
<1>2. Leading(s, z)
  <2>1. 16 \in Nat /\ 16 # 0
    OBVIOUS
  <2> QED
    BY <1>1, <2>1, LeadingIs
<1>3. z \in 0..15 /\ \A i \in 1..z : s[i] = 0
  <2>1. 16 - 1 = 15
    BY SMT
  <2> QED
    BY <1>2, <2>1, Zenon DEF Leading
<1> DEFINE t == SubSeq(s, z + 1, 16)
           low == [i \in 1..z |-> 0]
<1>4. PICK m \in Nat : m = 16 - z /\ z + m = 16 /\ 16 - m = z
  BY <1>3, SMT
<1>5. /\ t \in Seq(Carry) /\ Len(t) = m
      /\ \A i \in 1..m : t[i] = s[z + i]
  <2>1. PICK a \in Int : a = z + 1
    BY <1>3, SMT
  <2>2. a <= 16 /\ 16 - a + 1 = m /\ \A i \in a..16 : i \in 1..16
    BY <1>3, <1>4, <2>1, SMT
  <2>3. \A i \in a..16 : s[i] \in Carry
    BY <2>2, Element
  <2>4. 16 \in Int
    OBVIOUS
  <2>5. /\ SubSeq(s, a, 16) \in Seq(Carry)
        /\ Len(SubSeq(s, a, 16)) = IF a <= 16 THEN 16 - a + 1 ELSE 0
        /\ \A i \in 1..16 - a + 1 : SubSeq(s, a, 16)[i] = s[a + i - 1]
    BY <2>3, <2>4, SubSeqProperties
  <2>6. \A i \in 1..m : a + i - 1 = z + i
    BY <1>3, <2>1, SMT
  <2>7. t = SubSeq(s, a, 16)
    BY <2>1
  <2> HIDE DEF t
  <2> QED
    BY <2>2, <2>5, <2>6, <2>7
<1>6. low \in [1..z -> Carry] /\ \A i \in 1..z : low[i] = 0
  BY SMT DEF Carry
<1>7. Padded(Exported(s)) = low \o t
  BY <1>1, <1>4, <1>5, Zenon DEF Padded, Exported, Zeros, PayloadSize
<1> HIDE DEF low, t
<1>8. low \in Seq(Carry) /\ Len(low) = z
  <2>1. z \in Nat
    BY <1>3, SMT
  <2> QED
    BY <1>6, <2>1, FunctionIsSeq, Zenon
<1>9. /\ low \o t \in Seq(Carry) /\ Len(low \o t) = 16
      /\ \A k \in 1..16 : (low \o t)[k] = IF k <= z THEN low[k] ELSE t[k - z]
  <2>1. /\ low \o t \in Seq(Carry) /\ Len(low \o t) = Len(low) + Len(t)
        /\ \A k \in 1..Len(low) + Len(t) :
              (low \o t)[k] = IF k <= Len(low) THEN low[k] ELSE t[k - Len(low)]
    BY <1>5, <1>8, ConcatProperties, Zenon
  <2>2. Len(low) + Len(t) = 16
    BY <1>4, <1>5, <1>8
  <2> QED
    BY <1>8, <2>1, <2>2
<1>10. \A k \in 1..16 : (low \o t)[k] = s[k]
  <2> SUFFICES ASSUME NEW k \in 1..16 PROVE (low \o t)[k] = s[k]
    OBVIOUS
  <2>1. CASE k <= z
    <3>1. k \in 1..z
      BY <1>3, <2>1, SMT
    <3> QED
      BY <1>3, <1>6, <1>9, <2>1, <3>1, Zenon
  <2>2. CASE ~(k <= z)
    <3>1. k - z \in 1..m /\ z + (k - z) = k
      BY <1>3, <1>4, <2>2, SMT
    <3>2. (low \o t)[k] = t[k - z]
      BY <1>9, <2>2, Zenon
    <3> QED
      BY <1>5, <3>1, <3>2, Zenon
  <2> QED
    BY <2>1, <2>2
<1>11. low \o t = s
  BY <1>9, <1>10, SeqEqual, Zenon
<1> QED
  BY <1>7, <1>11

-------------------------------------------------------------------------------
(* The first n elements of a sequence have been taken: the digits stand    *)
(* for their value.                                                        *)
Converting(base, factor, s, n, digits) ==
    \E h : Value(factor, s, h) /\ Stands(base, digits, h[n])

(* They do at the beginning, when nothing has been taken.                  *)
LEMMA ConvertingBegins ==
    ASSUME NEW base, NEW factor, Conversion(base, factor), NEW s \in Seq(Carry)
    PROVE  Converting(base, factor, s, 0, <<0>>) /\ Len(<<0>>) = 1
<1>1. PICK h : Value(factor, s, h)
  BY ValueExists, Zenon
<1>2. h[0] = 0
  BY <1>1, Zenon DEF Value
<1> DEFINE w == [k \in 1..2 |-> 0]
<1>3. <<0>> \in Seq(0..base - 1) /\ Len(<<0>>) = 1 /\ <<0>>[1] = 0
  <2>1. 0 \in 0..base - 1
    BY SMT DEF Conversion, CharacterSpace
  <2> QED
    BY <2>1
<1>4. w \in [1..1 + 1 -> Nat] /\ w[1 + 1] = 0 /\ w[1] = 0 /\ \A k \in 1..1 : k = 1
  BY SMT
<1>5. 0 = 0 + base * 0
  BY SMT DEF Conversion, CharacterSpace
<1> HIDE DEF w
<1>6. Worth(base, <<0>>, w)
  BY <1>3, <1>4, <1>5 DEF Worth, Chain
<1>7. Stands(base, <<0>>, 0)
  <2>1. 1 # 0
    OBVIOUS
  <2> QED
    BY <1>3, <1>4, <1>6, <2>1, Zenon DEF Stands
<1> QED
  BY <1>1, <1>2, <1>3, <1>7, Zenon DEF Converting

(* Add takes the next of them.                                             *)
LEMMA ConvertingGoesOn ==
    ASSUME NEW base, NEW factor, Conversion(base, factor), NEW s \in Seq(Carry),
           NEW n \in 0..Len(s), n < Len(s), NEW digits, Converting(base, factor, s, n, digits)
    PROVE  /\ Converting(base, factor, s, n + 1, Add(s[n + 1], digits, factor, base))
           /\ base = 256 => Len(Add(s[n + 1], digits, factor, base)) <= Len(digits) + 1
<1>1. PICK h : Value(factor, s, h) /\ Stands(base, digits, h[n])
  BY Zenon DEF Converting
<1>2. PICK m \in Nat : m = Len(s)
  OBVIOUS
<1>3. n + 1 \in 1..m /\ n \in 0..m /\ (n + 1) - 1 = n
  BY <1>2, SMT
<1>4. PICK d \in Carry : d = s[n + 1]
  BY <1>2, <1>3, Element
<1>5. PICK v \in Nat : v = h[n]
  <2>1. h \in [0..m -> Nat]
    BY <1>1, <1>2, Zenon DEF Value
  <2> QED
    BY <1>3, <2>1
<1>6. h[n + 1] = factor * v + d
  <2>1. \A k \in 1..m : h[k] = factor * h[k - 1] + s[k]
    BY <1>1, <1>2, Zenon DEF Value
  <2> QED
    BY <1>3, <1>4, <1>5, <2>1
<1>7. Stands(base, digits, v)
  BY <1>1, <1>5
<1>8. /\ Stands(base, Add(d, digits, factor, base), factor * v + d)
      /\ base = 256 => Len(Add(d, digits, factor, base)) <= Len(digits) + 1
  BY <1>7, AddStands, Zenon
<1> QED
  BY <1>1, <1>4, <1>6, <1>8, Zenon DEF Converting

(* What a text is: the zeros of the bytes, and their number in base 58.    *)
TextOf(bytes, t) ==
    \E v, digits : /\ Stands(256, Significant(bytes), v)
                   /\ Stands(58, digits, v)
                   /\ t = Written(LeadingZeros(bytes), digits)

(* There are these two.                                                    *)
LEMMA Conversions == Conversion(58, 256) /\ Conversion(256, 58)
BY DEF Conversion, CharacterSpace

(* So it is of a text.                                                     *)
LEMMA TextReads ==
    ASSUME NEW z \in Nat, NEW d, NEW v, Stands(58, d, v)
    PROVE  /\ Written(z, d) \in Seq(0..58 - 1)
           /\ Len(Written(z, d)) = z + Len(d)
           /\ Len(Written(z, d)) # 0
           /\ LeadingZeros(Written(z, d)) = z
           /\ Significant(Written(z, d)) = d
<1>1. PICK base, factor : Conversion(base, factor) /\ base = 58
  BY Conversions, Zenon
<1>2. Stands(base, d, v)
  BY <1>1
<1>3. /\ Written(z, d) \in Seq(0..base - 1)
      /\ Len(Written(z, d)) = z + Len(d)
      /\ Len(Written(z, d)) # 0
      /\ LeadingZeros(Written(z, d)) = z
      /\ Significant(Written(z, d)) = d
  BY <1>1, <1>2, WrittenReads, Zenon
<1> QED
  BY <1>1, <1>3

(* A conversion of all the bytes gives their text.                         *)
LEMMA BytesToText ==
    ASSUME NEW s \in Seq(Carry), Len(s) # 0, NEW digits, Converting(58, 256, s, Len(s), digits)
    PROVE  TextOf(s, Converted(s, digits))
<1>1. PICK h : Value(256, s, h) /\ Stands(58, digits, h[Len(s)])
  BY Zenon DEF Converting
<1>2. s \in Seq(0..256 - 1)
  <2>1. 256 - 1 = 255
    BY SMT
  <2> QED
    BY <2>1 DEF Carry
<1>3. Stands(256, Significant(s), h[Len(s)])
  BY <1>1, <1>2, Conversions, SignificantStand, Zenon
<1>4. Converted(s, digits) = Written(LeadingZeros(s), digits)
  BY ReverseIs, Zenon DEF Written
<1> QED
  BY <1>1, <1>3, <1>4, Zenon DEF TextOf

(* The leading zeros of bytes are less than those.                         *)
LEMMA ZerosOf ==
    ASSUME NEW n \in Nat, n # 0, NEW s, Len(s) = n
    PROVE  LeadingZeros(s) \in 0..n - 1 /\ LeadingZeros(s) \in Nat
<1>1. Leading(s, LeadingZeros(s))
  BY LeadingIs, Zenon
<1>2. LeadingZeros(s) \in 0..n - 1
  BY <1>1, Zenon DEF Leading
<1> QED
  BY <1>2, SMT

(* The conversion of a whole text gives the bytes it was made of.          *)
LEMMA TextToBytes ==
    ASSUME NEW s \in Seq(Carry), Len(s) # 0, NEW t, TextOf(s, t),
           NEW digits, Converting(256, 58, t, Len(t), digits)
    PROVE  Converted(t, digits) = s
<1>1. PICK v, d : /\ Stands(256, Significant(s), v) /\ Stands(58, d, v)
                  /\ t = Written(LeadingZeros(s), d)
  BY Zenon DEF TextOf
<1>2. PICK n \in Nat : n = Len(s) /\ n # 0
  OBVIOUS
<1>3. PICK z \in Nat : z = LeadingZeros(s)
  BY <1>2, ZerosOf
<1>4. /\ t \in Seq(0..58 - 1) /\ Len(t) # 0
      /\ LeadingZeros(t) = z /\ Significant(t) = d
  <2>1. /\ Written(z, d) \in Seq(0..58 - 1) /\ Len(Written(z, d)) # 0
        /\ LeadingZeros(Written(z, d)) = z /\ Significant(Written(z, d)) = d
    BY <1>1, TextReads, Zenon
  <2>2. t = Written(z, d)
    BY <1>1, <1>3
  <2> QED
    BY <2>1, <2>2, Zenon
<1>5. PICK h : Value(58, t, h) /\ Stands(256, digits, h[Len(t)])
  BY Zenon DEF Converting
<1>6. Stands(58, d, h[Len(t)])
  <2>1. Stands(58, Significant(t), h[Len(t)])
    BY <1>4, <1>5, Conversions, SignificantStand, Zenon
  <2> QED
    BY <1>4, <2>1
<1>7. h[Len(t)] = v
  BY <1>1, <1>6, NumberIsOne, Zenon
<1>8. digits = Significant(s)
  <2>1. Stands(256, digits, v)
    BY <1>5, <1>7
  <2> QED
    BY <1>1, <2>1, Conversions, DigitsAreOne, Zenon
<1>9. Converted(t, digits) = Written(LeadingZeros(t), digits)
  BY ReverseIs, Zenon DEF Written
<1>10. Written(LeadingZeros(s), Significant(s)) = s
  <2>1. 0 \in Carry
    BY SMT DEF Carry
  <2> QED
    BY <2>1, ReadsWritten, Zenon
<1> QED
  BY <1>3, <1>4, <1>8, <1>9, <1>10

(* The digits of what is below a power of 256 are eight more at most.      *)
LEMMA EightMore ==
    ASSUME NEW q, Powers(256, 20, q), NEW n \in 0..20,
           NEW d, NEW v \in Nat, Stands(58, d, v), v < q[n]
    PROVE  Len(d) <= n + 8
<1>1. 28 \in Nat
  OBVIOUS
<1>2. PICK p : Powers(58, 28, p)
  BY <1>1, Conversions, PowersExist, Zenon
<1>3. q[n] <= p[n + 8]
  BY <1>2, PowersCompare, Zenon
<1>4. n + 8 \in 1..28 /\ n + 8 \in 0..28
  BY SMT
<1>5. PICK m \in Nat : m = Len(d)
  BY DEF Stands
<1>6. CASE n + 8 < Len(d)
  <2>1. p[n + 8] <= v
    BY <1>1, <1>2, <1>4, <1>6, Conversions, AtLeast, Zenon
  <2>2. p[n + 8] \in Nat /\ q[n] \in Nat
    BY <1>2, <1>4 DEF Powers
  <2> QED
    BY <1>3, <2>1, <2>2, SMT
<1>7. CASE ~(n + 8 < m)
  BY <1>5, <1>7, SMT
<1> QED
  BY <1>5, <1>6, <1>7

(* The lengths of the texts of twenty bytes.                               *)
LEMMA TextLength ==
    ASSUME NEW s \in Seq(Carry), Len(s) = 20, NEW t, TextOf(s, t)
    PROVE  /\ t \in Seq(0..57) /\ Len(t) <= 28 /\ Len(t) # 0
           /\ LeadingZeros(s) < 3 => Len(t) >= 26
<1>1. PICK v, d : /\ Stands(256, Significant(s), v) /\ Stands(58, d, v)
                  /\ t = Written(LeadingZeros(s), d)
  BY Zenon DEF TextOf
<1>0. 28 \in Nat
  OBVIOUS
<1>2. 20 \in Nat /\ 20 # 0 /\ 58 - 1 = 57 /\ 20 - 1 = 19
  BY SMT
<1>3. PICK z \in Nat : z = LeadingZeros(s) /\ z \in 0..19
  BY <1>2, ZerosOf
<1>4. t \in Seq(0..57) /\ Len(t) = z + Len(d) /\ Len(t) # 0
  <2>1. /\ Written(z, d) \in Seq(0..58 - 1) /\ Len(Written(z, d)) # 0
        /\ Len(Written(z, d)) = z + Len(d)
    BY <1>1, TextReads, Zenon
  <2>2. t = Written(z, d)
    BY <1>1, <1>3
  <2> QED
    BY <1>2, <2>1, <2>2
<1>5. PICK m \in Nat : m = Len(d)
  BY <1>1 DEF Stands
<1>6. PICK p : Powers(58, 28, p)
  BY <1>0, Conversions, PowersExist, Zenon
<1>7. PICK q : Powers(256, 20, q)
  BY <1>2, Conversions, PowersExist, Zenon
<1>8. PICK r \in Nat : r = 20 - z /\ r \in 1..20 /\ r \in 0..20 /\ r <= 20
  BY <1>3, SMT
<1>9. Len(Significant(s)) = r
  <2>1. Significant(s) = [k \in 1..r |-> s[(20 - k) + 1]]
    BY <1>3, <1>8 DEF Significant
  <2> QED
    BY <2>1
<1>10. v \in Nat
  <2>1. PICK w : Worth(58, d, w) /\ w[1] = v
    BY <1>1, Zenon DEF Stands
  <2>2. w \in [1..m + 1 -> Nat] /\ 1 \in 1..m + 1
    BY <1>5, <2>1, SMT DEF Worth, Chain
  <2> QED
    BY <2>1, <2>2
<1>11. m <= r + 8
  <2>1. v < q[r]
    <3>1. Len(Significant(s)) <= 20
      BY <1>8, <1>9
    <3>2. v < q[Len(Significant(s))]
      BY <1>1, <1>2, <1>7, <3>1, Conversions, Below, Zenon
    <3> QED
      BY <1>9, <3>2
  <2>2. Len(d) <= r + 8
    BY <1>1, <1>7, <1>8, <1>10, <2>1, EightMore, Zenon
  <2> QED
    BY <1>5, <2>2
<1>12. z < 3 => 26 <= z + m
  <2> SUFFICES ASSUME z < 3, ~(26 <= z + m) PROVE FALSE
    OBVIOUS
  <2>0. (z = 0 \/ z = 1 \/ z = 2) /\ m < 26 - z
    BY SMT
  <2>1. PICK i \in Nat, j \in Nat : i = 19 - z /\ j = 25 - z
    BY <2>0
  <2>2. /\ i \in 1..20 /\ i \in 0..20 /\ i < r /\ j \in 0..28 /\ m <= j /\ m <= 28
        /\ m \in 0..28 /\ j \in m..28
        /\ \/ i = 19 /\ j = 25
           \/ i = 18 /\ j = 24
           \/ i = 17 /\ j = 23
    BY <1>8, <2>0, <2>1, SMT
  <2>3. q[i] <= v
    <3>1. i < Len(Significant(s))
      BY <1>9, <2>2
    <3> QED
      BY <1>1, <1>2, <1>7, <2>2, <3>1, Conversions, AtLeast, Zenon
  <2>4. v < p[m]
    <3>1. Len(d) <= 28
      BY <1>5, <2>2
    <3>2. v < p[Len(d)]
      BY <1>1, <1>0, <1>6, <3>1, Conversions, Below, Zenon
    <3> QED
      BY <1>5, <3>2
  <2>5. p[m] <= p[j]
    BY <1>0, <1>6, <2>2, Conversions, PowersGrow, Zenon
  <2>6. p[j] <= q[i]
    BY <1>6, <1>7, <2>2, PowersCompare, Zenon
  <2>7. p[m] \in Nat /\ p[j] \in Nat /\ q[i] \in Nat
    BY <1>6, <1>7, <2>2 DEF Powers
  <2> QED
    BY <1>10, <2>3, <2>4, <2>5, <2>6, <2>7, SMT
<1>13. z + m <= 28
  BY <1>8, <1>11, SMT
<1> QED
  BY <1>3, <1>4, <1>5, <1>12, <1>13, SMT

-------------------------------------------------------------------------------
(* A slice has the length that its places give it, wherever it begins.     *)
LEMMA SliceLength ==
    ASSUME NEW s, NEW m \in Int, NEW n \in Int, n - m = 3
    PROVE  Len(SubSeq(s, m, n)) = 4
<1> DEFINE T == {s[i] : i \in m..n}
<1>1. \A i \in m..n : s[i] \in T
  OBVIOUS
<1> HIDE DEF T
<1>2. Len(SubSeq(s, m, n)) = IF m <= n THEN n - m + 1 ELSE 0
  BY <1>1, SubSeqProperties
<1> QED
  BY <1>2, SMT

(* The first of the parts of a number.                                     *)
LEMMA Halves ==
    ASSUME NEW T, NEW s \in Seq(T), NEW t \in Seq(T), Len(s) = 16, Len(t) = 4
    PROVE  /\ s \o t \in Seq(T) /\ Len(s \o t) = 20
           /\ \A k \in 1..16 : (s \o t)[k] = s[k]
           /\ SubSeq(s \o t, 1, 16) = s
<1>1. /\ s \o t \in Seq(T) /\ Len(s \o t) = 20
      /\ \A k \in 1..16 : (s \o t)[k] = s[k]
  <2>1. /\ s \o t \in Seq(T) /\ Len(s \o t) = Len(s) + Len(t)
        /\ \A k \in 1..Len(s) + Len(t) : (s \o t)[k] = IF k <= Len(s) THEN s[k] ELSE t[k - Len(s)]
    BY ConcatProperties, Zenon
  <2>2. Len(s) + Len(t) = 20
    BY SMT
  <2>3. \A k \in 1..16 : k \in 1..20 /\ k <= 16
    BY SMT
  <2> QED
    BY <2>1, <2>2, <2>3
<1>2. SubSeq(s \o t, 1, 16) = s
  <2>1. 1 \in 1..Len(s) /\ 16 \in 1..Len(s)
    BY SMT
  <2>2. SubSeq(s \o t, 1, 16) = SubSeq(s, 1, 16)
    BY <2>1, SubSeqOfConcat1, Zenon
  <2>3. SubSeq(s, 1, Len(s)) = s
    BY SubSeqFull, Zenon
  <2> QED
    BY <2>2, <2>3
<1> QED
  BY <1>1, <1>2

(* The second of them, which is the checksum.                              *)
LEMMA SecondHalf ==
    ASSUME NEW T, NEW s \in Seq(T), NEW t \in Seq(T), Len(s) = 16, Len(t) = 4
    PROVE  SubSeq(s \o t, 17, 20) = t
<1>1. 17 \in Len(s) + 1..Len(s) + Len(t) /\ 20 \in Len(s) + 1..Len(s) + Len(t)
  BY SMT
<1>2. SubSeq(s \o t, 17, 20) = SubSeq(t, 17 - Len(s), 20 - Len(s))
  BY <1>1, SubSeqOfConcat2, Zenon
<1>3. 17 - Len(s) = 1 /\ 20 - Len(s) = Len(t)
  BY SMT
<1>4. SubSeq(t, 1, Len(t)) = t
  BY SubSeqFull, Zenon
<1> QED
  BY <1>2, <1>3, <1>4

(* The identifier is of the source, and is not all zeros.                  *)
SourceOK ==
    /\ source \in Source
    /\ checksum \in Shake128
    /\ ~IsIdentifierReserved(source)

(* The bytes that are converted, and their parts.                          *)
LEMMA BytesAre ==
    ASSUME SourceOK
    PROVE  /\ Bytes \in Seq(Carry) /\ Len(Bytes) = 20
           /\ SubSeq(Bytes, 1, 16) = source
           /\ SubSeq(Bytes, 17, 20) = checksum
           /\ LeadingZeros(Bytes) = LeadingZeros(source)
           /\ Len(checksum) = 4
<1>1. source \in Seq(Carry) /\ Len(source) = 16 /\ checksum \in Seq(Carry) /\ Len(checksum) = 4
  BY IdentifierAssumption, Zenon DEF SourceOK, Carry
<1>2. PICK s \in Seq(Carry), t \in Seq(Carry) : s = source /\ t = checksum /\ Len(s) = 16 /\ Len(t) = 4
  BY <1>1
<1>3. Padded(Exported(s)) = s
  BY <1>2, PaddedIs, Zenon
<1>4. Bytes = s \o t
  BY <1>2, <1>3, Zenon DEF Bytes
<1>5. /\ s \o t \in Seq(Carry) /\ Len(s \o t) = 20
      /\ \A k \in 1..16 : (s \o t)[k] = s[k]
      /\ SubSeq(s \o t, 1, 16) = s
      /\ SubSeq(s \o t, 17, 20) = t
  <2>1. s \in Seq(Carry) /\ t \in Seq(Carry) /\ Len(s) = 16 /\ Len(t) = 4
    BY <1>2
  <2>2. s \o t \in Seq(Carry) /\ Len(s \o t) = 20
    BY <2>1, Halves
  <2>3. \A k \in 1..16 : (s \o t)[k] = s[k]
    BY <2>1, Halves
  <2>4. SubSeq(s \o t, 1, 16) = s
    BY <2>1, Halves
  <2>5. SubSeq(s \o t, 17, 20) = t
    BY <2>1, SecondHalf, Zenon
  <2> QED
    BY <2>2, <2>3, <2>4, <2>5, Zenon
<1>6. PICK z : z = LeadingZeros(s)
  OBVIOUS
<1>7. 16 \in Nat /\ 20 \in Nat /\ 16 # 0 /\ 20 # 0 /\ 16 - 1 = 15 /\ 20 - 1 = 19
  BY SMT
<1>8. Leading(s, z)
  BY <1>2, <1>6, <1>7, LeadingIs
<1>9. z \in 0..15 /\ (\A i \in 1..z : s[i] = 0) /\ (z = 15 \/ s[z + 1] # 0)
  BY <1>2, <1>7, <1>8, Zenon DEF Leading
<1>10. s[z + 1] # 0
  <2> SUFFICES ASSUME s[z + 1] = 0 PROVE FALSE
    OBVIOUS
  <2>1. z = 15
    BY <1>9
  <2>2. \A i \in 1..16 : i \in 1..z \/ i = z + 1
    BY <2>1, SMT
  <2>3. \A i \in 1..16 : s[i] = 0
    BY <1>9, <2>2, Zenon
  <2>4. s = [i \in 1..16 |-> 0]
    <3>1. s = [i \in 1..16 |-> s[i]]
      BY <1>2
    <3> QED
      BY <2>3, <3>1, Zenon
  <2> QED
    BY <1>2, <2>4, Zenon DEF SourceOK, IsIdentifierReserved, Zeros, PayloadSize
<1>11. Leading(s \o t, z)
  <2>1. z \in 0..19 /\ z + 1 \in 1..16 /\ \A i \in 1..z : i \in 1..16
    BY <1>9, SMT
  <2> QED
    BY <1>5, <1>7, <1>9, <1>10, <2>1, Zenon DEF Leading
<1>12. LeadingZeros(s \o t) = z
  <2>1. Leading(s \o t, LeadingZeros(s \o t))
    BY <1>5, <1>7, LeadingIs
  <2> QED
    BY <1>5, <1>7, <1>11, <2>1, LeadingIsOne
<1> QED
  BY <1>1, <1>2, <1>4, <1>5, <1>6, <1>12

(* Every text that may arrive is a sequence of numbers that the mapping    *)
(* gives.                                                                  *)
LEMMA DeliveriesAre ==
    ASSUME NEW t \in Seq(0..57), Len(t) # 0, NEW d \in Deliveries(t)
    PROVE  d.payload \in Seq(Carry)
<1>1. t \in Seq(Carry)
  <2>1. PICK n \in Nat : n = Len(t)
    OBVIOUS
  <2>2. t = [k \in 1..n |-> t[k]]
    BY <2>1
  <2>3. \A k \in 1..n : t[k] \in Carry
    <3>1. \A k \in 1..n : t[k] \in 0..57
      BY <2>1, Element, Zenon
    <3>2. \A x \in 0..57 : x \in Carry
      BY SMT DEF Carry
    <3> QED
      BY <3>1, <3>2
  <2>4. t \in [1..n -> Carry]
    BY <2>2, <2>3
  <2> QED
    BY <2>4, FunctionIsSeq, Zenon
<1>2. CASE d.payload = t
  BY <1>1, <1>2
<1>3. CASE d.payload = Front(t)
  <2>1. PICK n \in Nat : n = Len(t)
    OBVIOUS
  <2>2. \A k \in 1..n - 1 : k \in 1..n
    BY SMT
  <2>3. \A k \in 1..n - 1 : t[k] \in Carry
    BY <1>1, <2>1, <2>2, Element, Zenon
  <2>4. 1 \in Int /\ n - 1 \in Int
    BY SMT
  <2>5. SubSeq(t, 1, n - 1) \in Seq(Carry)
    BY <2>3, <2>4, SubSeqProperties
  <2> QED
    BY <1>3, <2>1, <2>5 DEF Front
<1>4. CASE d.payload = <<0>> \o t
  <2>1. <<0>> \in Seq(Carry)
    <3>1. 0 \in Carry
      BY SMT DEF Carry
    <3> QED
      BY <3>1
  <2>2. <<0>> \o t \in Seq(Carry)
    BY <1>1, <2>1, ConcatProperties, Zenon
  <2> QED
    BY <1>4, <2>2
<1>5. ASSUME NEW i \in {1, Len(t)}, NEW c \in {0, 57, Foreign}, d.payload = [t EXCEPT ![i] = c]
      PROVE  d.payload \in Seq(Carry)
  <2>1. c \in Carry
    BY SMT DEF Carry, Foreign
  <2>2. i \in 1..Len(t)
    <3>1. PICK n \in Nat : n = Len(t) /\ n # 0
      OBVIOUS
    <3>2. 1 \in 1..n /\ n \in 1..n
      BY <3>1, SMT
    <3> QED
      BY <3>1, <3>2
  <2>3. [t EXCEPT ![i] = c] \in Seq(Carry)
    BY <1>1, <2>1, <2>2, ExceptSeq, Zenon
  <2> QED
    BY <1>5, <2>3
<1>6. \/ d.payload \in {t, Front(t), <<0>> \o t}
      \/ \E i \in {1, Len(t)}, c \in {0, 57, Foreign} : d.payload = [t EXCEPT ![i] = c]
  <2> DEFINE A == { [metadata |-> TRUE, payload |-> t], [metadata |-> FALSE, payload |-> t],
                    [metadata |-> TRUE, payload |-> Front(t)],
                    [metadata |-> TRUE, payload |-> <<0>> \o t] }
             B == {[metadata |-> TRUE, payload |-> [t EXCEPT ![i] = c]] :
                      i \in {1, Len(t)}, c \in {0, 57, Foreign}}
  <2>1. d \in A \cup B
    BY DEF Deliveries
  <2>2. CASE d \in A
    BY <2>2
  <2>3. CASE d \in B
    <3>1. PICK i \in {1, Len(t)}, c \in {0, 57, Foreign} :
                 d = [metadata |-> TRUE, payload |-> [t EXCEPT ![i] = c]]
      BY <2>3
    <3>2. d.payload = [t EXCEPT ![i] = c]
      BY <3>1, Zenon
    <3> QED
      BY <3>2, Zenon
  <2> HIDE DEF A, B
  <2> QED
    BY <2>1, <2>2, <2>3
<1> QED
  BY <1>2, <1>3, <1>4, <1>5, <1>6

(* Whatever the bytes are, they are the identifier or none: what is not    *)
(* that has not its checksum.                                              *)
LEMMA NoOther ==
    ASSUME SourceOK, NEW metadata, NEW bytes, Len(bytes) \in Int
    PROVE  ConvertToInternalRepresentation(metadata, bytes) \in {source, NoIdentifier}
<1>1. PICK n \in Int : n = Len(bytes)
  OBVIOUS
<1>2. CASE ~(metadata /\ Verified(bytes))
  BY <1>2, Zenon DEF ConvertToInternalRepresentation
<1>3. CASE metadata /\ Verified(bytes)
  <2> DEFINE prefix == SubSeq(bytes, 1, n - 4)
             suffix == SubSeq(bytes, (n - 4) + 1, n)
  <2>1. suffix = ChecksumOf(prefix)
    BY <1>1, <1>3, Zenon DEF Verified, ChecksumSize
  <2>2. Len(suffix) = 4
    <3>1. PICK m \in Int : m = (n - 4) + 1 /\ n - m = 3
      BY SMT
    <3> QED
      BY <3>1, SliceLength
  <2>3. ConvertToInternalRepresentation(metadata, bytes) = Imported(prefix)
    BY <1>1, <1>3, Zenon DEF ConvertToInternalRepresentation, ChecksumSize
  <2> HIDE DEF prefix, suffix
  <2>4. prefix = source
    <3> SUFFICES ASSUME prefix # source PROVE FALSE
      OBVIOUS
    <3>1. suffix = << >>
      BY <2>1, Zenon DEF ChecksumOf
    <3>2. Len(<< >>) # 4
      BY SMT
    <3> QED
      BY <2>2, <3>1, <3>2
  <2> QED
    BY <2>3, <2>4, Zenon DEF Imported
<1> QED
  BY <1>2, <1>3

(* The bytes of the identifier are that.                                   *)
LEMMA ThatOne ==
    ASSUME SourceOK
    PROVE  ConvertToInternalRepresentation(TRUE, Bytes) = source
<1>1. /\ Len(Bytes) = 20 /\ SubSeq(Bytes, 1, 16) = source /\ SubSeq(Bytes, 17, 20) = checksum
  BY BytesAre, Zenon
<1>2. 20 - 4 = 16 /\ 16 + 1 = 17
  BY SMT
<1>3. PICK b : b = Bytes
  OBVIOUS
<1>4. Len(b) - ChecksumSize = 16
  BY <1>1, <1>2, <1>3 DEF ChecksumSize
<1>5. Verified(b)
  BY <1>1, <1>2, <1>3, <1>4 DEF Verified, ChecksumOf
<1>6. Len(source) = PayloadSize
  BY IdentifierAssumption, Zenon DEF SourceOK, PayloadSize
<1> QED
  BY <1>1, <1>3, <1>4, <1>5, <1>6 DEF ConvertToInternalRepresentation, Imported

-------------------------------------------------------------------------------
(* The inductive invariant, by the progress that is made: a conversion     *)
(* stands for what has been taken; the text is that of the bytes; and what *)
(* has been delivered may be read to its end.                              *)
EncodeOK ==
    progress = "Encode" =>
        /\ taken \in 0..Len(Bytes)
        /\ Converting(58, 256, Bytes, taken, indicies)

(* The text, once it is made.                                              *)
TextOK == progress \in {"Deliver", "Decode"} => TextOf(Bytes, text)

(* What may be read of a text that is delivered.                           *)
DecodeOK ==
    progress = "Decode" =>
        /\ delivered.payload \in Seq(Carry)
        /\ taken \in 0..Len(delivered.payload)
        /\ Converting(256, 58, delivered.payload, taken, indicies)
        /\ Len(indicies) <= taken + 1

(* What the other node makes of it.                                        *)
DoneOK ==
    progress = "Done" =>
        /\ container \in {source, NoIdentifier}
        /\ delivered = [metadata |-> TRUE, payload |-> text] => container = source

(* All of it.                                                              *)
IdentifierInv ==
    /\ progress \in {"Encode", "Deliver", "Decode", "Done"}
    /\ SourceOK
    /\ EncodeOK
    /\ TextOK
    /\ DecodeOK
    /\ DoneOK

(* It holds at first, and every step keeps it.                             *)
LEMMA InitInv == IdentifierInit => IdentifierInv
<1> SUFFICES ASSUME IdentifierInit PROVE IdentifierInv
  OBVIOUS
<1>1. progress = "Encode" /\ taken = 0 /\ indicies = <<0>> /\ SourceOK
  BY Zenon DEF IdentifierInit, SourceOK
<1>2. Bytes \in Seq(Carry) /\ Len(Bytes) = 20
  BY <1>1, BytesAre, Zenon
<1>3. Converting(58, 256, Bytes, 0, <<0>>)
  BY <1>2, Conversions, ConvertingBegins, Zenon
<1>4. 0 \in 0..20
  BY SMT
<1> QED
  BY <1>1, <1>2, <1>3, <1>4 DEF IdentifierInv, EncodeOK, TextOK, DecodeOK, DoneOK

(* A byte is taken, or the text is made.                                   *)
LEMMA EncodeInv == IdentifierInv /\ Encode => IdentifierInv'
<1> SUFFICES ASSUME IdentifierInv, Encode PROVE IdentifierInv'
  OBVIOUS
<1>1. /\ progress = "Encode" /\ SourceOK /\ taken \in 0..Len(Bytes)
      /\ Converting(58, 256, Bytes, taken, indicies)
  BY Zenon DEF IdentifierInv, EncodeOK, Encode
<1>2. UNCHANGED <<source, checksum, delivered, container>>
  BY Zenon DEF Encode
<1>3. SourceOK' /\ Bytes' = Bytes
  BY <1>1, <1>2 DEF SourceOK, IsIdentifierReserved, Bytes
<1>4. PICK b : b = Bytes /\ b \in Seq(Carry) /\ Len(b) = 20
  BY <1>1, BytesAre, Zenon
<1>5. CASE taken < Len(Bytes)
  <2>1. /\ indicies' = Add(Bytes[taken + 1], indicies, 256, 58)
        /\ taken' = taken + 1 /\ progress' = "Encode"
    BY <1>1, <1>5, Zenon DEF Encode, CharacterSpace
  <2>2. Converting(58, 256, b, taken + 1, Add(b[taken + 1], indicies, 256, 58))
    <3>1. taken \in 0..Len(b) /\ taken < Len(b) /\ Converting(58, 256, b, taken, indicies)
      BY <1>1, <1>4, <1>5
    <3> QED
      BY <1>4, <3>1, Conversions, ConvertingGoesOn, Zenon
  <2>3. taken + 1 \in 0..20
    BY <1>1, <1>4, <1>5, SMT
  <2>4. EncodeOK'
    BY <1>3, <1>4, <2>1, <2>2, <2>3 DEF EncodeOK
  <2> QED
    BY <1>3, <2>1, <2>4 DEF IdentifierInv, TextOK, DecodeOK, DoneOK
<1>6. CASE ~(taken < Len(Bytes))
  <2>1. text' = Converted(Bytes, indicies) /\ progress' = "Deliver"
    BY <1>6, Zenon DEF Encode
  <2>2. taken = Len(b)
    BY <1>1, <1>4, <1>6, SMT
  <2>3. Len(b) # 0
    BY <1>4
  <2>4. TextOf(b, Converted(b, indicies))
    BY <1>1, <1>4, <2>2, <2>3, BytesToText, Zenon
  <2>5. TextOK'
    BY <1>3, <1>4, <2>1, <2>4 DEF TextOK
  <2> QED
    BY <1>3, <2>1, <2>5 DEF IdentifierInv, EncodeOK, DecodeOK, DoneOK
<1> QED
  BY <1>5, <1>6

(* The text is delivered, as it was or changed.                            *)
LEMMA DeliverInv == IdentifierInv /\ Deliver => IdentifierInv'
<1> SUFFICES ASSUME IdentifierInv, Deliver PROVE IdentifierInv'
  OBVIOUS
<1>1. progress = "Deliver" /\ SourceOK /\ TextOf(Bytes, text)
  BY Zenon DEF IdentifierInv, TextOK, Deliver
<1>2. /\ UNCHANGED <<source, checksum, text, container>>
      /\ progress' = "Decode" /\ taken' = 0 /\ indicies' = <<0>>
      /\ delivered' \in Deliveries(text)
  BY Zenon DEF Deliver
<1>3. SourceOK' /\ Bytes' = Bytes
  BY <1>1, <1>2 DEF SourceOK, IsIdentifierReserved, Bytes
<1>4. text \in Seq(0..57) /\ Len(text) # 0
  <2>1. Bytes \in Seq(Carry) /\ Len(Bytes) = 20
    BY <1>1, BytesAre, Zenon
  <2> QED
    BY <1>1, <2>1, TextLength, Zenon
<1>5. PICK d : d = delivered'
  OBVIOUS
<1>6. d.payload \in Seq(Carry)
  BY <1>2, <1>4, <1>5, DeliveriesAre
<1>7. Converting(256, 58, d.payload, 0, <<0>>) /\ Len(<<0>>) = 1
  BY <1>6, Conversions, ConvertingBegins, Zenon
<1>8. 0 \in 0..Len(d.payload) /\ 1 <= 0 + 1
  <2>1. PICK n \in Nat : n = Len(d.payload)
    BY <1>6
  <2>2. 0 \in 0..n /\ 1 <= 0 + 1
    BY SMT
  <2> QED
    BY <2>1, <2>2
<1>9. DecodeOK'
  BY <1>2, <1>5, <1>6, <1>7, <1>8 DEF DecodeOK
<1>10. TextOK'
  BY <1>1, <1>2, <1>3 DEF TextOK
<1> QED
  BY <1>2, <1>3, <1>9, <1>10 DEF IdentifierInv, EncodeOK, DoneOK

(* What Converted gives has a length, of any sequence and digits.          *)
LEMMA ConvertedHasLength ==
    ASSUME NEW s \in Seq(Carry), NEW digits \in Seq(Carry)
    PROVE  Len(Converted(s, digits)) \in Int
<1>1. Converted(s, digits) =
        Zeros(LeadingZeros(s)) \o [k \in 1..Len(digits) |-> digits[(Len(digits) - k) + 1]]
  BY ReverseIs, Zenon
<1>2. Zeros(LeadingZeros(s)) \in Seq(Nat)
  <2>1. CASE Len(s) # 0
    <3>1. PICK n \in Nat : n = Len(s) /\ n # 0
      BY <2>1
    <3>2. PICK z \in Nat : z = LeadingZeros(s)
      BY <3>1, ZerosOf
    <3>3. [i \in 1..z |-> 0] \in Seq(Nat)
      OBVIOUS
    <3> QED
      BY <3>2, <3>3 DEF Zeros
  <2>2. CASE Len(s) = 0
    <3>1. LeadingZeros(s) = -1
      <4>1. 0 - 1 = -1 /\ ~(\E i \in 1..0 - 1 : s[i] # 0)
        BY SMT
      <4> QED
        BY <2>2, <4>1 DEF LeadingZeros
    <3>2. 1..-1 = 1..0
      BY SMT
    <3>3. [i \in 1..0 |-> 0] \in Seq(Nat)
      <4>1. 0 \in Nat
        OBVIOUS
      <4>2. [i \in 1..0 |-> 0] \in [1..0 -> Nat]
        OBVIOUS
      <4> QED
        BY <4>1, <4>2, FunctionIsSeq
    <3> QED
      BY <3>1, <3>2, <3>3 DEF Zeros
  <2> QED
    BY <2>1, <2>2
<1>3. PICK n \in Nat : n = Len(digits)
  OBVIOUS
<1>4. [k \in 1..n |-> digits[(n - k) + 1]] \in Seq(Nat)
  <2>1. \A k \in 1..n : (n - k) + 1 \in 1..n
    BY SMT
  <2>2. \A k \in 1..n : digits[(n - k) + 1] \in Carry
    BY <1>3, <2>1, Element, Zenon
  <2>3. \A x \in Carry : x \in Nat
    BY SMT DEF Carry
  <2>4. [k \in 1..n |-> digits[(n - k) + 1]] \in [1..n -> Nat]
    BY <2>2, <2>3
  <2> QED
    BY <2>4, FunctionIsSeq, Zenon
<1>5. Converted(s, digits) \in Seq(Nat)
  BY <1>1, <1>2, <1>3, <1>4, ConcatProperties
<1> QED
  BY <1>5

(* A character is taken, or the text is read.                              *)
LEMMA DecodeInv == IdentifierInv /\ Decode => IdentifierInv'
<1> SUFFICES ASSUME IdentifierInv, Decode PROVE IdentifierInv'
  OBVIOUS
<1>1. /\ progress = "Decode" /\ SourceOK /\ TextOf(Bytes, text)
      /\ delivered.payload \in Seq(Carry)
      /\ taken \in 0..Len(delivered.payload)
      /\ Converting(256, 58, delivered.payload, taken, indicies)
      /\ Len(indicies) <= taken + 1
  BY Zenon DEF IdentifierInv, DecodeOK, TextOK, Decode
<1>2. UNCHANGED <<source, checksum, text, delivered>>
  BY Zenon DEF Decode
<1>3. SourceOK' /\ Bytes' = Bytes /\ delivered'.payload = delivered.payload
  BY <1>1, <1>2 DEF SourceOK, IsIdentifierReserved, Bytes
<1>4. PICK s \in Seq(Carry) : s = delivered.payload
  BY <1>1
<1>5. PICK n \in Nat : n = Len(s)
  OBVIOUS
<1>6. PICK t \in 0..n : t = taken
  BY <1>1, <1>4, <1>5
<1>7. indicies \in Seq(Carry) /\ Len(indicies) \in Nat
  <2>1. indicies \in Seq(0..256 - 1)
    BY <1>1, Zenon DEF Converting, Stands
  <2>2. 256 - 1 = 255
    BY SMT
  <2>3. indicies \in Seq(Carry)
    BY <2>1, <2>2 DEF Carry
  <2> QED
    BY <2>3
<1>8. CASE taken < Len(delivered.payload)
  <2>1. /\ indicies' = Add(s[t + 1], indicies, 58, 256)
        /\ taken' = t + 1 /\ progress' = "Decode"
    BY <1>1, <1>4, <1>6, <1>8, Zenon DEF Decode, CharacterSpace
  <2>2. PICK d : d = Add(s[t + 1], indicies, 58, 256)
    OBVIOUS
  <2>3. Converting(256, 58, s, t + 1, d) /\ Len(d) <= Len(indicies) + 1
    <3>1. t \in 0..Len(s) /\ t < Len(s) /\ Converting(256, 58, s, t, indicies)
      BY <1>1, <1>4, <1>5, <1>6, <1>8
    <3>2. /\ Converting(256, 58, s, t + 1, Add(s[t + 1], indicies, 58, 256))
          /\ Len(Add(s[t + 1], indicies, 58, 256)) <= Len(indicies) + 1
      <4>1. PICK base, factor : Conversion(base, factor) /\ base = 256 /\ factor = 58
        BY Conversions, Zenon
      <4>2. /\ s \in Seq(Carry) /\ t \in 0..Len(s) /\ t < Len(s)
            /\ Converting(base, factor, s, t, indicies)
        BY <3>1, <4>1
      <4>3. /\ Converting(base, factor, s, t + 1, Add(s[t + 1], indicies, factor, base))
            /\ base = 256 => Len(Add(s[t + 1], indicies, factor, base)) <= Len(indicies) + 1
        BY <4>1, <4>2, ConvertingGoesOn
      <4> QED
        BY <4>1, <4>3
    <3> QED
      BY <2>2, <3>2
  <2>4. t + 1 \in 0..n
    BY <1>4, <1>5, <1>6, <1>8, SMT
  <2>5. Len(d) <= (t + 1) + 1
    <3>1. PICK m \in Nat : m = Len(d)
      <4>1. d \in Seq(0..256 - 1)
        BY <2>3, Zenon DEF Converting, Stands
      <4> QED
        BY <4>1
    <3>2. PICK k \in Nat : k = Len(indicies)
      BY <1>7
    <3>3. k <= t + 1 /\ m <= k + 1
      BY <1>1, <1>6, <2>3, <3>1, <3>2
    <3> QED
      BY <3>1, <3>3, SMT
  <2>6. DecodeOK'
    BY <1>3, <1>4, <1>5, <2>1, <2>2, <2>3, <2>4, <2>5 DEF DecodeOK
  <2>7. TextOK'
    BY <1>1, <1>2, <1>3 DEF TextOK
  <2> QED
    BY <1>3, <2>1, <2>6, <2>7 DEF IdentifierInv, EncodeOK, DoneOK
<1>9. CASE ~(taken < Len(delivered.payload))
  <2>1. /\ container' = ConvertToInternalRepresentation(delivered.metadata, Converted(s, indicies))
        /\ progress' = "Done"
    BY <1>4, <1>9, Zenon DEF Decode, SetupFromNetworkRepresentation
  <2>2. container' \in {source, NoIdentifier}
    <3>1. Len(Converted(s, indicies)) \in Int
      BY <1>7, ConvertedHasLength, Zenon
    <3> QED
      BY <1>1, <2>1, <3>1, NoOther, Zenon
  <2>3. ASSUME delivered = [metadata |-> TRUE, payload |-> text] PROVE container' = source
    <3>1. delivered.metadata = TRUE /\ s = text
      BY <1>4, <2>3
    <3>2. t = Len(s)
      BY <1>4, <1>5, <1>6, <1>9, SMT
    <3>3. Converting(256, 58, text, Len(text), indicies)
      BY <1>1, <1>4, <1>6, <3>1, <3>2
    <3>4. PICK b : b = Bytes /\ b \in Seq(Carry) /\ Len(b) = 20
      BY <1>1, BytesAre, Zenon
    <3>5. Converted(text, indicies) = b
      <4>1. Len(b) # 0
        BY <3>4
      <4> QED
        BY <1>1, <3>3, <3>4, <4>1, TextToBytes, Zenon
    <3>6. ConvertToInternalRepresentation(TRUE, b) = source
      BY <1>1, <3>4, ThatOne
    <3> QED
      BY <2>1, <3>1, <3>5, <3>6
  <2>4. DoneOK'
    BY <1>2, <2>2, <2>3 DEF DoneOK
  <2> QED
    BY <1>3, <2>1, <2>4 DEF IdentifierInv, EncodeOK, TextOK, DecodeOK
<1> QED
  BY <1>8, <1>9

(* Nothing happens.                                                        *)
LEMMA StutterInv == IdentifierInv /\ UNCHANGED conversion => IdentifierInv'
<1> SUFFICES ASSUME IdentifierInv, UNCHANGED conversion PROVE IdentifierInv'
  OBVIOUS
<1>1. UNCHANGED <<progress, source, checksum, indicies, taken, text, delivered, container>>
  BY Zenon DEF conversion
<1>2. Bytes' = Bytes
  BY <1>1 DEF Bytes
<1> QED
  BY <1>1, <1>2 DEF IdentifierInv, SourceOK, IsIdentifierReserved, EncodeOK, TextOK, DecodeOK, DoneOK

(* It is stronger than what is checked.                                    *)
LEMMA InvRoundTrips == IdentifierInv => IdentifierRoundTrips
<1> SUFFICES ASSUME IdentifierInv PROVE IdentifierRoundTrips
  OBVIOUS
<1>1. SourceOK
  BY DEF IdentifierInv
<1>2. PICK b : b = Bytes /\ b \in Seq(Carry) /\ Len(b) = 20 /\ LeadingZeros(b) = LeadingZeros(source)
  BY <1>1, BytesAre, Zenon
<1>3. ASSUME progress = "Encode" PROVE Len(indicies) <= ResultSize(PayloadSize + ChecksumSize)
  <2>1. Converting(58, 256, b, taken, indicies) /\ taken \in 0..20
    BY <1>2, <1>3 DEF IdentifierInv, EncodeOK
  <2>2. PICK h : Value(256, b, h) /\ Stands(58, indicies, h[taken])
    BY <2>1, Zenon DEF Converting
  <2>3. 20 \in Nat /\ b \in Seq(0..255)
    BY <1>2 DEF Carry
  <2>4. PICK q : Powers(256, 20, q)
    BY <2>3, Conversions, PowersExist, Zenon
  <2>5. h[taken] < q[taken] /\ h[taken] \in Nat
    BY <1>2, <2>1, <2>2, <2>3, <2>4, ValueBelow, Zenon
  <2>6. Len(indicies) <= taken + 8
    BY <2>1, <2>2, <2>4, <2>5, EightMore, Zenon
  <2>7. PICK m \in Nat : m = Len(indicies)
    BY <2>2 DEF Stands
  <2>8. ResultSize(PayloadSize + ChecksumSize) = 28
    BY SMT DEF ResultSize, PayloadSize, ChecksumSize
  <2> QED
    BY <2>1, <2>6, <2>7, <2>8, SMT
<1>4. ASSUME progress = "Decode" PROVE Len(indicies) <= ResultSize(Len(delivered.payload))
  <2>1. /\ delivered.payload \in Seq(Carry) /\ taken \in 0..Len(delivered.payload)
        /\ Converting(256, 58, delivered.payload, taken, indicies)
        /\ Len(indicies) <= taken + 1
    BY <1>4 DEF IdentifierInv, DecodeOK
  <2>2. PICK n \in Nat : n = Len(delivered.payload)
    BY <2>1
  <2>3. PICK m \in Nat : m = Len(indicies)
    <3>1. indicies \in Seq(0..256 - 1)
      BY <2>1, Zenon DEF Converting, Stands
    <3> QED
      BY <3>1
  <2>4. m <= n + 1
    BY <2>1, <2>2, <2>3, SMT
  <2>5. m <= ResultSize(n)
    BY <2>4, SMT DEF ResultSize
  <2> QED
    BY <2>2, <2>3, <2>5
<1>5. ASSUME progress = "Deliver"
      PROVE  /\ MetadataSize + Len(text) <= MaximumTextLength
             /\ LeadingZeros(source) < 3 => MetadataSize + Len(text) >= MinimumTextLength
  <2>1. TextOf(b, text)
    BY <1>2, <1>5 DEF IdentifierInv, TextOK
  <2>2. /\ text \in Seq(0..57) /\ Len(text) <= 28
        /\ LeadingZeros(b) < 3 => Len(text) >= 26
    BY <1>2, <2>1, TextLength, Zenon
  <2>3. PICK n \in Nat : n = Len(text)
    BY <2>2
  <2>4. n <= 28 /\ (LeadingZeros(source) < 3 => n >= 26)
    BY <1>2, <2>2, <2>3
  <2>5. 5 + n <= 33 /\ (n >= 26 => 5 + n >= 31)
    BY <2>4, SMT
  <2> QED
    BY <2>3, <2>4, <2>5 DEF MetadataSize, MaximumTextLength, MinimumTextLength
<1>6. DoneOK
  BY DEF IdentifierInv
<1> QED
  BY <1>3, <1>4, <1>5, <1>6 DEF IdentifierRoundTrips, DoneOK

(* Whatever the identifier, its checksum and what becomes of its text: the *)
(* text as it was sent names that identifier and no text another, and no   *)
(* conversion needs more room than it has.                                 *)
THEOREM IdentifiersSurvive == IdentifierSpec => []IdentifierRoundTrips
<1>1. IdentifierInv /\ [IdentifierNext]_conversion => IdentifierInv'
  BY EncodeInv, DeliverInv, DecodeInv, StutterInv, Zenon DEF IdentifierNext
<1> QED
  BY InitInv, InvRoundTrips, <1>1, PTL DEF IdentifierSpec

===============================================================================
