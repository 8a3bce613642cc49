---------------------------- MODULE PeerLocksProofs ----------------------------
(***************************************************************************)
(* What the locking promises for every number of peers.                    *)
(*                                                                         *)
(* A call is a sequence of steps, so what is proved of it is proved of its *)
(* parts: a part is safe from one point of a call to another, and parts    *)
(* that are safe in a row are safe together.  That the threads keep to     *)
(* their calls is the inductive invariant, and the properties follow from  *)
(* what a step that comes next may be.                                     *)
(***************************************************************************)
EXTENDS PeerLocks, SequenceTheorems, TLAPS

(* In place of a peer where there is none.                                 *)
NoPeer == CHOOSE p : p \notin Peer

(* What a thread holds: a mutex, alone or with others that share it.       *)
Entry == [mutex : Mutex, shared : BOOLEAN]
Unshared(m) == [mutex |-> m, shared |-> FALSE]
Shared(m) == [mutex |-> m, shared |-> TRUE]

(***************************************************************************)
(* What is the case at a point of a call, whatever other threads do: the   *)
(* mutexes held, peers that are linked, the peer that is being linked, the *)
(* peer whose processor the thread is in, whether it stops a session, and  *)
(* those of its own sessions that last.                                    *)
(***************************************************************************)
Point ==
    [ locks : Seq(Entry), known : SUBSET Peer, new : Peer \cup {NoPeer},
      inside : Peer \cup {NoPeer}, stopping : BOOLEAN, live : SUBSET Connection ]

(* A mutex is among those held, and held alone.                            *)
Has(locks, m) == \E k \in DOMAIN locks : locks[k].mutex = m
Alone(locks, m) == \E k \in DOMAIN locks : locks[k] = Unshared(m)

(* The order in which mutexes are taken.                                   *)
Rank(m) ==
    CASE m[1] = "resolving" -> 0
      [] m[1] = "peers" -> 1
      [] m[1] = "attached" -> 2
      [] m[1] = "registrations" -> 3
      [] m[1] = "receiver" -> 4
      [] m[1] = "security" -> 5
      [] m[1] = "connections" -> 6

(* All that is held ranks below.                                           *)
Below(locks, rank) == \A k \in DOMAIN locks : Rank(locks[k].mutex) < rank

OfPeer(m, p) == m \in {Attached(p), Registrations(p), Receiver(p), Security(p)}

(* The mutexes of a peer are taken when it is linked, or by the thread that *)
(* links it under the mutex of all peers; that of the addresses by one      *)
(* thread only.                                                            *)
Taken(t, c, m) ==
    /\ m \in Mutex
    /\ m = Resolving => t = "client"
    /\ \A p \in Peer : OfPeer(m, p) => p \in c.known \cup {c.new}

(* The mutexes held can be held, those of a peer that is being linked      *)
(* under that of all peers, and the receiver of the peer whose processor   *)
(* runs alone.                                                             *)
Sound(t, c) ==
    /\ c \in Point
    /\ \A k \in DOMAIN c.locks :
           /\ Taken(t, c, c.locks[k].mutex)
           /\ c.locks[k].shared => c.locks[k].mutex = Peers
    /\ c.new # NoPeer => Alone(c.locks, Peers)
    /\ c.inside # NoPeer => Alone(c.locks, Receiver(c.inside))
    /\ \A x \in c.live : x[1] = t

(* A mutex is taken again, or after those that rank below it, but for those *)
(* that nobody else has and for the thread that stops a session.           *)
CanTake(t, c, m) ==
    /\ Taken(t, c, m)
    /\ \/ Has(c.locks, m) /\ Recursive(m)
       \/ ~Has(c.locks, m) /\ (m = Resolving \/ (c.new # NoPeer /\ OfPeer(m, c.new)))
       \/ Below(c.locks, Rank(m))
       \/ c.stopping

(* What LinkPeer and OnMessageReceived access without the mutex.           *)
Unlocked(t, c, container) ==
    \/ container = Resolving /\ Has(c.locks, Peers)
    \/ t \in Endpoint /\ container = Connections(t)

(* Between calls, nothing is under way that others must not interrupt.     *)
Settled(c) == c.new = NoPeer /\ c.inside = NoPeer /\ ~c.stopping

(* The steps that may come next at a point of a call.                      *)
May(t, c, step) ==
    \/ step.act = "take" /\ CanTake(t, c, step.on)
    \/ step.act = "share" /\ step.on = Peers /\ c.locks = <<>>
    \/ step.act = "drop" /\ c.locks # <<>>
    \/ step.act = "read" /\ (Has(c.locks, step.on) \/ Unlocked(t, c, step.on))
    \/ step.act = "write" /\ (Alone(c.locks, step.on) \/ Unlocked(t, c, step.on))
    \/ step.act = "return" /\ step.on \in Peer /\ c.inside = step.on
    \/ step.act = "destroy" /\ step.on \in Peer /\ Alone(c.locks, Receiver(step.on))
    \/ /\ step.act = "link" /\ Settled(c) /\ t \in Endpoint
       /\ \E p \in Peer : step.on = <<t, p>>
       /\ c.locks = <<Unshared(Peers)>>
    \/ /\ step.act = "collect" /\ Settled(c) /\ t \in Endpoint
       /\ \E p \in c.known :
             /\ step.on = <<t, p>>
             /\ c.locks = <<Unshared(Registrations(p)), Unshared(Receiver(p))>>
    \/ /\ step.act = "each" /\ Settled(c)
       /\ step.on \in SUBSET Peer
       /\ c.locks = <<Shared(Peers)>>
    \/ step.act \in {"declare", "undeclare", "none", "exchange"} /\ step.on \in Peer
    \/ step.act = "track" /\ step.on \in Peer /\ c.new = step.on
    \/ step.act = "authorized" /\ step.on \in c.known
    \/ step.act \in {"start", "stop"} /\ step.on \in Connection /\ step.on[1] = t
    \/ step.act = "promote" /\ step.on \in c.live /\ step.on[2] \in c.known

(* What a step makes of a point, for the next to rely on.                  *)
LocksAfter(locks, step) ==
    CASE step.act = "take" -> Append(locks, Unshared(step.on))
      [] step.act = "share" -> Append(locks, Shared(step.on))
      [] step.act = "drop" -> SubSeq(locks, 1, Len(locks) - 1)
      [] OTHER -> locks

KnownAfter(known, step) ==
    CASE step.act = "link" -> known \cup {step.on[2]}
      [] step.act = "track" -> known \cup {step.on}
      [] OTHER -> known

(* A step leads from a point to a point.                                   *)
Leads(t, c, step, d) ==
    /\ May(t, c, step)
    /\ Sound(t, d)
    /\ d.locks = LocksAfter(c.locks, step)
    /\ d.known \subseteq KnownAfter(c.known, step)
    /\ d.new = IF step.act = "track" THEN NoPeer ELSE c.new
    /\ d.inside = IF step.act = "return" THEN NoPeer ELSE c.inside
    /\ d.stopping = (c.stopping /\ step.act # "stop")
    /\ d.live \subseteq IF step.act = "stop" THEN c.live \ {step.on} ELSE c.live

(***************************************************************************)
(* A part of a call is safe if it leads from point to point; a processor   *)
(* is only left on the way, and it is a stop that ends the stopping.       *)
(***************************************************************************)
Safe(t, c, part, d) ==
    /\ Sound(t, c)
    /\ \E S : part \in Seq(S)
    /\ \E path :
          /\ path[1] = c
          /\ path[Len(part) + 1] = d
          /\ \A k \in 1..Len(part) : Leads(t, path[k], part[k], path[k + 1])
          /\ \A j, k \in 1..(Len(part) + 1) :
                 j <= k => path[k].inside \in {path[j].inside, NoPeer}
    /\ c.stopping => (d.stopping \/ \E k \in 1..Len(part) : part[k].act = "stop")

-------------------------------------------------------------------------------
(***************************************************************************)
(* Lemmas about the mutexes.                                               *)
(***************************************************************************)
LEMMA NoPeerIsNone == NoPeer \notin Peer
BY NoSetContainsEverything DEF NoPeer

(* Which mutexes there are, and how they rank.                             *)
LEMMA Ranks ==
    /\ Peers \in Mutex /\ Rank(Peers) = 1
    /\ Resolving \in Mutex /\ Rank(Resolving) = 0
    /\ \A e \in Endpoint : Connections(e) \in Mutex /\ Rank(Connections(e)) = 6
    /\ \A p \in Peer :
          /\ Attached(p) \in Mutex /\ Rank(Attached(p)) = 2
          /\ Registrations(p) \in Mutex /\ Rank(Registrations(p)) = 3
          /\ Receiver(p) \in Mutex /\ Rank(Receiver(p)) = 4
          /\ Security(p) \in Mutex /\ Rank(Security(p)) = 5
    /\ \A m \in Mutex : Rank(m) \in 0..6
<1>1. Rank(Peers) = 1 /\ Rank(Resolving) = 0
  BY DEF Rank, Peers, Resolving
<1>2. \A e : Rank(Connections(e)) = 6
  BY DEF Rank, Connections
<1>3. \A p : /\ Rank(Attached(p)) = 2 /\ Rank(Registrations(p)) = 3
             /\ Rank(Receiver(p)) = 4 /\ Rank(Security(p)) = 5
  BY DEF Rank, Attached, Registrations, Receiver, Security
<1>4. /\ Peers \in Mutex /\ Resolving \in Mutex
      /\ \A e \in Endpoint : Connections(e) \in Mutex
      /\ \A p \in Peer : /\ Attached(p) \in Mutex /\ Registrations(p) \in Mutex
                         /\ Receiver(p) \in Mutex /\ Security(p) \in Mutex
  BY DEF Mutex
<1>5. ASSUME NEW m \in Mutex
      PROVE  \/ m \in {Peers, Resolving}
             \/ \E e \in Endpoint : m = Connections(e)
             \/ \E p \in Peer : m \in {Registrations(p), Receiver(p), Attached(p), Security(p)}
  BY DEF Mutex
<1>6. \A m \in Mutex : Rank(m) \in 0..6
  BY <1>1, <1>2, <1>3, <1>5
<1> QED
  BY <1>1, <1>2, <1>3, <1>4, <1>6

(* Which of them are of a peer.                                            *)
LEMMA Owners ==
    /\ \A q : ~OfPeer(Peers, q) /\ ~OfPeer(Resolving, q)
    /\ \A e, q : ~OfPeer(Connections(e), q)
    /\ \A p, q : /\ OfPeer(Attached(p), q) <=> q = p
                 /\ OfPeer(Registrations(p), q) <=> q = p
                 /\ OfPeer(Receiver(p), q) <=> q = p
                 /\ OfPeer(Security(p), q) <=> q = p
BY DEF OfPeer, Peers, Resolving, Connections, Attached, Registrations, Receiver, Security

(* Which mutexes a thread may take again.                                  *)
LEMMA Recursions ==
    /\ Recursive(Resolving)
    /\ \A p : Recursive(Registrations(p)) /\ Recursive(Receiver(p))
BY DEF Recursive, Peers, Resolving, Registrations, Receiver, Security


(***************************************************************************)
(* Lemmas about parts of calls.                                            *)
(***************************************************************************)

(* Parts in a row are safe together.                                       *)
LEMMA Compose ==
    ASSUME NEW t, NEW c, NEW s1, NEW m, NEW s2, NEW d, Safe(t, c, s1, m), Safe(t, m, s2, d)
    PROVE  Safe(t, c, s1 \o s2, d)
<1>1. PICK S1, p1 : /\ s1 \in Seq(S1)
                    /\ p1[1] = c /\ p1[Len(s1) + 1] = m
                    /\ \A k \in 1..Len(s1) : Leads(t, p1[k], s1[k], p1[k + 1])
                    /\ \A j, k \in 1..(Len(s1) + 1) :
                           j <= k => p1[k].inside \in {p1[j].inside, NoPeer}
  BY DEF Safe
<1>2. PICK S2, p2 : /\ s2 \in Seq(S2)
                    /\ p2[1] = m /\ p2[Len(s2) + 1] = d
                    /\ \A k \in 1..Len(s2) : Leads(t, p2[k], s2[k], p2[k + 1])
                    /\ \A j, k \in 1..(Len(s2) + 1) :
                           j <= k => p2[k].inside \in {p2[j].inside, NoPeer}
  BY DEF Safe
<1> DEFINE S == S1 \cup S2
           s == s1 \o s2
           n1 == Len(s1)
           n2 == Len(s2)
           path == [k \in 1..(n1 + n2 + 1) |-> IF k <= n1 THEN p1[k] ELSE p2[k - n1]]
<1>3. s1 \in Seq(S) /\ s2 \in Seq(S)
  BY <1>1, <1>2, SeqMonotonic, Zenon DEF S
<1>4. /\ s \in Seq(S) /\ Len(s) = n1 + n2
      /\ \A k \in 1..(n1 + n2) : s[k] = IF k <= n1 THEN s1[k] ELSE s2[k - n1]
  BY <1>3, ConcatProperties
<1>5. n1 \in Nat /\ n2 \in Nat
  BY <1>3, LenProperties
<1> HIDE DEF S, s, n1, n2
<1>6. /\ \A k \in 1..(n1 + 1) : path[k] = p1[k]
      /\ \A k \in (n1 + 1)..(n1 + n2 + 1) : path[k] = p2[k - n1]
  BY <1>1, <1>2, <1>5 DEF n1, n2
<1> HIDE DEF path
<1>7. path[1] = c /\ path[n1 + n2 + 1] = d
  <2>1. 1 \in 1..(n1 + 1)
    BY <1>5
  <2>2. n1 + n2 + 1 \in (n1 + 1)..(n1 + n2 + 1) /\ (n1 + n2 + 1) - n1 = n2 + 1
    BY <1>5
  <2> QED
    BY <1>1, <1>2, <1>6, <2>1, <2>2 DEF n2
<1>8. ASSUME NEW k \in 1..(n1 + n2)
      PROVE  Leads(t, path[k], s[k], path[k + 1])
  <2>1. CASE k <= n1
    BY <1>1, <1>4, <1>5, <1>6, <2>1 DEF n1
  <2>2. CASE ~(k <= n1)
    <3>1. k - n1 \in 1..n2 /\ (k + 1) - n1 = (k - n1) + 1
      BY <1>5, <2>2
    <3>2. path[k] = p2[k - n1] /\ path[k + 1] = p2[(k - n1) + 1]
      BY <1>5, <1>6, <2>2, <3>1
    <3> QED
      BY <1>2, <1>4, <2>2, <3>1, <3>2 DEF n2
  <2> QED
    BY <2>1, <2>2
<1>9. ASSUME NEW j \in 1..(n1 + n2 + 1), NEW k \in 1..(n1 + n2 + 1), j <= k
      PROVE  path[k].inside \in {path[j].inside, NoPeer}
  <2>1. CASE k <= n1 + 1
    BY <1>1, <1>5, <1>6, <1>9, <2>1 DEF n1
  <2>2. CASE j >= n1 + 1
    <3>1. j - n1 \in 1..(n2 + 1) /\ k - n1 \in 1..(n2 + 1) /\ j - n1 <= k - n1
      BY <1>5, <1>9, <2>2
    <3>2. path[j] = p2[j - n1] /\ path[k] = p2[k - n1]
      BY <1>5, <1>6, <1>9, <2>2
    <3> QED
      BY <1>2, <3>1, <3>2 DEF n2
  <2>3. CASE j < n1 + 1 /\ k > n1 + 1
    <3>1. j \in 1..(n1 + 1) /\ n1 + 1 \in 1..(n1 + 1) /\ j <= n1 + 1 /\ path[j] = p1[j]
      BY <1>5, <1>6, <2>3
    <3>2. m.inside \in {path[j].inside, NoPeer}
      BY <1>1, <3>1 DEF n1
    <3>3. k - n1 \in 1..(n2 + 1) /\ 1 \in 1..(n2 + 1) /\ 1 <= k - n1 /\ path[k] = p2[k - n1]
      BY <1>5, <1>6, <2>3
    <3>4. path[k].inside \in {m.inside, NoPeer}
      BY <1>2, <3>3 DEF n2
    <3> QED
      BY <3>2, <3>4
  <2> QED
    BY <1>5, <2>1, <2>2, <2>3
<1>10. ASSUME c.stopping PROVE d.stopping \/ \E k \in 1..Len(s) : s[k].act = "stop"
  <2>1. CASE m.stopping
    <3>1. CASE d.stopping
      BY <3>1
    <3>2. CASE \E k \in 1..n2 : s2[k].act = "stop"
      <4>1. PICK k \in 1..n2 : s2[k].act = "stop"
        BY <3>2
      <4>2. k + n1 \in 1..(n1 + n2) /\ ~(k + n1 <= n1) /\ (k + n1) - n1 = k
        BY <1>5
      <4> QED
        BY <1>4, <4>1, <4>2
    <3> QED
      BY <2>1, <3>1, <3>2 DEF Safe, n2
  <2>2. CASE \E k \in 1..n1 : s1[k].act = "stop"
    <3>1. PICK k \in 1..n1 : s1[k].act = "stop"
      BY <2>2
    <3>2. k \in 1..(n1 + n2) /\ k <= n1
      BY <1>5
    <3> QED
      BY <1>4, <3>1, <3>2
  <2> QED
    BY <1>10, <2>1, <2>2 DEF Safe, n1
<1>11. Sound(t, c) /\ \E T : s \in Seq(T)
  BY <1>4 DEF Safe
<1>12. Safe(t, c, s, d)
  BY <1>4, <1>7, <1>8, <1>9, <1>10, <1>11 DEF Safe
<1> QED
  BY <1>12 DEF s

(* Nothing is safe, and a step is that leads on.                           *)
LEMMA Nothing ==
    ASSUME NEW t, NEW c, Sound(t, c)
    PROVE  Safe(t, c, <<>>, c)
<1> DEFINE path == [k \in 1..1 |-> c]
<1>1. <<>> \in Seq({}) /\ Len(<<>>) = 0
  OBVIOUS
<1>2. path[1] = c /\ \A j, k \in 1..1 : path[k] = path[j]
  OBVIOUS
<1> HIDE DEF path
<1> QED
  BY <1>1, <1>2 DEF Safe

(* A step that may come next is a safe part.                               *)
LEMMA One ==
    ASSUME NEW t, NEW c, NEW step, NEW d, Sound(t, c), Leads(t, c, step, d)
    PROVE  Safe(t, c, <<step>>, d)
<1> DEFINE path == [k \in 1..2 |-> IF k = 1 THEN c ELSE d]
<1>1. <<step>> \in Seq({step}) /\ Len(<<step>>) = 1 /\ <<step>>[1] = step
  OBVIOUS
<1>2. path[1] = c /\ path[2] = d
  OBVIOUS
<1> HIDE DEF path
<1>3. d.inside \in {c.inside, NoPeer} /\ d.stopping = (c.stopping /\ step.act # "stop")
  BY DEF Leads
<1>4. \A j, k \in 1..2 : j <= k => path[k].inside \in {path[j].inside, NoPeer}
  BY <1>2, <1>3
<1>5. \A k \in 1..1 : Leads(t, path[k], <<step>>[k], path[k + 1])
  BY <1>1, <1>2
<1>6. c.stopping => (d.stopping \/ \E k \in 1..1 : <<step>>[k].act = "stop")
  <2>1. 1 \in 1..1
    OBVIOUS
  <2> QED
    BY <1>1, <1>3, <2>1
<1>7. Sound(t, c) /\ \E S : <<step>> \in Seq(S)
  BY <1>1
<1> QED
  BY <1>1, <1>2, <1>4, <1>5, <1>6, <1>7 DEF Safe

(* A safe part begins with a step that leads to the rest.                  *)
LEMMA First ==
    ASSUME NEW t, NEW c, NEW part, NEW d, Safe(t, c, part, d), part # <<>>
    PROVE  \E m : Leads(t, c, Head(part), m) /\ Safe(t, m, Tail(part), d)
<1>1. PICK S, path : /\ part \in Seq(S)
                     /\ path[1] = c /\ path[Len(part) + 1] = d
                     /\ \A k \in 1..Len(part) : Leads(t, path[k], part[k], path[k + 1])
                     /\ \A j, k \in 1..(Len(part) + 1) :
                           j <= k => path[k].inside \in {path[j].inside, NoPeer}
  BY DEF Safe
<1> DEFINE n == Len(part)
           rest == Tail(part)
           after == [k \in 1..n |-> path[k + 1]]
<1>2. /\ n \in Nat \ {0} /\ Head(part) = part[1]
      /\ rest \in Seq(S) /\ Len(rest) = n - 1
      /\ \A k \in 1..(n - 1) : rest[k] = part[k + 1]
  BY <1>1, HeadTailProperties
<1> HIDE DEF n, rest
<1>3. \A k \in 1..n : after[k] = path[k + 1]
  OBVIOUS
<1> HIDE DEF after
<1>4. Leads(t, c, Head(part), after[1])
  BY <1>1, <1>2, <1>3 DEF n
<1>5. Sound(t, after[1])
  BY <1>4 DEF Leads
<1>6. after[(n - 1) + 1] = d
  BY <1>1, <1>2, <1>3 DEF n
<1>7. ASSUME NEW k \in 1..(n - 1) PROVE Leads(t, after[k], rest[k], after[k + 1])
  <2>1. k + 1 \in 1..n /\ k \in 1..n /\ (k + 1) + 1 = k + 2
    BY <1>2
  <2> QED
    BY <1>1, <1>2, <1>3, <2>1 DEF n
<1>8. ASSUME NEW j \in 1..((n - 1) + 1), NEW k \in 1..((n - 1) + 1), j <= k
      PROVE  after[k].inside \in {after[j].inside, NoPeer}
  <2>1. j \in 1..n /\ k \in 1..n /\ j + 1 \in 1..(n + 1) /\ k + 1 \in 1..(n + 1) /\ j + 1 <= k + 1
    BY <1>2, <1>8
  <2> QED
    BY <1>1, <1>3, <2>1 DEF n
<1>9. ASSUME after[1].stopping PROVE d.stopping \/ \E k \in 1..(n - 1) : rest[k].act = "stop"
  <2>1. c.stopping /\ part[1].act # "stop"
    BY <1>2, <1>4, <1>9 DEF Leads
  <2>2. CASE \E k \in 1..n : part[k].act = "stop"
    <3>1. PICK k \in 1..n : part[k].act = "stop"
      BY <2>2
    <3>2. k - 1 \in 1..(n - 1) /\ (k - 1) + 1 = k
      BY <1>2, <2>1, <3>1
    <3> QED
      BY <1>2, <3>1, <3>2
  <2> QED
    BY <2>1, <2>2 DEF Safe, n
<1>10. \E T : rest \in Seq(T)
  BY <1>2
<1>11. Safe(t, after[1], rest, d)
  BY <1>2, <1>5, <1>6, <1>7, <1>8, <1>9, <1>10 DEF Safe
<1> QED
  BY <1>4, <1>11 DEF rest

(***************************************************************************)
(* Lemmas about single steps.                                              *)
(***************************************************************************)
Push(c, m) == [c EXCEPT !.locks = Append(@, Unshared(m))]

(* What is held once a mutex is taken, and once it is dropped again.        *)
Grown(locks, entry, more) ==
    /\ more \in Seq(Entry)
    /\ more # <<>>
    /\ SubSeq(more, 1, Len(more) - 1) = locks
    /\ \A m : Has(more, m) <=> Has(locks, m) \/ entry.mutex = m
    /\ \A m : Alone(more, m) <=> Alone(locks, m) \/ entry = Unshared(m)
    /\ \A r : Below(more, r) <=> Below(locks, r) /\ Rank(entry.mutex) < r
    /\ \A k \in DOMAIN more : more[k] = entry \/ \E j \in DOMAIN locks : more[k] = locks[j]

(* What a stack with one more entry has.                                   *)
LEMMA Appended ==
    ASSUME NEW locks \in Seq(Entry), NEW entry \in Entry
    PROVE  Grown(locks, entry, Append(locks, entry))
<1> DEFINE n == Len(locks)
           more == Append(locks, entry)
           less == SubSeq(more, 1, n)
<1>1. /\ more \in Seq(Entry) /\ Len(more) = n + 1 /\ n \in Nat /\ more # <<>>
      /\ \A k \in 1..n : more[k] = locks[k]
      /\ more[n + 1] = entry
      /\ DOMAIN more = 1..(n + 1) /\ DOMAIN locks = 1..n
  BY AppendProperties, LenProperties
<1>2. less \in Seq(Entry) /\ Len(less) = n /\ \A k \in 1..n : less[k] = more[k]
  <2>1. \A k \in 1..n : more[k] \in Entry
    BY <1>1, ElementOfSeq
  <2>2. 1 \in Int /\ n \in Int
    BY <1>1
  <2>3. /\ less \in Seq(Entry)
        /\ Len(less) = IF 1 <= n THEN n - 1 + 1 ELSE 0
        /\ \A i \in 1..(n - 1 + 1) : less[i] = more[1 + i - 1]
    BY <2>1, <2>2, SubSeqProperties
  <2> QED
    BY <1>1, <2>3
<1>3. less = locks
  BY <1>1, <1>2, SeqEqual
<1>4. Len(more) - 1 = n
  BY <1>1
<1> HIDE DEF n, less, more
<1>5. /\ \A m : Has(more, m) <=> Has(locks, m) \/ entry.mutex = m
      /\ \A m : Alone(more, m) <=> Alone(locks, m) \/ entry = Unshared(m)
      /\ \A r : Below(more, r) <=> Below(locks, r) /\ Rank(entry.mutex) < r
  <2>1. \A k : k \in 1..(n + 1) <=> k \in 1..n \/ k = n + 1
    BY <1>1
  <2> QED
    BY <1>1, <2>1 DEF Has, Alone, Below
<1>6. \A k \in DOMAIN more : more[k] = entry \/ \E j \in DOMAIN locks : more[k] = locks[j]
  <2>1. \A k \in 1..(n + 1) : k \in 1..n \/ k = n + 1
    BY <1>1
  <2> QED
    BY <1>1, <2>1
<1> QED
  BY <1>1, <1>3, <1>4, <1>5, <1>6 DEF less, more, Grown

(* Entries of a stack tell the mutex and how it is held.                   *)
LEMMA Entries ==
    /\ \A m \in Mutex : Unshared(m) \in Entry /\ Shared(m) \in Entry
    /\ \A m : Unshared(m).mutex = m /\ Shared(m).mutex = m
    /\ \A m : ~Unshared(m).shared /\ Shared(m).shared
    /\ \A m, n : Unshared(m) = Unshared(n) <=> m = n
    /\ \A m, n : Unshared(m) # Shared(n)
BY DEF Entry, Unshared, Shared

(* A row of two steps is a step and another.                               *)
LEMMA Rows ==
    ASSUME NEW x, NEW y
    PROVE  <<x>> \o <<y>> = <<x, y>> /\ Append(<<x>>, y) = <<x, y>>
<1>1. /\ <<x>> \in Seq({x, y}) /\ <<y>> \in Seq({x, y}) /\ <<x, y>> \in Seq({x, y})
      /\ Len(<<x>>) = 1 /\ Len(<<y>>) = 1 /\ Len(<<x, y>>) = 2
      /\ <<x>>[1] = x /\ <<y>>[1] = y /\ <<x, y>>[1] = x /\ <<x, y>>[2] = y
  OBVIOUS
<1>2. /\ <<x>> \o <<y>> \in Seq({x, y}) /\ Len(<<x>> \o <<y>>) = 2
      /\ (<<x>> \o <<y>>)[1] = x /\ (<<x>> \o <<y>>)[2] = y
  BY <1>1, ConcatProperties
<1>3. \A k \in 1..2 : k = 1 \/ k = 2
  OBVIOUS
<1>4. \A k \in 1..2 : (<<x>> \o <<y>>)[k] = <<x, y>>[k]
  BY <1>1, <1>2, <1>3
<1>5. <<x>> \o <<y>> = <<x, y>>
  BY <1>1, <1>2, <1>4, SeqEqual
<1>6. Append(<<x>>, y) = <<x>> \o <<y>>
  BY <1>1, AppendIsConcat
<1> QED
  BY <1>5, <1>6

(* A row of two steps and another of two are one of four.                  *)
LEMMA RowOfFour ==
    ASSUME NEW w, NEW x, NEW y, NEW z
    PROVE  <<w, x>> \o <<y, z>> = <<w, x, y, z>>
<1> DEFINE S == {w, x, y, z}
           a == <<w, x>>
           b == <<y, z>>
           r == <<w, x, y, z>>
<1>1. /\ a \in Seq(S) /\ b \in Seq(S) /\ r \in Seq(S)
      /\ Len(a) = 2 /\ Len(b) = 2 /\ Len(r) = 4
      /\ a[1] = w /\ a[2] = x /\ b[1] = y /\ b[2] = z
      /\ r[1] = w /\ r[2] = x /\ r[3] = y /\ r[4] = z
  OBVIOUS
<1> HIDE DEF S, a, b, r
<1>2. /\ a \o b \in Seq(S) /\ Len(a \o b) = 4
      /\ (a \o b)[1] = a[1] /\ (a \o b)[2] = a[2]
      /\ (a \o b)[3] = b[1] /\ (a \o b)[4] = b[2]
  <2>1. /\ a \o b \in Seq(S) /\ Len(a \o b) = Len(a) + Len(b)
        /\ \A k \in 1..(Len(a) + Len(b)) :
              (a \o b)[k] = IF k <= Len(a) THEN a[k] ELSE b[k - Len(a)]
    BY <1>1, ConcatProperties
  <2>2. \A k \in 1..4 : (a \o b)[k] = IF k <= 2 THEN a[k] ELSE b[k - 2]
    BY <1>1, <2>1
  <2> QED
    BY <1>1, <2>1, <2>2
<1>3. \A k \in 1..4 : (a \o b)[k] = r[k]
  <2>1. \A k \in 1..4 : k = 1 \/ k = 2 \/ k = 3 \/ k = 4
    OBVIOUS
  <2> QED
    BY <1>1, <1>2, <2>1
<1>4. a \o b = r
  BY <1>1, <1>2, <1>3, SeqEqual
<1> QED
  BY <1>4 DEF a, b, r

(* A point at which one more mutex is held.                                *)
Alike(c, d) ==
    d.new = c.new /\ d.inside = c.inside /\ d.stopping = c.stopping /\ d.live = c.live

Pushes(t, c, m, e) ==
    /\ Sound(t, e)
    /\ e.locks # <<>>
    /\ e.locks = Append(c.locks, Unshared(m))
    /\ SubSeq(e.locks, 1, Len(e.locks) - 1) = c.locks
    /\ e.known = c.known
    /\ Alike(c, e)
    /\ \A n : Has(e.locks, n) <=> Has(c.locks, n) \/ m = n
    /\ \A n : Alone(e.locks, n) <=> Alone(c.locks, n) \/ m = n
    /\ \A r : Below(e.locks, r) <=> Below(c.locks, r) /\ Rank(m) < r
    /\ \A n : Taken(t, e, n) <=> Taken(t, c, n)

(* Taking a mutex that can be taken leads to such a point.                 *)
LEMMA Pushed ==
    ASSUME NEW t, NEW c, NEW m, Sound(t, c), Taken(t, c, m)
    PROVE  Pushes(t, c, m, Push(c, m))
<1> DEFINE e == Push(c, m)
<1>1. c \in Point /\ c.locks \in Seq(Entry) /\ m \in Mutex
  BY DEF Sound, Point, Taken
<1>2. Unshared(m) \in Entry
  BY <1>1, Entries
<1>3. /\ e.locks = Append(c.locks, Unshared(m))
      /\ e.known = c.known /\ e.new = c.new /\ e.inside = c.inside
      /\ e.stopping = c.stopping /\ e.live = c.live
  BY <1>1 DEF Push, Point
<1>4. /\ e.locks \in Seq(Entry)
      /\ e.locks # <<>>
      /\ SubSeq(e.locks, 1, Len(e.locks) - 1) = c.locks
      /\ \A n : Has(e.locks, n) <=> Has(c.locks, n) \/ m = n
      /\ \A n : Alone(e.locks, n) <=> Alone(c.locks, n) \/ m = n
      /\ \A r : Below(e.locks, r) <=> Below(c.locks, r) /\ Rank(m) < r
      /\ \A k \in DOMAIN e.locks :
            e.locks[k] = Unshared(m) \/ \E j \in DOMAIN c.locks : e.locks[k] = c.locks[j]
  <2>1. /\ e.locks \in Seq(Entry)
        /\ e.locks # <<>>
        /\ SubSeq(e.locks, 1, Len(e.locks) - 1) = c.locks
        /\ \A n : Has(e.locks, n) <=> Has(c.locks, n) \/ Unshared(m).mutex = n
        /\ \A n : Alone(e.locks, n) <=> Alone(c.locks, n) \/ Unshared(m) = Unshared(n)
        /\ \A r : Below(e.locks, r) <=> Below(c.locks, r) /\ Rank(Unshared(m).mutex) < r
        /\ \A k \in DOMAIN e.locks :
              e.locks[k] = Unshared(m) \/ \E j \in DOMAIN c.locks : e.locks[k] = c.locks[j]
    <3>1. Grown(c.locks, Unshared(m), e.locks)
      BY <1>1, <1>2, <1>3, Appended
    <3> QED
      BY <3>1 DEF Grown
  <2> QED
    BY <2>1, Entries
<1>5. \A n : Taken(t, e, n) <=> Taken(t, c, n)
  BY <1>3 DEF Taken
<1>6. e \in Point
  BY <1>1, <1>4 DEF Push, Point
<1>7. \A k \in DOMAIN e.locks :
          /\ Taken(t, e, e.locks[k].mutex)
          /\ e.locks[k].shared => e.locks[k].mutex = Peers
  BY <1>4, <1>5, Entries DEF Sound
<1>8. Sound(t, e)
  BY <1>3, <1>4, <1>6, <1>7 DEF Sound
<1> QED
  BY <1>3, <1>4, <1>5, <1>8 DEF Pushes, Alike

(* A scope: the mutex is taken, and dropped once the body is done.          *)
LEMMA Scope ==
    ASSUME NEW t, NEW c, NEW m, NEW body, NEW d,
           Sound(t, c), CanTake(t, c, m), Sound(t, d), d.locks = c.locks, Taken(t, d, m),
           Safe(t, Push(c, m), body, Push(d, m))
    PROVE  Safe(t, c, Scoped(m, body), d)
<1> DEFINE p == Push(c, m)
           q == Push(d, m)
           take == Do("take", m)
           drop == Do("drop", m)
<1>1. /\ Sound(t, p) /\ p.locks = Append(c.locks, Unshared(m))
      /\ p.known = c.known /\ p.new = c.new /\ p.inside = c.inside
      /\ p.stopping = c.stopping /\ p.live = c.live
  <2>1. Pushes(t, c, m, p)
    BY Pushed DEF CanTake
  <2> QED
    BY <2>1 DEF Pushes, Alike
<1>2. /\ Sound(t, q) /\ SubSeq(q.locks, 1, Len(q.locks) - 1) = d.locks /\ q.locks # <<>>
      /\ q.known = d.known /\ q.new = d.new /\ q.inside = d.inside
      /\ q.stopping = d.stopping /\ q.live = d.live
  <2>1. Pushes(t, d, m, q)
    BY Pushed
  <2> QED
    BY <2>1 DEF Pushes, Alike
<1>3. /\ take.act = "take" /\ take.on = m /\ drop.act = "drop"
  BY DEF Do
<1> HIDE DEF p, q, take, drop
<1>4. c.stopping \in BOOLEAN /\ d.stopping \in BOOLEAN
  BY DEF Sound, Point
<1>5. Leads(t, c, take, p)
  <2>1. May(t, c, take)
    BY <1>3 DEF May
  <2>2. LocksAfter(c.locks, take) = Append(c.locks, Unshared(m)) /\ KnownAfter(c.known, take) = c.known
    BY <1>3 DEF LocksAfter, KnownAfter
  <2> QED
    BY <1>1, <1>3, <1>4, <2>1, <2>2 DEF Leads
<1>6. Leads(t, q, drop, d)
  <2>1. May(t, q, drop)
    BY <1>2, <1>3 DEF May
  <2>2. LocksAfter(q.locks, drop) = d.locks /\ KnownAfter(q.known, drop) = q.known
    BY <1>2, <1>3 DEF LocksAfter, KnownAfter
  <2> QED
    BY <1>2, <1>3, <1>4, <2>1, <2>2 DEF Leads
<1>7. Safe(t, c, <<take>>, p) /\ Safe(t, q, <<drop>>, d)
  BY <1>1, <1>2, <1>5, <1>6, One
<1>8. Safe(t, p, body, q)
  BY DEF p, q
<1>9. Safe(t, c, <<take>> \o body, q)
  BY <1>7, <1>8, Compose
<1>10. Safe(t, c, (<<take>> \o body) \o <<drop>>, d)
  BY <1>7, <1>9, Compose
<1> QED
  BY <1>10 DEF Scoped, take, drop

(* A step that no other relies on.                                         *)
LEMMA Neutral ==
    ASSUME NEW t, NEW c, NEW step, Sound(t, c), May(t, c, step),
           step.act \in {"read", "write", "destroy", "declare", "undeclare", "none", "exchange",
                         "authorized", "start", "promote", "collect", "each"}
    PROVE  Safe(t, c, <<step>>, c)
<1>1. LocksAfter(c.locks, step) = c.locks /\ KnownAfter(c.known, step) = c.known
  BY DEF LocksAfter, KnownAfter
<1>2. c.stopping \in BOOLEAN
  BY DEF Sound, Point
<1>3. step.act # "track" /\ step.act # "return" /\ step.act # "stop"
  OBVIOUS
<1>4. Leads(t, c, step, c)
  BY <1>1, <1>2, <1>3 DEF Leads
<1> QED
  BY <1>4, One

(* Which mutexes may be taken at all.                                      *)
LEMMA Takable ==
    ASSUME NEW t, NEW c
    PROVE  /\ Taken(t, c, Peers)
           /\ t = "client" => Taken(t, c, Resolving)
           /\ \A e \in Endpoint : Taken(t, c, Connections(e))
           /\ \A p \in Peer : p \in c.known \cup {c.new} =>
                 /\ Taken(t, c, Registrations(p)) /\ Taken(t, c, Receiver(p))
                 /\ Taken(t, c, Attached(p)) /\ Taken(t, c, Security(p))
<1>1. /\ Peers # Resolving
      /\ \A e : Connections(e) # Resolving
      /\ \A p : /\ Attached(p) # Resolving /\ Registrations(p) # Resolving
                /\ Receiver(p) # Resolving /\ Security(p) # Resolving
  BY DEF Peers, Resolving, Connections, Attached, Registrations, Receiver, Security
<1> QED
  BY <1>1, Ranks, Owners DEF Taken

(* A scope in which the container is accessed.                             *)
LEMMA Accessed ==
    ASSUME NEW t, NEW c, NEW m, Sound(t, c), CanTake(t, c, m)
    PROVE  /\ Safe(t, Push(c, m), <<Read(m)>>, Push(c, m))
           /\ Safe(t, Push(c, m), <<Write(m)>>, Push(c, m))
           /\ Safe(t, c, Scoped(m, <<Read(m)>>), c)
           /\ Safe(t, c, Scoped(m, <<Write(m)>>), c)
<1> DEFINE p == Push(c, m)
<1>1. Taken(t, c, m)
  BY DEF CanTake
<1>2. Sound(t, p) /\ Has(p.locks, m) /\ Alone(p.locks, m)
  <2>1. Pushes(t, c, m, p)
    BY <1>1, Pushed
  <2> QED
    BY <2>1 DEF Pushes
<1>3. /\ Read(m).act = "read" /\ Read(m).on = m
      /\ Write(m).act = "write" /\ Write(m).on = m
  BY DEF Read, Write, Do
<1> HIDE DEF p
<1>4. May(t, p, Read(m)) /\ May(t, p, Write(m))
  BY <1>2, <1>3 DEF May
<1>5. Safe(t, p, <<Read(m)>>, p) /\ Safe(t, p, <<Write(m)>>, p)
  BY <1>2, <1>3, <1>4, Neutral
<1> QED
  BY <1>1, <1>5, Scope DEF p

-------------------------------------------------------------------------------
(***************************************************************************)
(* The calls, from the innermost outwards.                                 *)
(***************************************************************************)

(* BryptPeer sends through the endpoint under the mutex of its             *)
(* registrations.                                                          *)
LEMMA SendSafe ==
    ASSUME NEW t, NEW c, NEW e \in Endpoint, NEW p \in Peer, Sound(t, c),
           CanTake(t, c, Registrations(p)), Below(c.locks, 6)
    PROVE  Safe(t, c, ScheduleSend(e, p), c)
<1> DEFINE m == Registrations(p)
           q == Push(c, m)
<1>1. Taken(t, c, m) /\ Rank(m) = 3 /\ Rank(Connections(e)) = 6
  BY Ranks DEF CanTake
<1>2. Sound(t, q) /\ Below(q.locks, 6)
  <2>1. Pushes(t, c, m, q)
    BY <1>1, Pushed
  <2> QED
    BY <1>1, <2>1 DEF Pushes
<1>3. Safe(t, q, <<Read(m)>>, q)
  BY Accessed
<1> HIDE DEF m, q
<1>4. CanTake(t, q, Connections(e))
  BY <1>1, <1>2, Takable DEF CanTake
<1>5. Safe(t, q, Translate(e), q)
  BY <1>2, <1>4, Accessed DEF Translate
<1>6. Safe(t, q, <<Read(m)>> \o Translate(e), q)
  BY <1>3, <1>5, Compose
<1> QED
  BY <1>1, <1>6, Scope DEF ScheduleSend, m, q

(* BryptPeer reads its registrations under their mutex.                    *)
LEMMA ReadRegistrationsSafe ==
    ASSUME NEW t, NEW c, NEW p \in Peer, Sound(t, c), CanTake(t, c, Registrations(p))
    PROVE  Safe(t, c, ReadRegistrations(p), c)
BY Accessed DEF ReadRegistrations

(* BryptPeer changes its registrations under their mutex.                  *)
LEMMA ChangeRegistrationSafe ==
    ASSUME NEW t, NEW c, NEW p \in Peer, Sound(t, c), CanTake(t, c, Registrations(p))
    PROVE  Safe(t, c, ChangeRegistration(p), c)
<1>1. Safe(t, c, Scoped(Registrations(p), <<Write(Registrations(p))>>), c)
  BY Accessed
<1> QED
  BY <1>1, ReadRegistrationsSafe, Compose DEF ChangeRegistration, DispatchPeerStateChange

(* What a peer's receiver can be.                                          *)
Value == {"none", "exchange", "authorized"}

(* BryptPeer replaces its receiver under its mutex.                        *)
LEMMA SetReceiverSafe ==
    ASSUME NEW t, NEW c, NEW p \in Peer, NEW value \in Value, Sound(t, c),
           CanTake(t, c, Receiver(p)), value = "authorized" => p \in c.known
    PROVE  Safe(t, c, SetReceiver(p, value), c)
<1> DEFINE m == Receiver(p)
           q == Push(c, m)
           step == Do(value, p)
<1>1. Taken(t, c, m)
  BY DEF CanTake
<1>2. Sound(t, q) /\ q.known = c.known
  <2>1. Pushes(t, c, m, q)
    BY <1>1, Pushed
  <2> QED
    BY <2>1 DEF Pushes
<1>3. Safe(t, q, <<Write(m)>>, q)
  BY Accessed
<1>4. step.act = value /\ step.on = p
  BY DEF Do
<1> HIDE DEF m, q, step
<1>5. May(t, q, step)
  BY <1>2, <1>4 DEF May, Value
<1>6. Safe(t, q, <<step>>, q)
  BY <1>2, <1>4, <1>5, Neutral DEF Value
<1>7. Safe(t, q, <<Write(m)>> \o <<step>>, q)
  BY <1>3, <1>6, Compose
<1>8. <<Write(m)>> \o <<step>> = <<Write(m), step>>
  BY Rows
<1> QED
  BY <1>1, <1>7, <1>8, Scope DEF SetReceiver, m, q, step

(* SecurityMediator closes an exchange, and replaces the receiver.         *)
LEMMA OnExchangeCloseSafe ==
    ASSUME NEW t, NEW c, NEW p \in Peer, NEW value \in Value, Sound(t, c),
           p \in c.known, CanTake(t, c, Security(p)), Alone(c.locks, Receiver(p))
    PROVE  Safe(t, c, OnExchangeClose(p, value), c)
<1> DEFINE m == Security(p)
           q == Push(c, m)
           step == Do("destroy", p)
<1>1. Taken(t, c, m) /\ Has(c.locks, Receiver(p))
  BY DEF CanTake, Has, Alone, Unshared
<1>2. /\ Sound(t, q) /\ q.known = c.known
      /\ Has(q.locks, Receiver(p)) /\ Alone(q.locks, Receiver(p))
  <2>1. Pushes(t, c, m, q)
    BY <1>1, Pushed
  <2> QED
    BY <1>1, <2>1 DEF Pushes
<1>3. step.act = "destroy" /\ step.on = p
  BY DEF Do
<1> HIDE DEF m, q, step
<1>4. CanTake(t, q, Receiver(p))
  BY <1>2, Takable, Recursions DEF CanTake
<1>5. Safe(t, q, SetReceiver(p, value), q)
  BY <1>2, <1>4, SetReceiverSafe
<1>6. May(t, q, step)
  BY <1>2, <1>3 DEF May
<1>7. Safe(t, q, <<step>>, q)
  BY <1>2, <1>3, <1>6, Neutral
<1>8. Safe(t, q, SetReceiver(p, value) \o <<step>>, q)
  BY <1>5, <1>7, Compose
<1> QED
  BY <1>1, <1>8, Scope DEF OnExchangeClose, m, q, step

(* SecurityMediator takes over the key of an exchange.                     *)
LEMMA OnFulfilledStrategySafe ==
    ASSUME NEW t, NEW c, NEW p \in Peer, Sound(t, c), CanTake(t, c, Security(p))
    PROVE  Safe(t, c, OnFulfilledStrategy(p), c)
BY Accessed DEF OnFulfilledStrategy

(* The security context is used under the mutex of the mediator.           *)
LEMMA SecurityContextSafe ==
    ASSUME NEW t, NEW c, NEW p \in Peer, Sound(t, c), CanTake(t, c, Security(p))
    PROVE  Safe(t, c, SecurityContext(p), c)
BY Accessed DEF SecurityContext

(* The mutexes of a peer that is being linked are taken in any order.      *)
LEMMA AttachSecurityMediatorSafe ==
    ASSUME NEW t, NEW c, NEW p \in Peer, Sound(t, c), c.new = p, c.locks = <<Unshared(Peers)>>
    PROVE  Safe(t, c, AttachSecurityMediator(p), c)
<1> DEFINE a == Push(c, Attached(p))
           s == Push(a, Security(p))
<1>1. \A m : Has(c.locks, m) <=> m = Peers
  BY Entries DEF Has
<1>2. /\ Attached(p) # Peers /\ Registrations(p) # Peers /\ Security(p) # Peers
      /\ Receiver(p) # Peers
      /\ Attached(p) # Registrations(p) /\ Attached(p) # Security(p) /\ Attached(p) # Receiver(p)
      /\ Security(p) # Receiver(p)
  BY DEF Attached, Registrations, Security, Receiver, Peers
<1>3. /\ OfPeer(Attached(p), p) /\ OfPeer(Registrations(p), p)
      /\ OfPeer(Security(p), p) /\ OfPeer(Receiver(p), p)
      /\ p # NoPeer
  BY Owners, NoPeerIsNone
<1>4. CanTake(t, c, Attached(p))
  BY <1>1, <1>2, <1>3, Takable DEF CanTake
<1>5. /\ Sound(t, a) /\ a.new = p
      /\ \A m : Has(a.locks, m) <=> m = Peers \/ m = Attached(p)
  <2>1. Taken(t, c, Attached(p))
    BY <1>4 DEF CanTake
  <2>2. Pushes(t, c, Attached(p), a)
    BY <2>1, Pushed
  <2> QED
    BY <1>1, <2>2 DEF Pushes, Alike
<1>6. CanTake(t, a, Registrations(p)) /\ CanTake(t, a, Security(p))
  <2> HIDE DEF a
  <2> QED
    BY <1>2, <1>3, <1>5, Takable DEF CanTake
<1>7. /\ Sound(t, s) /\ s.new = p
      /\ \A m : Has(s.locks, m) <=> m = Peers \/ m = Attached(p) \/ m = Security(p)
  <2> HIDE DEF a
  <2>1. Taken(t, a, Security(p))
    BY <1>6 DEF CanTake
  <2>2. Pushes(t, a, Security(p), s)
    BY <1>5, <2>1, Pushed
  <2> QED
    BY <1>5, <2>2 DEF Pushes, Alike
<1> HIDE DEF s
<1>8. CanTake(t, s, Receiver(p))
  BY <1>2, <1>3, <1>7, Takable DEF CanTake
<1>9. Safe(t, s, SetReceiver(p, "exchange"), s)
  BY <1>7, <1>8, SetReceiverSafe DEF Value
<1>10. Safe(t, a, Scoped(Security(p), SetReceiver(p, "exchange")), a)
  <2> HIDE DEF a
  <2> QED
    BY <1>5, <1>6, <1>9, Scope DEF s, CanTake
<1>11. Safe(t, a, ReadRegistrations(p), a)
  BY <1>5, <1>6, ReadRegistrationsSafe
<1>12. Safe(t, a, ReadRegistrations(p) \o Scoped(Security(p), SetReceiver(p, "exchange")), a)
  BY <1>10, <1>11, Compose
<1> QED
  BY <1>4, <1>12, Scope DEF AttachSecurityMediator, CanTake

(* Where none is held, any mutex can be taken.                             *)
LEMMA FreeToTake ==
    ASSUME NEW t, NEW c, NEW m, Taken(t, c, m), c.locks = <<>>
    PROVE  CanTake(t, c, m)
BY DEF CanTake, Below

(* BryptPeer hands a message to its receiver under both its mutexes.       *)
LEMMA ScheduleReceiveSafe ==
    ASSUME NEW c, NEW e \in Endpoint, NEW p \in Peer, Sound(e, c), Settled(c),
           c.locks = <<>>, p \in c.known
    PROVE  Safe(e, c, ScheduleReceive(e, p), c)
<1> DEFINE g == Registrations(p)
           v == Receiver(p)
           q == Push(c, g)
           r == Push(q, v)
           step == Do("collect", <<e, p>>)
<1>1. /\ Taken(e, c, g) /\ Taken(e, c, v)
      /\ Rank(g) = 3 /\ Rank(v) = 4
  BY Takable, Ranks
<1>2. CanTake(e, c, g)
  BY <1>1, FreeToTake
<1>3. /\ Sound(e, q) /\ q.locks = Append(c.locks, Unshared(g)) /\ Taken(e, q, v)
      /\ q.known = c.known /\ Alike(c, q) /\ Below(q.locks, 4)
  <2>1. Pushes(e, c, g, q)
    BY <1>1, Pushed
  <2>2. Below(c.locks, 4)
    BY DEF Below
  <2> QED
    BY <1>1, <2>1, <2>2 DEF Pushes
<1>5. Safe(e, q, <<Read(g)>>, q)
  BY <1>2, Accessed
<1>6. CanTake(e, q, v)
  BY <1>1, <1>3 DEF CanTake
<1> HIDE DEF q
<1>7. /\ Sound(e, r) /\ r.locks = Append(q.locks, Unshared(v))
      /\ r.known = q.known /\ Alike(q, r)
  <2>1. Pushes(e, q, v, r)
    BY <1>3, Pushed
  <2> QED
    BY <2>1 DEF Pushes
<1>8. Safe(e, r, <<Read(v)>>, r)
  BY <1>3, <1>6, Accessed
<1>9. step.act = "collect" /\ step.on = <<e, p>>
  BY DEF Do
<1> HIDE DEF r, step, g, v
<1>10. r.locks = <<Unshared(g), Unshared(v)>>
  <2>1. q.locks = <<Unshared(g)>>
    BY <1>3
  <2> QED
    BY <1>7, <2>1, Rows
<1>11. May(e, r, step)
  BY <1>3, <1>7, <1>9, <1>10 DEF May, Settled, Alike, g, v
<1>12. Safe(e, r, <<step>>, r)
  BY <1>7, <1>9, <1>11, Neutral
<1>13. Safe(e, r, <<Read(v), step>>, r)
  BY <1>8, <1>12, Compose, Rows
<1>14. Safe(e, q, Scoped(v, <<Read(v), step>>), q)
  BY <1>3, <1>6, <1>13, Scope DEF r
<1>15. Safe(e, q, <<Read(g)>> \o Scoped(v, <<Read(v), step>>), q)
  BY <1>5, <1>14, Compose
<1> QED
  BY <1>1, <1>2, <1>15, Scope DEF ScheduleReceive, q, g, v, step

(* A point at which more peers are known to be linked.                     *)
Knowing(c, p) == [c EXCEPT !.known = @ \cup {p}]

Knows(t, c, p, d) ==
    Sound(t, d) /\ d.known = c.known \cup {p} /\ d.locks = c.locks /\ Alike(c, d)

(* There is such a point.                                                  *)
LEMMA KnowsIt ==
    ASSUME NEW t, NEW c, NEW p \in Peer, Sound(t, c)
    PROVE  Knows(t, c, p, Knowing(c, p))
<1> DEFINE d == Knowing(c, p)
<1>1. /\ d \in Point /\ d.known = c.known \cup {p} /\ d.locks = c.locks /\ d.new = c.new
      /\ d.inside = c.inside /\ d.stopping = c.stopping /\ d.live = c.live
  BY DEF Knowing, Sound, Point
<1> HIDE DEF d
<1>2. \A m : Taken(t, c, m) => Taken(t, d, m)
  BY <1>1 DEF Taken
<1>3. Sound(t, d)
  BY <1>1, <1>2 DEF Sound
<1> QED
  BY <1>1, <1>3 DEF d, Knows, Alike

(* PeerManager links a peer under the mutex of all peers.                  *)
LEMMA LinkPeerSafe ==
    ASSUME NEW c, NEW e \in Endpoint, NEW p \in Peer, Sound(e, c), Settled(c), c.locks = <<>>
    PROVE  Safe(e, c, LinkPeer(e, p), Knowing(c, p))
<1> DEFINE d == Knowing(c, p)
           q == Push(c, Peers)
           r == Push(d, Peers)
           step == Do("link", <<e, p>>)
<1>1. Sound(e, d) /\ d.known = c.known \cup {p} /\ d.locks = c.locks /\ Alike(c, d)
  <2>1. Knows(e, c, p, d)
    BY KnowsIt
  <2> QED
    BY <2>1 DEF Knows
<1> HIDE DEF d
<1>2. Taken(e, c, Peers) /\ Taken(e, d, Peers) /\ CanTake(e, c, Peers)
  BY Takable, FreeToTake
<1>3. /\ Sound(e, q) /\ q.locks = Append(c.locks, Unshared(Peers))
      /\ q.known = c.known /\ Alike(c, q)
  <2>1. Pushes(e, c, Peers, q)
    BY <1>2, Pushed
  <2> QED
    BY <2>1 DEF Pushes
<1>4. /\ Sound(e, r) /\ r.locks = Append(d.locks, Unshared(Peers))
      /\ r.known = d.known /\ Alike(d, r)
  <2>1. Pushes(e, d, Peers, r)
    BY <1>1, <1>2, Pushed
  <2> QED
    BY <2>1 DEF Pushes
<1>5. Safe(e, q, <<Read(Peers)>>, q)
  BY <1>2, Accessed
<1>6. step.act = "link" /\ step.on = <<e, p>> /\ step.on[2] = p
  BY DEF Do
<1> HIDE DEF q, r, step
<1>7. q.locks = <<Unshared(Peers)>>
  BY <1>3
<1>8. May(e, q, step)
  BY <1>3, <1>6, <1>7 DEF May, Settled, Alike
<1>9. LocksAfter(q.locks, step) = q.locks /\ KnownAfter(q.known, step) = q.known \cup {p}
  BY <1>6 DEF LocksAfter, KnownAfter
<1>10. Leads(e, q, step, r)
  <2>1. r.locks = q.locks
    BY <1>1, <1>3, <1>4
  <2>2. c.stopping \in BOOLEAN
    BY DEF Sound, Point
  <2> QED
    BY <1>1, <1>3, <1>4, <1>6, <1>8, <1>9, <2>1, <2>2 DEF Leads, Alike
<1>11. Safe(e, q, <<Read(Peers), step>>, r)
  BY <1>3, <1>5, <1>10, One, Compose, Rows
<1> QED
  BY <1>1, <1>2, <1>11, Scope DEF LinkPeer, q, r, d, step

(* What a worker does without the mutex of its own tracker.                *)
LEMMA UnlockedSafe ==
    ASSUME NEW c, NEW e \in Endpoint, Sound(e, c)
    PROVE  /\ Safe(e, c, <<Read(Connections(e))>>, c)
           /\ Safe(e, c, <<Write(Connections(e))>>, c)
<1>1. /\ Read(Connections(e)).act = "read" /\ Read(Connections(e)).on = Connections(e)
      /\ Write(Connections(e)).act = "write" /\ Write(Connections(e)).on = Connections(e)
  BY DEF Read, Write, Do
<1>2. May(e, c, Read(Connections(e))) /\ May(e, c, Write(Connections(e)))
  BY <1>1 DEF May, Unlocked
<1> QED
  BY <1>1, <1>2, Neutral

(* A worker receives a message, of a peer that it may have to link first.  *)
LEMMA OnMessageReceivedSafe ==
    ASSUME NEW c, NEW e \in Endpoint, NEW p \in Peer, Sound(e, c), Settled(c), c.locks = <<>>,
           <<e, p>> \in promoted => p \in c.known, <<e, p>> \in c.live
    PROVE  \E d : /\ Safe(e, c, OnMessageReceived(e, p), d)
                  /\ d.locks = <<>> /\ ~d.stopping
<1> DEFINE d == IF <<e, p>> \in promoted THEN c ELSE Knowing(c, p)
           step == Do("promote", <<e, p>>)
           first == IF <<e, p>> \in promoted THEN <<>>
                    ELSE LinkPeer(e, p) \o ChangeRegistration(p) \o <<step>>
<1>1. /\ Sound(e, d) /\ Settled(d) /\ d.locks = <<>> /\ d.live = c.live
      /\ p \in d.known
  <2>1. CASE <<e, p>> \in promoted
    BY <2>1
  <2>2. CASE <<e, p>> \notin promoted
    <3>1. Knows(e, c, p, d)
      BY <2>2, KnowsIt
    <3> QED
      BY <3>1 DEF Knows, Alike, Settled
  <2> QED
    BY <2>1, <2>2
<1>2. Safe(e, c, first, d)
  <2>1. CASE <<e, p>> \in promoted
    BY <2>1, Nothing
  <2>2. CASE <<e, p>> \notin promoted
    <3>1. Safe(e, c, LinkPeer(e, p), d)
      BY <2>2, LinkPeerSafe
    <3>2. step.act = "promote" /\ step.on = <<e, p>> /\ step.on[2] = p
      BY DEF Do
    <3> HIDE DEF d, step
    <3>3. Safe(e, d, ChangeRegistration(p), d)
      BY <1>1, Takable, FreeToTake, ChangeRegistrationSafe
    <3>4. May(e, d, step)
      BY <1>1, <3>2 DEF May
    <3>5. Safe(e, d, <<step>>, d)
      BY <1>1, <3>2, <3>4, Neutral
    <3>6. Safe(e, c, LinkPeer(e, p) \o ChangeRegistration(p) \o <<step>>, d)
      BY <3>1, <3>3, <3>5, Compose
    <3> QED
      BY <2>2, <3>6
  <2> QED
    BY <2>1, <2>2
<1> HIDE DEF d, first
<1>3. Safe(e, c, <<Read(Connections(e))>>, c) /\ Safe(e, d, <<Write(Connections(e))>>, d)
  BY <1>1, UnlockedSafe
<1>4. Safe(e, d, ScheduleReceive(e, p), d)
  BY <1>1, ScheduleReceiveSafe
<1>5. Safe(e, c, <<Read(Connections(e))>> \o first, d)
  BY <1>2, <1>3, Compose
<1>6. Safe(e, c, <<Read(Connections(e))>> \o first \o <<Write(Connections(e))>>, d)
  BY <1>3, <1>5, Compose
<1>7. Safe(e, c, <<Read(Connections(e))>> \o first \o <<Write(Connections(e))>>
                 \o ScheduleReceive(e, p), d)
  BY <1>4, <1>6, Compose
<1>8. Safe(e, c, OnMessageReceived(e, p), d)
  BY <1>7 DEF OnMessageReceived, first
<1> QED
  BY <1>1, <1>8 DEF Settled

(* A worker starts a session.                                              *)
LEMMA OnSessionStartedSafe ==
    ASSUME NEW c, NEW e \in Endpoint, NEW p \in Peer, Sound(e, c), c.locks = <<>>
    PROVE  Safe(e, c, OnSessionStarted(e, p), c)
<1> DEFINE m == Connections(e)
           q == Push(c, m)
           step == Do("start", <<e, p>>)
<1>1. Taken(e, c, m) /\ CanTake(e, c, m)
  BY Takable, FreeToTake
<1>2. Sound(e, q)
  <2>1. Pushes(e, c, m, q)
    BY <1>1, Pushed
  <2> QED
    BY <2>1 DEF Pushes
<1>3. Safe(e, q, <<Write(m)>>, q)
  BY <1>1, Accessed
<1>4. step.act = "start" /\ step.on = <<e, p>>
  BY DEF Do
<1> HIDE DEF m, q, step
<1>5. May(e, q, step)
  BY <1>4 DEF May, Connection
<1>6. Safe(e, q, <<step>>, q)
  BY <1>2, <1>4, <1>5, Neutral
<1>7. Safe(e, q, <<Write(m), step>>, q)
  BY <1>3, <1>6, Compose, Rows
<1> QED
  BY <1>1, <1>7, Scope DEF OnSessionStarted, m, q, step

(* A point at which a session has been stopped.                            *)
Stopped(c, x) == [c EXCEPT !.stopping = FALSE, !.live = @ \ {x}]

(* A point of a thread that stops a session.                               *)
Stops(t, c, x, d) ==
    /\ Sound(t, d) /\ d.locks = c.locks /\ d.known = c.known /\ d.new = c.new
    /\ d.inside = c.inside /\ ~d.stopping /\ d.live = c.live \ {x}

(* There is such a point.                                                  *)
LEMMA StoppedIt ==
    ASSUME NEW t, NEW c, NEW x, Sound(t, c)
    PROVE  Stops(t, c, x, Stopped(c, x))
<1> DEFINE d == Stopped(c, x)
<1>1. /\ d \in Point /\ d.locks = c.locks /\ d.known = c.known /\ d.new = c.new
      /\ d.inside = c.inside /\ d.stopping = FALSE /\ d.live = c.live \ {x}
  BY DEF Stopped, Sound, Point
<1> HIDE DEF d
<1>2. \A m : Taken(t, c, m) => Taken(t, d, m)
  BY <1>1 DEF Taken
<1>3. Sound(t, d)
  BY <1>1, <1>2 DEF Sound
<1> QED
  BY <1>1, <1>3 DEF d, Stops

(* The thread that stops a session may take the mutexes of its peer late.  *)
LEMMA OnSessionStoppedSafe ==
    ASSUME NEW c, NEW e \in Endpoint, NEW p \in Peer, Sound(e, c), c.locks = <<>>,
           c.stopping, <<e, p>> \in promoted => p \in c.known
    PROVE  Safe(e, c, OnSessionStopped(e, p), Stopped(c, <<e, p>>))
<1> DEFINE m == Connections(e)
           d == Stopped(c, <<e, p>>)
           q == Push(c, m)
           r == Push(d, m)
           step == Do("stop", <<e, p>>)
           tell == IF <<e, p>> \in promoted THEN ChangeRegistration(p) ELSE <<>>
<1>1. /\ Sound(e, d) /\ d.locks = c.locks /\ d.known = c.known /\ d.new = c.new
      /\ d.inside = c.inside /\ ~d.stopping /\ d.live = c.live \ {<<e, p>>}
  <2>1. Stops(e, c, <<e, p>>, d)
    BY StoppedIt
  <2> QED
    BY <2>1 DEF Stops
<1> HIDE DEF d
<1>2. Taken(e, c, m) /\ CanTake(e, c, m) /\ Taken(e, d, m)
  BY Takable, FreeToTake
<1>3. /\ Sound(e, q) /\ q.locks = Append(c.locks, Unshared(m))
      /\ q.known = c.known /\ Alike(c, q)
  <2>1. Pushes(e, c, m, q)
    BY <1>2, Pushed
  <2> QED
    BY <2>1 DEF Pushes
<1>4. /\ Sound(e, r) /\ r.locks = Append(d.locks, Unshared(m))
      /\ r.known = d.known /\ Alike(d, r)
  <2>1. Pushes(e, d, m, r)
    BY <1>1, <1>2, Pushed
  <2> QED
    BY <2>1 DEF Pushes
<1>5. Safe(e, q, <<Write(m)>>, q)
  BY <1>2, Accessed
<1>6. step.act = "stop" /\ step.on = <<e, p>>
  BY DEF Do
<1> HIDE DEF m, q, r, step
<1>7. Safe(e, q, tell, q)
  <2>1. CASE <<e, p>> \in promoted
    <3>1. Taken(e, q, Registrations(p)) /\ q.stopping
      BY <1>3, <2>1, Takable DEF Alike
    <3>2. CanTake(e, q, Registrations(p))
      BY <3>1 DEF CanTake
    <3> QED
      BY <1>3, <2>1, <3>2, ChangeRegistrationSafe
  <2>2. CASE <<e, p>> \notin promoted
    BY <1>3, <2>2, Nothing
  <2> QED
    BY <2>1, <2>2
<1>8. May(e, q, step)
  BY <1>6 DEF May, Connection
<1>9. LocksAfter(q.locks, step) = q.locks /\ KnownAfter(q.known, step) = q.known
  BY <1>6 DEF LocksAfter, KnownAfter
<1>10. Leads(e, q, step, r)
  <2>1. r.locks = q.locks
    BY <1>1, <1>3, <1>4
  <2>2. r.stopping \in BOOLEAN /\ ~r.stopping
    BY <1>1, <1>4 DEF Alike, Sound, Point
  <2> QED
    BY <1>1, <1>3, <1>4, <1>6, <1>8, <1>9, <2>1, <2>2 DEF Leads, Alike
<1>11. Safe(e, q, <<Write(m), step>>, r)
  BY <1>3, <1>5, <1>10, One, Compose, Rows
<1> HIDE DEF tell
<1>12. Safe(e, q, <<Write(m)>> \o tell, q)
  BY <1>5, <1>7, Compose
<1>13. Safe(e, c, Scoped(m, <<Write(m)>> \o tell), c)
  BY <1>2, <1>12, Scope DEF q
<1>14. Safe(e, c, Scoped(m, <<Write(m), step>>), d)
  BY <1>1, <1>2, <1>11, Scope DEF q, r
<1>15. Safe(e, c, Scoped(m, <<Write(m)>> \o tell) \o Scoped(m, <<Write(m), step>>), d)
  BY <1>13, <1>14, Compose
<1> QED
  BY <1>15 DEF OnSessionStopped, m, d, step, tell

(* The client's worker declares addresses, and may look for a peer then.   *)
LEMMA DeclareSafe ==
    ASSUME NEW c, NEW p \in Peer, NEW identified \in BOOLEAN, Sound("client", c), c.locks = <<>>
    PROVE  Safe("client", c, DeclareResolvingPeer(p, identified), c)
<1> DEFINE t == "client"
           m == Resolving
           q == Push(c, m)
           step == Do("declare", p)
           rest == IF p \in resolving THEN <<>>
                   ELSE IF identified THEN Scoped(Peers, <<Read(Peers)>>)
                        ELSE <<Write(m), step>>
<1>1. Taken(t, c, m) /\ CanTake(t, c, m) /\ Rank(m) = 0 /\ Rank(Peers) = 1
  BY Takable, FreeToTake, Ranks
<1>2. Sound(t, q) /\ Below(q.locks, 1)
  <2>1. Pushes(t, c, m, q)
    BY <1>1, Pushed
  <2>2. Below(c.locks, 1)
    BY DEF Below
  <2> QED
    BY <1>1, <2>1, <2>2 DEF Pushes
<1>3. Safe(t, q, <<Read(m)>>, q) /\ Safe(t, q, <<Write(m)>>, q)
  BY <1>1, Accessed
<1>4. step.act = "declare" /\ step.on = p
  BY DEF Do
<1> HIDE DEF m, q, step
<1>5. Safe(t, q, <<Write(m), step>>, q)
  <2>1. May(t, q, step)
    BY <1>4 DEF May
  <2> QED
    BY <1>2, <1>3, <1>4, <2>1, Neutral, Compose, Rows
<1>6. Safe(t, q, Scoped(Peers, <<Read(Peers)>>), q)
  <2>1. CanTake(t, q, Peers)
    BY <1>1, <1>2, Takable DEF CanTake
  <2> QED
    BY <1>2, <2>1, Accessed
<1>7. Safe(t, q, rest, q)
  <2>1. CASE p \in resolving
    BY <1>2, <2>1, Nothing
  <2>2. CASE p \notin resolving /\ identified
    BY <1>6, <2>2
  <2>3. CASE p \notin resolving /\ ~identified
    BY <1>5, <2>3
  <2> QED
    BY <2>1, <2>2, <2>3
<1> HIDE DEF rest
<1>8. Safe(t, q, <<Read(m)>> \o rest, q)
  BY <1>3, <1>7, Compose
<1>9. Safe(t, c, Scoped(m, <<Read(m)>> \o rest), c)
  BY <1>1, <1>8, Scope DEF q
<1> QED
  BY <1>9 DEF DeclareResolvingPeer, m, step, rest

(* The client's worker withdraws an address.                               *)
LEMMA UndeclareSafe ==
    ASSUME NEW c, NEW p \in Peer, Sound("client", c), CanTake("client", c, Resolving)
    PROVE  Safe("client", c, UndeclareResolvingPeer(p), c)
<1> DEFINE t == "client"
           m == Resolving
           q == Push(c, m)
           step == Do("undeclare", p)
<1>1. Taken(t, c, m)
  BY DEF CanTake
<1>2. Sound(t, q)
  <2>1. Pushes(t, c, m, q)
    BY <1>1, Pushed
  <2> QED
    BY <2>1 DEF Pushes
<1>3. Safe(t, q, <<Write(m)>>, q)
  BY Accessed
<1>4. step.act = "undeclare" /\ step.on = p
  BY DEF Do
<1> HIDE DEF m, q, step
<1>5. May(t, q, step)
  BY <1>4 DEF May
<1>6. Safe(t, q, <<Write(m), step>>, q)
  BY <1>2, <1>3, <1>4, <1>5, Neutral, Compose, Rows
<1>7. Safe(t, c, Scoped(m, <<Write(m), step>>), c)
  BY <1>1, <1>6, Scope DEF q, m
<1> QED
  BY <1>7 DEF UndeclareResolvingPeer, m, step

(* A point at which the mutex of all peers is shared.                      *)
Sharing(c) == [c EXCEPT !.locks = <<Shared(Peers)>>]

(* PeerManager goes through the peers under their shared mutex.            *)
LEMMA ForEachSafe ==
    ASSUME NEW t, NEW c, Sound(t, c), Settled(c), c.locks = <<>>
    PROVE  Safe(t, c, ForEachCachedIdentifier, c)
<1> DEFINE q == Sharing(c)
           share == Do("share", Peers)
           each == Do("each", {})
           drop == Do("drop", Peers)
<1>1. /\ q.locks = <<Shared(Peers)>> /\ q.known = c.known /\ Alike(c, q)
      /\ c \in Point
  BY DEF Sharing, Sound, Point, Alike
<1>2. Shared(Peers) \in Entry /\ Append(c.locks, Shared(Peers)) = <<Shared(Peers)>>
  BY Entries, Ranks
<1>3. q \in Point
  <2>1. <<Shared(Peers)>> \in Seq(Entry)
    BY <1>2
  <2> QED
    BY <1>1, <2>1 DEF Sharing, Point
<1> HIDE DEF q
<1>4. SubSeq(q.locks, 1, Len(q.locks) - 1) = c.locks
  <2>1. Len(q.locks) - 1 = 0
    BY <1>1
  <2>2. SubSeq(q.locks, 1, 0) = <<>>
    BY SubSeqEmpty
  <2> QED
    BY <2>1, <2>2
<1>5. Sound(t, q) /\ Has(q.locks, Peers) /\ q.locks # <<>>
  <2>1. q.locks \in Seq(Entry) /\ DOMAIN q.locks = {1} /\ q.locks[1] = Shared(Peers)
    BY <1>1, <1>2
  <2>2. Taken(t, q, Peers)
    BY Takable
  <2>3. c.new = NoPeer /\ c.inside = NoPeer
    BY DEF Settled
  <2>4. \A x \in c.live : x[1] = t
    BY DEF Sound
  <2> QED
    BY <1>1, <1>3, <2>1, <2>2, <2>3, <2>4, Entries DEF Sound, Has, Alike
<1>6. /\ share.act = "share" /\ share.on = Peers /\ each.act = "each" /\ each.on = {}
      /\ drop.act = "drop"
      /\ Read(Peers).act = "read" /\ Read(Peers).on = Peers
  BY DEF Do, Read
<1> HIDE DEF share, each, drop
<1>7. Leads(t, c, share, q)
  <2>1. May(t, c, share)
    BY <1>6 DEF May
  <2>2. LocksAfter(c.locks, share) = q.locks /\ KnownAfter(c.known, share) = c.known
    BY <1>1, <1>2, <1>6 DEF LocksAfter, KnownAfter
  <2>3. c.stopping \in BOOLEAN
    BY <1>1 DEF Point
  <2> QED
    BY <1>1, <1>5, <1>6, <2>1, <2>2, <2>3 DEF Leads, Alike
<1>8. Leads(t, q, drop, c)
  <2>1. May(t, q, drop)
    BY <1>5, <1>6 DEF May
  <2>2. LocksAfter(q.locks, drop) = c.locks /\ KnownAfter(q.known, drop) = q.known
    BY <1>4, <1>6 DEF LocksAfter, KnownAfter
  <2>3. c.stopping \in BOOLEAN
    BY <1>1 DEF Point
  <2> QED
    BY <1>1, <1>6, <2>1, <2>2, <2>3 DEF Leads, Alike
<1>9. May(t, q, Read(Peers)) /\ May(t, q, each)
  BY <1>1, <1>5, <1>6 DEF May, Settled, Alike
<1>10. Safe(t, q, <<Read(Peers)>>, q) /\ Safe(t, q, <<each>>, q)
  BY <1>5, <1>6, <1>9, Neutral
<1>11. Safe(t, c, <<share>>, q) /\ Safe(t, q, <<drop>>, c)
  BY <1>5, <1>7, <1>8, One
<1>12. Safe(t, c, <<share, Read(Peers)>>, q)
  BY <1>10, <1>11, Compose, Rows
<1>13. Safe(t, q, <<each, drop>>, c)
  BY <1>10, <1>11, Compose, Rows
<1>14. Safe(t, c, <<share, Read(Peers)>> \o <<each, drop>>, c)
  BY <1>12, <1>13, Compose
<1>15. <<share, Read(Peers)>> \o <<each, drop>> = <<share, Read(Peers), each, drop>>
  BY RowOfFour
<1> QED
  BY <1>14, <1>15 DEF ForEachCachedIdentifier, share, each, drop

-------------------------------------------------------------------------------
(***************************************************************************)
(* What a call goes on with.  A point fits what is the case.               *)
(***************************************************************************)
Fits(t, c) ==
    c.locks = holds[t] /\ c.known \subseteq linked /\ c.new \notin linked /\ c.live \subseteq sessions

(* A point at which a peer is being linked.                                *)
Linking(d, p) == [d EXCEPT !.known = @ \ {p}, !.new = p]

(* What follows once LinkPeer has found whether the peer exists.           *)
LEMMA LinkSafe ==
    ASSUME NEW d, NEW e \in Endpoint, NEW p \in Peer, Sound(e, d), Settled(d),
           d.locks = <<Unshared(Peers)>>, linked \subseteq Peer,
           d.locks = holds[e], d.known \ {p} \subseteq linked, d.live \subseteq sessions
    PROVE  \E c : Fits(e, c) /\ Safe(e, c, Link(e, p), d)
<1>1. /\ Read(Resolving).act = "read" /\ Read(Resolving).on = Resolving
      /\ Write(Resolving).act = "write" /\ Write(Resolving).on = Resolving
      /\ Write(Peers).act = "write" /\ Write(Peers).on = Peers
  BY DEF Read, Write, Do
<1>2. \A m : (Has(d.locks, m) <=> m = Peers) /\ (Alone(d.locks, m) <=> m = Peers)
  BY Entries DEF Has, Alone
<1>3. Resolving # Peers /\ Recursive(Resolving)
  BY Recursions DEF Resolving, Peers
<1>4. CASE p \in linked
  <2> DEFINE step == Do("undeclare", p)
             erase == IF e = "client" THEN <<step>> ELSE <<>>
  <2>1. step.act = "undeclare" /\ step.on = p
    BY DEF Do
  <2>2. Fits(e, d)
    BY <1>4, NoPeerIsNone DEF Fits, Settled
  <2>3. May(e, d, Write(Resolving))
    BY <1>1, <1>2 DEF May, Unlocked
  <2>4. Safe(e, d, <<Write(Resolving)>>, d)
    BY <1>1, <2>3, Neutral
  <2> HIDE DEF step
  <2>5. Safe(e, d, erase, d)
    <3>1. May(e, d, step)
      BY <2>1 DEF May
    <3> QED
      BY <2>1, <3>1, Neutral, Nothing
  <2> HIDE DEF erase
  <2>6. Safe(e, d, <<Write(Resolving)>> \o erase, d)
    BY <2>4, <2>5, Compose
  <2> QED
    BY <1>4, <2>2, <2>6 DEF Link, erase, step
<1>5. CASE p \notin linked
  <2> DEFINE c == Linking(d, p)
             step == Do("track", p)
             search == IF e = "client" /\ p \in resolving THEN UndeclareResolvingPeer(p) ELSE <<>>
  <2>1. step.act = "track" /\ step.on = p
    BY DEF Do
  <2>2. /\ c \in Point /\ c.locks = d.locks /\ c.known = d.known \ {p} /\ c.new = p
        /\ c.inside = d.inside /\ c.stopping = d.stopping /\ c.live = d.live
    BY DEF Linking, Sound, Point
  <2> HIDE DEF c, step
  <2>3. Sound(e, c)
    <3>1. DOMAIN c.locks = {1} /\ c.locks[1] = Unshared(Peers)
      BY <2>2
    <3>2. Taken(e, c, Peers)
      BY Takable
    <3>3. d.inside = NoPeer /\ \A x \in d.live : x[1] = e
      BY DEF Sound, Settled
    <3> QED
      BY <1>2, <2>2, <3>1, <3>2, <3>3, Entries DEF Sound
  <2>4. Fits(e, c)
    BY <1>5, <2>2 DEF Fits
  <2>5. May(e, c, Read(Resolving)) /\ May(e, c, Write(Peers))
    BY <1>1, <1>2, <2>2 DEF May, Unlocked
  <2>6. Safe(e, c, <<Read(Resolving)>>, c) /\ Safe(e, c, <<Write(Peers)>>, c)
    BY <1>1, <2>3, <2>5, Neutral
  <2>7. Safe(e, c, search, c)
    <3>1. CASE e = "client" /\ p \in resolving
      <4>1. CanTake(e, c, Resolving)
        BY <1>2, <1>3, <2>2, <3>1, Takable DEF CanTake
      <4> QED
        BY <2>3, <3>1, <4>1, UndeclareSafe
    <3>2. CASE ~(e = "client" /\ p \in resolving)
      BY <2>3, <3>2, Nothing
    <3> QED
      BY <3>1, <3>2
  <2> HIDE DEF search
  <2>8. Safe(e, c, AttachSecurityMediator(p), c)
    BY <2>2, <2>3, AttachSecurityMediatorSafe
  <2>9. Leads(e, c, step, d)
    <3>1. May(e, c, step)
      BY <2>1, <2>2 DEF May
    <3>2. LocksAfter(c.locks, step) = c.locks /\ KnownAfter(c.known, step) = c.known \cup {p}
      BY <2>1 DEF LocksAfter, KnownAfter
    <3>3. d.stopping \in BOOLEAN
      BY DEF Sound, Point
    <3> QED
      BY <2>1, <2>2, <3>1, <3>2, <3>3 DEF Leads, Settled
  <2>10. Safe(e, c, <<Write(Peers), step>>, d)
    BY <2>3, <2>6, <2>9, One, Compose, Rows
  <2>11. Safe(e, c, <<Read(Resolving)>> \o search, c)
    BY <2>6, <2>7, Compose
  <2>12. Safe(e, c, <<Read(Resolving)>> \o search \o AttachSecurityMediator(p), c)
    BY <2>8, <2>11, Compose
  <2>13. Safe(e, c, <<Read(Resolving)>> \o search \o AttachSecurityMediator(p)
                    \o <<Write(Peers), step>>, d)
    BY <2>10, <2>12, Compose
  <2> QED
    BY <1>5, <2>4, <2>13 DEF Link, search, step
<1> QED
  BY <1>4, <1>5

(* A point in the processor of a peer.                                     *)
Inside(d, p) == [d EXCEPT !.inside = p]

(* What follows once ScheduleReceive has found who receives.               *)
LEMMA CollectSafe ==
    ASSUME NEW d, NEW e \in Endpoint, NEW p \in Peer, Sound(e, d), Settled(d), Fits(e, d),
           d.locks = <<Unshared(Registrations(p)), Unshared(Receiver(p))>>,
           linked \subseteq Peer, sink[p] \in Value, NEW body \in Collect(e, p)
    PROVE  \E c : Fits(e, c) /\ Safe(e, c, body, d)
<1>1. /\ Has(d.locks, Registrations(p)) /\ Alone(d.locks, Receiver(p))
      /\ Below(d.locks, 5) /\ Below(d.locks, 6)
  <2>1. DOMAIN d.locks = {1, 2} /\ d.locks[1] = Unshared(Registrations(p))
        /\ d.locks[2] = Unshared(Receiver(p))
    BY DEF Settled
  <2>2. Rank(Registrations(p)) = 3 /\ Rank(Receiver(p)) = 4
    BY Ranks
  <2> QED
    BY <2>1, <2>2, Entries DEF Has, Alone, Below
<1>2. p \in d.known
  <2>1. 1 \in DOMAIN d.locks /\ d.locks[1].mutex = Registrations(p)
    BY Entries
  <2>2. Taken(e, d, Registrations(p))
    BY <2>1 DEF Sound
  <2> QED
    BY <2>2, Owners, NoPeerIsNone DEF Taken, Settled
<1>3. ASSUME NEW c, Sound(e, c), c.locks = d.locks, c.known = d.known
      PROVE  /\ Safe(e, c, <<>>, c)
             /\ Safe(e, c, ScheduleSend(e, p), c)
             /\ Safe(e, c, OnFulfilledStrategy(p), c)
             /\ Safe(e, c, SecurityContext(p), c)
             /\ \A value \in Value : Safe(e, c, OnExchangeClose(p, value), c)
  <2>1. CanTake(e, c, Registrations(p)) /\ CanTake(e, c, Security(p))
    <3>1. Rank(Security(p)) = 5
      BY Ranks
    <3> QED
      BY <1>1, <1>2, <1>3, <3>1, Takable, Recursions DEF CanTake
  <2>2. Safe(e, c, <<>>, c) /\ Safe(e, c, ScheduleSend(e, p), c)
    BY <1>1, <1>3, <2>1, Nothing, SendSafe
  <2>3. Safe(e, c, OnFulfilledStrategy(p), c) /\ Safe(e, c, SecurityContext(p), c)
    BY <1>3, <2>1, OnFulfilledStrategySafe, SecurityContextSafe
  <2>4. \A value \in Value : Safe(e, c, OnExchangeClose(p, value), c)
    BY <1>1, <1>2, <1>3, <2>1, OnExchangeCloseSafe
  <2> QED
    BY <2>2, <2>3, <2>4
<1>4. CASE sink[p] = "exchange"
  <2> DEFINE c == Inside(d, p)
             step == Do("return", p)
             some == ScheduleSend(e, p) \o OnFulfilledStrategy(p) \o OnExchangeClose(p, "authorized")
  <2>1. PICK part \in {<<>>, ScheduleSend(e, p), some, OnExchangeClose(p, "none")} :
            body = part \o <<step>>
    BY <1>4 DEF Collect, Exchange
  <2>2. /\ c \in Point /\ c.locks = d.locks /\ c.known = d.known /\ c.new = d.new
        /\ c.inside = p /\ c.stopping = d.stopping /\ c.live = d.live
    BY DEF Inside, Sound, Point
  <2>3. step.act = "return" /\ step.on = p
    BY DEF Do
  <2> HIDE DEF c, step
  <2>4. Sound(e, c)
    <3>1. \A m : Taken(e, d, m) => Taken(e, c, m)
      BY <2>2 DEF Taken
    <3> QED
      BY <1>1, <2>2, <3>1 DEF Sound
  <2>5. Fits(e, c)
    BY <2>2 DEF Fits
  <2>6. Safe(e, c, part, c)
    <3>1. Safe(e, c, ScheduleSend(e, p) \o OnFulfilledStrategy(p), c)
      BY <1>3, <2>2, <2>4, Compose
    <3>2. Safe(e, c, some, c)
      BY <1>3, <2>2, <2>4, <3>1, Compose DEF Value
    <3> HIDE DEF some
    <3>3. CASE part = some
      BY <3>2, <3>3
    <3>4. CASE part # some
      BY <1>3, <2>2, <2>4, <3>4 DEF Value
    <3> QED
      BY <3>3, <3>4
  <2>7. Leads(e, c, step, d)
    <3>1. May(e, c, step)
      BY <2>2, <2>3 DEF May
    <3>2. LocksAfter(c.locks, step) = c.locks /\ KnownAfter(c.known, step) = c.known
      BY <2>3 DEF LocksAfter, KnownAfter
    <3>3. d.stopping \in BOOLEAN
      BY DEF Sound, Point
    <3> QED
      BY <2>2, <2>3, <3>1, <3>2, <3>3 DEF Leads, Settled
  <2>8. Safe(e, c, part \o <<step>>, d)
    BY <2>4, <2>6, <2>7, One, Compose
  <2> QED
    BY <2>1, <2>5, <2>8
<1>5. CASE sink[p] = "authorized"
  <2>1. body \in {<<>>, SecurityContext(p), ScheduleSend(e, p)}
    BY <1>5 DEF Collect
  <2>2. Safe(e, d, body, d)
    BY <1>3, <2>1
  <2> QED
    BY <2>2
<1>6. CASE sink[p] = "none"
  <2>1. body = <<>>
    BY <1>6 DEF Collect
  <2>2. Safe(e, d, body, d)
    BY <1>3, <2>1
  <2> QED
    BY <2>2
<1> QED
  BY <1>4, <1>5, <1>6 DEF Value

(* What follows once ForEachCachedIdentifier has the peers.                *)
LEMMA EachSafe ==
    ASSUME NEW t, NEW d, Sound(t, d), Settled(d), Fits(t, d), d.locks = <<Shared(Peers)>>,
           linked \subseteq Peer, NEW visited \in SUBSET Peer, NEW body \in Each(visited)
    PROVE  \E c : Fits(t, c) /\ Safe(t, c, body, d)
<1>1. CASE linked \subseteq visited
  <2>1. body = <<>>
    BY <1>1 DEF Each
  <2> QED
    BY <2>1, Nothing
<1>2. CASE ~(linked \subseteq visited)
  <2>1. PICK p \in linked \ visited :
            body = ReadRegistrations(p) \o <<Do("each", visited \cup {p})>>
    BY <1>2 DEF Each
  <2> DEFINE c == Knowing(d, p)
             step == Do("each", visited \cup {p})
  <2>2. p \in Peer
    BY <2>1
  <2>3. Sound(t, c) /\ c.known = d.known \cup {p} /\ c.locks = d.locks /\ Alike(d, c)
    <3>1. Knows(t, d, p, c)
      BY <2>2, KnowsIt
    <3> QED
      BY <3>1 DEF Knows
  <2>4. step.act = "each" /\ step.on = visited \cup {p}
    BY DEF Do
  <2> HIDE DEF c, step
  <2>5. Fits(t, c)
    BY <2>1, <2>3 DEF Fits, Alike
  <2>6. CanTake(t, c, Registrations(p))
    <3>1. DOMAIN c.locks = {1} /\ c.locks[1] = Shared(Peers)
      BY <2>3
    <3>2. Rank(Peers) = 1 /\ Rank(Registrations(p)) = 3
      BY <2>2, Ranks
    <3>3. Below(c.locks, 3)
      BY <3>1, <3>2, Entries DEF Below
    <3> QED
      BY <2>2, <2>3, <3>2, <3>3, Takable DEF CanTake
  <2>7. Safe(t, c, ReadRegistrations(p), c)
    BY <2>2, <2>3, <2>6, ReadRegistrationsSafe
  <2>8. Leads(t, c, step, d)
    <3>1. May(t, c, step)
      BY <2>2, <2>3, <2>4 DEF May, Settled, Alike
    <3>2. LocksAfter(c.locks, step) = c.locks /\ KnownAfter(c.known, step) = c.known
      BY <2>4 DEF LocksAfter, KnownAfter
    <3>3. d.stopping \in BOOLEAN
      BY DEF Sound, Point
    <3> QED
      BY <2>3, <2>4, <3>1, <3>2, <3>3 DEF Leads, Alike
  <2>9. Safe(t, c, ReadRegistrations(p) \o <<step>>, d)
    BY <2>3, <2>7, <2>8, One, Compose
  <2> QED
    BY <2>1, <2>5, <2>9 DEF step
<1> QED
  BY <1>1, <1>2

-------------------------------------------------------------------------------
(* A thread is in a safe call, which ends with no mutex held.              *)
CallOK(t) ==
    \E c, d : Fits(t, c) /\ Safe(t, c, calls[t], d) /\ d.locks = <<>> /\ ~d.stopping

(* Two threads hold a mutex only if they share it.                         *)
Exclusive ==
    \A t, u \in Thread : t # u =>
        \A j \in DOMAIN holds[t], k \in DOMAIN holds[u] :
            holds[t][j].mutex = holds[u][k].mutex => holds[t][j].shared /\ holds[u][k].shared

(* Members have their types, and who is authorized or promoted is linked.  *)
DataOK ==
    /\ resolving \subseteq Peer
    /\ linked \subseteq Peer
    /\ sink \in [Peer -> Value]
    /\ \A p \in Peer : sink[p] = "authorized" => p \in linked
    /\ sessions \subseteq Connection
    /\ promoted \subseteq sessions
    /\ \A x \in promoted : x[2] \in linked

(***************************************************************************)
(* The inductive invariant: every thread is in a safe call, two threads    *)
(* hold the same mutex only if both share it, and what has a peer, or is   *)
(* authorized, is linked.                                                  *)
(***************************************************************************)
IInv ==
    /\ DOMAIN calls = Thread /\ DOMAIN holds = Thread
    /\ holds = [t \in Thread |-> holds[t]]
    /\ DataOK
    /\ Exclusive
    /\ \A t \in Thread : CallOK(t)

(* What one thread has for itself, no other has.                           *)
LEMMA Apart ==
    ASSUME Exclusive, NEW t \in Thread, NEW u \in Thread, t # u, NEW m, Alone(holds[t], m)
    PROVE  ~Has(holds[u], m)
<1>1. PICK j \in DOMAIN holds[t] : holds[t][j] = Unshared(m)
  BY DEF Alone
<1>2. holds[t][j].mutex = m /\ ~holds[t][j].shared
  BY <1>1, Entries
<1> QED
  BY <1>2 DEF Exclusive, Has

(* The calls of the other threads are as safe as they were.                *)
LEMMA OthersGoOn ==
    ASSUME IInv, NEW t \in Thread, CallOK(t)',
           \A u \in Thread \ {t} : calls'[u] = calls[u] /\ holds'[u] = holds[u],
           linked \subseteq linked', linked' \subseteq Peer,
           linked' = linked \/ Alone(holds[t], Peers),
           \A x \in sessions : x[1] # t => x \in sessions'
    PROVE  \A u \in Thread : CallOK(u)'
<1> SUFFICES ASSUME NEW u \in Thread, u # t PROVE CallOK(u)'
  OBVIOUS
<1>1. PICK c, d : Fits(u, c) /\ Safe(u, c, calls[u], d) /\ d.locks = <<>> /\ ~d.stopping
  BY DEF IInv, CallOK
<1>2. c.new \notin linked'
  <2>1. CASE c.new = NoPeer
    BY <2>1, NoPeerIsNone
  <2>2. CASE c.new # NoPeer /\ linked' # linked
    <3>1. Alone(holds[u], Peers)
      BY <1>1, <2>2 DEF Fits, Safe, Sound
    <3>2. ~Has(holds[u], Peers)
      BY <2>2, Apart DEF IInv
    <3>3. Has(holds[u], Peers)
      BY <3>1, Entries DEF Has, Alone
    <3> QED
      BY <3>2, <3>3
  <2>3. CASE linked' = linked
    BY <1>1, <2>3 DEF Fits
  <2> QED
    BY <2>1, <2>2, <2>3
<1>3. \A x \in c.live : x \in sessions'
  <2>1. \A x \in c.live : x[1] = u /\ x \in sessions
    BY <1>1 DEF Fits, Safe, Sound
  <2> QED
    BY <2>1
<1>4. Fits(u, c)'
  BY <1>1, <1>2, <1>3 DEF Fits
<1>5. calls'[u] = calls[u]
  OBVIOUS
<1> QED
  BY <1>1, <1>4, <1>5 DEF CallOK

(* A thread that goes on is at the head of a safe call.                    *)
LEMMA Going ==
    ASSUME IInv, NEW t \in Thread, calls[t] # <<>>
    PROVE  \E c, m, d :
              /\ Fits(t, c) /\ Sound(t, c)
              /\ Leads(t, c, Head(calls[t]), m) /\ Safe(t, m, Tail(calls[t]), d)
              /\ d.locks = <<>> /\ ~d.stopping
<1>1. PICK c, d : Fits(t, c) /\ Safe(t, c, calls[t], d) /\ d.locks = <<>> /\ ~d.stopping
  BY DEF IInv, CallOK
<1>2. PICK m : Leads(t, c, Head(calls[t]), m) /\ Safe(t, m, Tail(calls[t]), d)
  BY <1>1, First
<1> QED
  BY <1>1, <1>2 DEF Safe

(* What a thread has to do once it has done the first of it.               *)
LEMMA Gone ==
    ASSUME IInv, NEW t \in Thread, calls[t] # <<>>, NEW body, GoesOn(t, body)
    PROVE  /\ DOMAIN calls' = Thread
           /\ calls'[t] = body \o Tail(calls[t])
           /\ body = <<>> => calls'[t] = Tail(calls[t])
           /\ \A u \in Thread \ {t} : calls'[u] = calls[u]
<1>1. /\ DOMAIN calls' = Thread
      /\ calls'[t] = body \o Tail(calls[t])
      /\ \A u \in Thread \ {t} : calls'[u] = calls[u]
  BY DEF GoesOn, IInv
<1>2. ASSUME body = <<>> PROVE calls'[t] = Tail(calls[t])
  <2>1. PICK c, m, d : Safe(t, m, Tail(calls[t]), d)
    BY Going
  <2>2. PICK S : Tail(calls[t]) \in Seq(S)
    BY <2>1 DEF Safe
  <2> QED
    BY <1>1, <1>2, <2>2, ConcatEmptySeq
<1> QED
  BY <1>1, <1>2

(* A thread that has none to call holds nothing.                           *)
LEMMA Idle ==
    ASSUME IInv, NEW t \in Thread, calls[t] = <<>>
    PROVE  holds[t] = <<>>
<1>1. PICK c, d : Fits(t, c) /\ Safe(t, c, calls[t], d) /\ d.locks = <<>>
  BY DEF IInv, CallOK
<1>2. Len(calls[t]) + 1 = 1
  OBVIOUS
<1>3. c = d
  BY <1>1, <1>2 DEF Safe
<1> QED
  BY <1>1, <1>3 DEF Fits

(***************************************************************************)
(* A thread takes a mutex that nobody has, and drops what it has.          *)
(***************************************************************************)
LEMMA TakeOK == ASSUME IInv, NEW t \in Thread, Take(t) PROVE IInv'
<1> DEFINE step == Head(calls[t])
           entry == IF Starts(t, "share") THEN Shared(On(t)) ELSE Unshared(On(t))
<1>1. calls[t] # <<>> /\ step.on = On(t) /\ step.act \in {"take", "share"}
  BY DEF Take, Starts, On
<1>2. PICK c, m, d : /\ Fits(t, c) /\ Sound(t, c)
                     /\ Leads(t, c, step, m) /\ Safe(t, m, Tail(calls[t]), d)
                     /\ d.locks = <<>> /\ ~d.stopping
  BY <1>1, Going
<1>3. Starts(t, "share") <=> step.act = "share"
  BY <1>1 DEF Starts
<1>4. /\ DOMAIN calls' = Thread /\ calls'[t] = Tail(calls[t])
      /\ \A u \in Thread \ {t} : calls'[u] = calls[u]
  BY <1>1, Gone DEF Take
<1>5. /\ DOMAIN holds' = Thread
      /\ holds'[t] = Append(holds[t], entry)
      /\ \A u \in Thread \ {t} : holds'[u] = holds[u]
  <2>1. [mutex |-> On(t), shared |-> Starts(t, "share")] = entry
    <3> DEFINE shares == Starts(t, "share")
    <3>1. shares \in BOOLEAN
      BY DEF Starts
    <3> HIDE DEF shares
    <3>2. [mutex |-> On(t), shared |-> shares]
              = IF shares THEN Shared(On(t)) ELSE Unshared(On(t))
      BY <3>1 DEF Unshared, Shared
    <3> QED
      BY <3>2 DEF shares
  <2> QED
    BY <2>1 DEF Take, IInv
<1> HIDE DEF step, entry
<1>6. UNCHANGED data
  BY DEF Take
<1>7. May(t, c, step)
  BY <1>2 DEF Leads
<1>8. /\ On(t) \in Mutex
      /\ step.act = "share" => On(t) = Peers
  BY <1>1, <1>7, Ranks DEF May, CanTake, Taken
<1>9. /\ holds[t] \in Seq(Entry) /\ entry \in Entry /\ entry.mutex = On(t)
      /\ entry.shared <=> step.act = "share"
  BY <1>2, <1>3, <1>8, Entries DEF entry, Fits, Sound, Point
<1>10. m.locks = holds'[t]
  BY <1>1, <1>2, <1>3, <1>5 DEF Leads, LocksAfter, Fits, entry
<1>11. Fits(t, m)'
  <2>1. /\ m.known \subseteq c.known /\ m.new = c.new /\ m.live \subseteq c.live
    BY <1>1, <1>2 DEF Leads, KnownAfter
  <2> QED
    BY <1>2, <1>6, <1>10, <2>1 DEF Fits, data
<1>12. \A u \in Thread : CallOK(u)'
  <2>1. CallOK(t)'
    BY <1>2, <1>4, <1>11 DEF CallOK
  <2> QED
    BY <1>4, <1>5, <1>6, <2>1, OthersGoOn DEF data, IInv, DataOK
<1>13. ASSUME NEW u \in Thread, u # t, NEW j \in DOMAIN holds'[t], NEW k \in DOMAIN holds'[u],
              holds'[t][j].mutex = holds'[u][k].mutex
       PROVE  holds'[t][j].shared /\ holds'[u][k].shared
  <2>1. holds'[u] = holds[u]
    BY <1>5, <1>13
  <2>2. holds'[t][j] = entry \/ \E i \in DOMAIN holds[t] : holds'[t][j] = holds[t][i]
    <3>1. Grown(holds[t], entry, holds'[t])
      BY <1>5, <1>9, Appended
    <3> QED
      BY <3>1 DEF Grown
  <2>3. CASE \E i \in DOMAIN holds[t] : holds'[t][j] = holds[t][i]
    BY <1>13, <2>1, <2>3 DEF IInv, Exclusive
  <2>4. CASE holds'[t][j] = entry
    <3>1. Holds(u, On(t))
      BY <1>9, <1>13, <2>1, <2>4 DEF Holds
    <3>2. ~WaitsFor(t, u)
      BY DEF Take
    <3>3. step.act # "take"
      BY <1>1, <1>13, <3>1, <3>2 DEF WaitsFor, Starts, step
    <3>4. Starts(t, "share") /\ entry.shared
      BY <1>1, <1>3, <1>9, <3>3
    <3>5. ~HoldsAlone(u, On(t))
      BY <3>2, <3>4 DEF WaitsFor
    <3>6. holds[u][k].shared
      <4>1. holds[u][k] \in Entry
        <5>1. PICK cu : Fits(u, cu) /\ Sound(u, cu)
          BY DEF IInv, CallOK, Safe
        <5> QED
          BY <2>1, <5>1, ElementOfSeq DEF Fits, Sound, Point
      <4>2. holds[u][k].mutex = On(t)
        BY <1>9, <1>13, <2>1, <2>4
      <4>3. holds[u][k] # [mutex |-> On(t), shared |-> FALSE]
        BY <2>1, <3>5 DEF HoldsAlone
      <4> QED
        BY <4>1, <4>2, <4>3 DEF Entry
    <3> QED
      BY <2>1, <2>4, <3>4, <3>6
  <2> QED
    BY <2>2, <2>3, <2>4
<1>14. Exclusive'
  <2> SUFFICES ASSUME NEW v \in Thread, NEW u \in Thread, v # u,
                      NEW j \in DOMAIN holds'[v], NEW k \in DOMAIN holds'[u],
                      holds'[v][j].mutex = holds'[u][k].mutex
               PROVE  holds'[v][j].shared /\ holds'[u][k].shared
    BY DEF Exclusive
  <2>1. CASE v = t
    BY <1>13, <2>1
  <2>2. CASE u = t
    BY <1>13, <2>2
  <2>3. CASE v # t /\ u # t
    <3>1. holds'[v] = holds[v] /\ holds'[u] = holds[u]
      BY <1>5, <2>3
    <3> QED
      BY <3>1 DEF IInv, Exclusive
  <2> QED
    BY <2>1, <2>2, <2>3
<1>15. DataOK'
  BY <1>6 DEF data, IInv, DataOK
<1>16. holds' = [u \in Thread |-> holds'[u]]
  BY DEF Take, IInv
<1> QED
  BY <1>4, <1>5, <1>12, <1>14, <1>15, <1>16 DEF IInv

(* A thread drops the mutex that it took last.                             *)
LEMMA DropOK == ASSUME IInv, NEW t \in Thread, Drop(t) PROVE IInv'
<1> DEFINE step == Head(calls[t])
           n == Len(holds[t]) - 1
<1>1. calls[t] # <<>> /\ step.act = "drop"
  BY DEF Drop, Starts
<1>2. PICK c, m, d : /\ Fits(t, c) /\ Sound(t, c)
                     /\ Leads(t, c, step, m) /\ Safe(t, m, Tail(calls[t]), d)
                     /\ d.locks = <<>> /\ ~d.stopping
  BY <1>1, Going
<1>3. /\ DOMAIN calls' = Thread /\ calls'[t] = Tail(calls[t])
      /\ \A u \in Thread \ {t} : calls'[u] = calls[u]
  BY <1>1, Gone DEF Drop
<1>4. /\ DOMAIN holds' = Thread
      /\ holds'[t] = SubSeq(holds[t], 1, n)
      /\ \A u \in Thread \ {t} : holds'[u] = holds[u]
      /\ UNCHANGED data
  BY DEF Drop, IInv
<1> HIDE DEF step
<1>5. holds[t] \in Seq(Entry) /\ holds[t] # <<>>
  <2>1. May(t, c, step)
    BY <1>2 DEF Leads
  <2> QED
    BY <1>1, <1>2, <2>1 DEF May, Fits, Sound, Point
<1>6. \A j \in DOMAIN holds'[t] : j \in DOMAIN holds[t] /\ holds'[t][j] = holds[t][j]
  <2>1. n \in Nat /\ Len(holds[t]) = n + 1 /\ DOMAIN holds[t] = 1..(n + 1)
    BY <1>5, LenProperties, EmptySeq
  <2> HIDE DEF n
  <2>2. \A k \in 1..n : holds[t][k] \in Entry
    BY <1>5, <2>1, ElementOfSeq
  <2>3. 1 \in Int /\ n \in Int /\ n - 1 + 1 = n
    BY <2>1
  <2>4. /\ holds'[t] \in Seq(Entry)
        /\ Len(holds'[t]) = IF 1 <= n THEN n - 1 + 1 ELSE 0
        /\ \A i \in 1..(n - 1 + 1) : holds'[t][i] = holds[t][1 + i - 1]
    BY <1>4, <2>2, <2>3, SubSeqProperties
  <2>5. DOMAIN holds'[t] = 1..n
    BY <2>1, <2>4, LenProperties
  <2> QED
    BY <2>1, <2>3, <2>4, <2>5
<1>7. m.locks = holds'[t]
  BY <1>1, <1>2, <1>4 DEF Leads, LocksAfter, Fits
<1>8. Fits(t, m)'
  <2>1. /\ m.known \subseteq c.known /\ m.new = c.new /\ m.live \subseteq c.live
    BY <1>1, <1>2 DEF Leads, KnownAfter
  <2> QED
    BY <1>2, <1>4, <1>7, <2>1 DEF Fits, data
<1>9. \A u \in Thread : CallOK(u)'
  <2>1. CallOK(t)'
    BY <1>2, <1>3, <1>8 DEF CallOK
  <2> QED
    BY <1>3, <1>4, <2>1, OthersGoOn DEF data, IInv, DataOK
<1>10. Exclusive'
  <2>1. \A u \in Thread : \A j \in DOMAIN holds'[u] :
            j \in DOMAIN holds[u] /\ holds'[u][j] = holds[u][j]
    BY <1>4, <1>6
  <2> QED
    BY <2>1 DEF IInv, Exclusive
<1>11. DataOK'
  BY <1>4 DEF data, IInv, DataOK
<1>12. holds' = [u \in Thread |-> holds'[u]]
  BY DEF Drop, IInv
<1> QED
  BY <1>3, <1>4, <1>9, <1>10, <1>11, <1>12 DEF IInv

(***************************************************************************)
(* A thread accesses a container, decides by what it finds, or changes it. *)
(***************************************************************************)
LEMMA AccessOK == ASSUME IInv, NEW t \in Thread, Access(t) PROVE IInv'
<1> DEFINE step == Head(calls[t])
<1>1. calls[t] # <<>> /\ step.act \in {"read", "write", "return", "destroy"}
  BY DEF Access, Starts
<1>2. PICK c, m, d : /\ Fits(t, c) /\ Sound(t, c)
                     /\ Leads(t, c, step, m) /\ Safe(t, m, Tail(calls[t]), d)
                     /\ d.locks = <<>> /\ ~d.stopping
  BY <1>1, Going
<1>3. /\ DOMAIN calls' = Thread /\ calls'[t] = Tail(calls[t])
      /\ \A u \in Thread \ {t} : calls'[u] = calls[u]
      /\ UNCHANGED <<holds, data>>
  BY <1>1, Gone DEF Access
<1> HIDE DEF step
<1>4. Fits(t, m)'
  <2>1. /\ m.known \subseteq c.known /\ m.new = c.new /\ m.live \subseteq c.live
        /\ m.locks = c.locks
    BY <1>1, <1>2 DEF Leads, KnownAfter, LocksAfter
  <2> QED
    BY <1>2, <1>3, <2>1 DEF Fits, data
<1>5. CallOK(t)'
  BY <1>2, <1>3, <1>4 DEF CallOK
<1>6. \A u \in Thread : CallOK(u)'
  BY <1>3, <1>5, OthersGoOn DEF data, IInv, DataOK
<1> QED
  BY <1>3, <1>6 DEF IInv, Exclusive, DataOK, data

(* A thread goes on by what it finds.                                      *)
LEMMA DecideOK == ASSUME IInv, NEW t \in Thread, Decide(t) PROVE IInv'
<1> DEFINE step == Head(calls[t])
<1>1. /\ calls[t] # <<>> /\ step.act \in {"link", "collect", "each"} /\ On(t) = step.on
      /\ UNCHANGED <<holds, data>>
  BY DEF Decide, Starts, On
<1>2. PICK c, m, d : /\ Fits(t, c) /\ Sound(t, c)
                     /\ Leads(t, c, step, m) /\ Safe(t, m, Tail(calls[t]), d)
                     /\ d.locks = <<>> /\ ~d.stopping
  BY <1>1, Going
<1>3. PICK body : /\ GoesOn(t, body)
                  /\ step.act = "link" => body = Link(On(t)[1], On(t)[2])
                  /\ step.act = "collect" => body \in Collect(On(t)[1], On(t)[2])
                  /\ step.act = "each" => body \in Each(On(t))
  BY <1>1 DEF Decide, Starts
<1>4. /\ DOMAIN calls' = Thread /\ calls'[t] = body \o Tail(calls[t])
      /\ \A u \in Thread \ {t} : calls'[u] = calls[u]
  BY <1>1, <1>3, Gone
<1> HIDE DEF step
<1>5. /\ m.locks = c.locks /\ m.new = c.new /\ m.inside = c.inside /\ m.live \subseteq c.live
      /\ m.known \subseteq KnownAfter(c.known, step)
      /\ m.stopping = c.stopping /\ Sound(t, m) /\ May(t, c, step) /\ Settled(c)
  <2>1. c.stopping \in BOOLEAN
    BY <1>2 DEF Sound, Point
  <2> QED
    BY <1>1, <1>2, <2>1 DEF Leads, LocksAfter, May
<1>6. /\ Settled(m) /\ m.locks = holds[t] /\ m.live \subseteq sessions /\ linked \subseteq Peer
  BY <1>2, <1>5 DEF Settled, Fits, IInv, DataOK
<1>7. \E b : Fits(t, b) /\ Safe(t, b, body, m)
  <2>1. CASE step.act = "link"
    <3>1. PICK p \in Peer : step.on = <<t, p>> /\ t \in Endpoint /\ c.locks = <<Unshared(Peers)>>
      BY <1>5, <2>1 DEF May
    <3>2. On(t)[1] = t /\ On(t)[2] = p
      BY <1>1, <3>1
    <3>3. m.known \ {p} \subseteq linked
      BY <1>2, <1>5, <2>1, <3>1 DEF KnownAfter, Fits
    <3> QED
      BY <1>3, <1>5, <1>6, <2>1, <3>1, <3>2, <3>3, LinkSafe
  <2>2. CASE step.act = "collect"
    <3>1. PICK p \in Peer : /\ step.on = <<t, p>> /\ t \in Endpoint
                            /\ c.locks = <<Unshared(Registrations(p)), Unshared(Receiver(p))>>
      BY <1>2, <1>5, <2>2 DEF May, Sound, Point
    <3>2. On(t)[1] = t /\ On(t)[2] = p
      BY <1>1, <3>1
    <3>3. Fits(t, m)
      BY <1>2, <1>5, <2>2 DEF KnownAfter, Fits
    <3>4. sink[p] \in Value
      BY DEF IInv, DataOK
    <3>5. body \in Collect(t, p)
      BY <1>3, <2>2, <3>2
    <3> QED
      BY <1>5, <1>6, <3>1, <3>3, <3>4, <3>5, CollectSafe
  <2>3. CASE step.act = "each"
    <3>1. step.on \in SUBSET Peer /\ c.locks = <<Shared(Peers)>>
      BY <1>5, <2>3 DEF May
    <3>2. Fits(t, m)
      BY <1>2, <1>5, <2>3 DEF KnownAfter, Fits
    <3> QED
      BY <1>1, <1>3, <1>5, <1>6, <2>3, <3>1, <3>2, EachSafe
  <2> QED
    BY <1>1, <2>1, <2>2, <2>3
<1>8. CallOK(t)'
  <2>1. PICK b : Fits(t, b) /\ Safe(t, b, body, m)
    BY <1>7
  <2>2. Safe(t, b, calls'[t], d)
    BY <1>2, <1>4, <2>1, Compose
  <2>3. Fits(t, b)'
    BY <1>1, <2>1 DEF Fits, data
  <2> QED
    BY <1>2, <2>2, <2>3 DEF CallOK
<1>9. \A u \in Thread : CallOK(u)'
  BY <1>1, <1>4, <1>8, OthersGoOn DEF data, IInv, DataOK
<1> QED
  BY <1>1, <1>4, <1>9 DEF IInv, Exclusive, DataOK, data

(* A thread changes what its mutexes protect.                              *)
LEMMA ChangeOK == ASSUME IInv, NEW t \in Thread, Change(t) PROVE IInv'
<1> DEFINE step == Head(calls[t])
<1>1. /\ calls[t] # <<>> /\ On(t) = step.on /\ UNCHANGED holds
      /\ step.act \in {"declare", "undeclare", "track", "none", "exchange", "authorized", "start",
                       "stop", "promote"}
      /\ \A act : Starts(t, act) <=> step.act = act
  BY DEF Change, Starts, On
<1>2. PICK c, m, d : /\ Fits(t, c) /\ Sound(t, c)
                     /\ Leads(t, c, step, m) /\ Safe(t, m, Tail(calls[t]), d)
                     /\ d.locks = <<>> /\ ~d.stopping
  BY <1>1, Going
<1>3. /\ DOMAIN calls' = Thread /\ calls'[t] = Tail(calls[t])
      /\ \A u \in Thread \ {t} : calls'[u] = calls[u]
  BY <1>1, Gone DEF Change
<1> HIDE DEF step
<1>4. /\ resolving' = CASE step.act = "declare" -> resolving \cup {step.on}
                        [] step.act = "undeclare" -> resolving \ {step.on}
                        [] OTHER -> resolving
      /\ linked' = IF step.act = "track" THEN linked \cup {step.on} ELSE linked
      /\ sink' = IF step.act \in Value THEN [sink EXCEPT ![step.on] = step.act] ELSE sink
      /\ sessions' = CASE step.act = "start" -> sessions \cup {step.on}
                       [] step.act = "stop" -> sessions \ {step.on}
                       [] OTHER -> sessions
      /\ promoted' = CASE step.act = "promote" -> promoted \cup {step.on}
                       [] step.act = "stop" -> promoted \ {step.on}
                       [] OTHER -> promoted
  BY <1>1 DEF Change, Value, step
<1>5. /\ May(t, c, step) /\ Sound(t, m)
      /\ m.locks = c.locks /\ m.known \subseteq KnownAfter(c.known, step)
      /\ m.new = IF step.act = "track" THEN NoPeer ELSE c.new
      /\ m.live \subseteq IF step.act = "stop" THEN c.live \ {step.on} ELSE c.live
  BY <1>1, <1>2 DEF Leads, LocksAfter
<1>6. /\ step.act \in {"declare", "undeclare", "track", "none", "exchange"} => step.on \in Peer
      /\ step.act = "track" => c.new = step.on
      /\ step.act = "authorized" => step.on \in c.known
      /\ step.act \in {"start", "stop"} => step.on \in Connection /\ step.on[1] = t
      /\ step.act = "promote" => step.on \in c.live /\ step.on[2] \in c.known
  BY <1>1, <1>5 DEF May
<1>7. c.known \subseteq linked /\ c.live \subseteq sessions /\ c.new \notin linked
  BY <1>2 DEF Fits
<1>8. linked \subseteq linked' /\ linked' \subseteq Peer
  BY <1>4, <1>6 DEF IInv, DataOK
<1>9. DataOK'
  <2>1. resolving' \subseteq Peer
    BY <1>1, <1>4, <1>6 DEF IInv, DataOK
  <2>2. /\ sink' \in [Peer -> Value]
        /\ \A p \in Peer : sink'[p] = "authorized" => p \in linked'
    <3>1. CASE step.act \in Value
      <4>1. /\ DOMAIN sink' = Peer
            /\ \A p \in Peer : sink'[p] = IF p = step.on THEN step.act ELSE sink[p]
        BY <1>4, <3>1 DEF IInv, DataOK
      <4>2. \A p \in Peer : sink'[p] \in Value
        BY <3>1, <4>1 DEF IInv, DataOK
      <4>3. sink' = [p \in Peer |-> sink'[p]]
        BY <1>4, <3>1 DEF IInv, DataOK
      <4>4. \A p \in Peer : sink'[p] = "authorized" => p \in linked'
        BY <1>6, <1>7, <1>8, <4>1 DEF IInv, DataOK
      <4> QED
        BY <4>2, <4>3, <4>4
    <3>2. CASE step.act \notin Value
      BY <1>4, <1>8, <3>2 DEF IInv, DataOK
    <3> QED
      BY <3>1, <3>2
  <2>3. sessions' \subseteq Connection
    BY <1>1, <1>4, <1>6 DEF IInv, DataOK
  <2>4. promoted' \subseteq sessions'
    <3>1. CASE step.act = "stop"
      BY <1>4, <3>1 DEF IInv, DataOK
    <3>2. CASE step.act = "promote"
      BY <1>4, <1>6, <1>7, <3>2 DEF IInv, DataOK
    <3>3. CASE step.act \notin {"stop", "promote"}
      BY <1>1, <1>4, <3>3 DEF IInv, DataOK
    <3> QED
      BY <3>1, <3>2, <3>3
  <2>5. \A x \in promoted' : x[2] \in linked'
    <3>1. \A x \in promoted' : x \in promoted \/ (step.act = "promote" /\ x = step.on)
      BY <1>1, <1>4
    <3> QED
      BY <1>6, <1>7, <1>8, <3>1 DEF IInv, DataOK
  <2> QED
    BY <1>8, <2>1, <2>2, <2>3, <2>4, <2>5 DEF DataOK
<1>10. CallOK(t)'
  <2>1. m.known \subseteq linked'
    BY <1>1, <1>4, <1>5, <1>7 DEF KnownAfter
  <2>2. m.new \notin linked'
    BY <1>4, <1>5, <1>7, <1>8, NoPeerIsNone
  <2>3. m.live \subseteq sessions'
    BY <1>1, <1>4, <1>5, <1>7
  <2>4. m.locks = holds'[t]
    BY <1>1, <1>2, <1>5 DEF Fits
  <2>5. Fits(t, m)'
    BY <2>1, <2>2, <2>3, <2>4 DEF Fits
  <2> QED
    BY <1>2, <1>3, <2>5 DEF CallOK
<1>11. linked' = linked \/ Alone(holds[t], Peers)
  <2>1. CASE step.act = "track"
    BY <1>2, <1>6, <2>1, NoPeerIsNone DEF Sound, Fits
  <2>2. CASE step.act # "track"
    BY <1>4, <2>2
  <2> QED
    BY <2>1, <2>2
<1>12. \A x \in sessions : x[1] # t => x \in sessions'
  BY <1>1, <1>4, <1>6
<1>13. \A u \in Thread : CallOK(u)'
  BY <1>1, <1>3, <1>8, <1>10, <1>11, <1>12, OthersGoOn
<1> QED
  BY <1>1, <1>3, <1>9, <1>13 DEF IInv, Exclusive

(***************************************************************************)
(* Every call is safe where it is made: with no mutex held, by a thread    *)
(* that knows of the peers that are linked and of its sessions.            *)
(***************************************************************************)
Begin(known, stopping, live) ==
    [ locks |-> <<>>, known |-> known, new |-> NoPeer, inside |-> NoPeer,
      stopping |-> stopping, live |-> live ]

(* A point at which a thread calls.                                        *)
Begins(t, known, stopping, live, c) ==
    /\ Sound(t, c) /\ c.locks = <<>> /\ c.known = known /\ c.new = NoPeer /\ c.inside = NoPeer
    /\ c.stopping = stopping /\ c.live = live

(* There is such a point, wherever a thread has nothing left to do.        *)
LEMMA BeginsIt ==
    ASSUME NEW t, NEW known \in SUBSET Peer, NEW stopping \in BOOLEAN,
           NEW live \in SUBSET Connection, \A x \in live : x[1] = t
    PROVE  Begins(t, known, stopping, live, Begin(known, stopping, live))
<1> DEFINE c == Begin(known, stopping, live)
<1>1. c \in Point
  <2>1. <<>> \in Seq(Entry)
    OBVIOUS
  <2> QED
    BY <2>1 DEF Begin, Point
<1>2. /\ c.locks = <<>> /\ c.known = known /\ c.new = NoPeer /\ c.inside = NoPeer
      /\ c.stopping = stopping /\ c.live = live
  BY DEF Begin
<1> HIDE DEF c
<1>3. DOMAIN c.locks = {}
  BY <1>2
<1> QED
  BY <1>1, <1>2, <1>3 DEF Begins, Sound, c

(* A call that is safe may be made.                                        *)
LEMMA CallKeeps ==
    ASSUME IInv, NEW t \in Thread, NEW call, Call(t, call), NEW c, NEW d,
           Safe(t, c, call, d), c.locks = <<>>, c.known \subseteq linked, c.new = NoPeer,
           c.live \subseteq sessions, d.locks = <<>>, ~d.stopping
    PROVE  IInv'
<1>1. /\ DOMAIN calls' = Thread /\ calls'[t] = call /\ holds[t] = <<>>
      /\ \A u \in Thread \ {t} : calls'[u] = calls[u]
      /\ UNCHANGED <<holds, data>>
  BY Idle DEF Call, IInv
<1>2. Fits(t, c)'
  <2>1. NoPeer \notin linked
    BY NoPeerIsNone DEF IInv, DataOK
  <2> QED
    BY <1>1, <2>1 DEF Fits, data
<1>3. CallOK(t)'
  BY <1>1, <1>2 DEF CallOK
<1>4. \A u \in Thread : CallOK(u)'
  BY <1>1, <1>3, OthersGoOn DEF data, IInv, DataOK
<1> QED
  BY <1>1, <1>4 DEF IInv, Exclusive, DataOK, data

(* The client's worker calls about an address.                             *)
LEMMA CallOnPeerOK ==
    ASSUME IInv, NEW p \in Peer, CallDeclare(p) \/ CallUndeclare(p)
    PROVE  IInv'
<1> DEFINE c == Begin({}, FALSE, {})
<1>1. /\ Sound("client", c) /\ c.locks = <<>> /\ c.known = {} /\ c.new = NoPeer
      /\ c.stopping = FALSE /\ c.live = {}
  <2>1. Begins("client", {}, FALSE, {}, c)
    BY BeginsIt
  <2> QED
    BY <2>1 DEF Begins
<1>2. "client" \in Thread
  BY DEF Thread, Endpoint
<1> HIDE DEF c
<1>3. CASE CallDeclare(p)
  <2>1. PICK identified \in BOOLEAN : Call("client", DeclareResolvingPeer(p, identified))
    BY <1>3 DEF CallDeclare
  <2>2. Safe("client", c, DeclareResolvingPeer(p, identified), c)
    BY <1>1, DeclareSafe
  <2> QED
    BY <1>1, <1>2, <2>1, <2>2, CallKeeps
<1>4. CASE CallUndeclare(p)
  <2>1. CanTake("client", c, Resolving)
    BY <1>1, Takable, FreeToTake
  <2>2. Safe("client", c, UndeclareResolvingPeer(p), c)
    BY <1>1, <2>1, UndeclareSafe
  <2> QED
    BY <1>1, <1>2, <1>4, <2>2, CallKeeps DEF CallUndeclare
<1> QED
  BY <1>3, <1>4

(* A worker calls about one of its sessions.                               *)
LEMMA CallOnSessionOK ==
    ASSUME IInv, NEW e \in Endpoint, NEW p \in Peer,
           CallStarted(e, p) \/ CallReceived(e, p) \/ CallStopped(e, p)
    PROVE  IInv'
<1> DEFINE live == {<<e, p>>} \cap sessions
           stopping == CallStopped(e, p)
           c == Begin(linked, stopping, live)
<1>1. /\ Sound(e, c) /\ c.locks = <<>> /\ c.known = linked /\ c.new = NoPeer
      /\ c.inside = NoPeer /\ c.stopping = stopping /\ c.live = live
  <2>1. live \in SUBSET Connection /\ \A x \in live : x[1] = e
    BY DEF Connection
  <2>2. stopping \in BOOLEAN
    BY DEF CallStopped, Call
  <2>3. linked \in SUBSET Peer
    BY DEF IInv, DataOK
  <2> HIDE DEF stopping, live
  <2>4. Begins(e, linked, stopping, live, c)
    BY <2>1, <2>2, <2>3, BeginsIt
  <2> QED
    BY <2>4 DEF Begins
<1>2. e \in Thread
  BY DEF Thread
<1>3. <<e, p>> \in promoted => p \in linked
  <2>1. <<e, p>>[2] = p
    OBVIOUS
  <2> QED
    BY <2>1 DEF IInv, DataOK
<1>4. c.live \subseteq sessions /\ c.known \subseteq linked
  BY <1>1
<1> HIDE DEF c
<1>5. CASE stopping
  <2>1. Safe(e, c, OnSessionStopped(e, p), Stopped(c, <<e, p>>))
    BY <1>1, <1>3, <1>5, OnSessionStoppedSafe
  <2>2. Stops(e, c, <<e, p>>, Stopped(c, <<e, p>>))
    BY <1>1, StoppedIt
  <2>3. Stopped(c, <<e, p>>).locks = <<>> /\ ~Stopped(c, <<e, p>>).stopping
    BY <1>1, <2>2 DEF Stops
  <2>4. Call(e, OnSessionStopped(e, p))
    BY <1>5 DEF CallStopped
  <2> QED
    BY <1>1, <1>2, <1>4, <2>1, <2>3, <2>4, CallKeeps
<1>6. CASE ~stopping /\ CallStarted(e, p)
  <2>1. Safe(e, c, OnSessionStarted(e, p), c)
    BY <1>1, OnSessionStartedSafe
  <2> QED
    BY <1>1, <1>2, <1>4, <1>6, <2>1, CallKeeps DEF CallStarted
<1>7. CASE ~stopping /\ CallReceived(e, p)
  <2>1. /\ <<e, p>> \in c.live
        /\ Call(e, OnMessageReceived(e, p))
    BY <1>1, <1>7 DEF CallReceived
  <2>2. Settled(c)
    BY <1>1, <1>7 DEF Settled
  <2>3. PICK d : Safe(e, c, OnMessageReceived(e, p), d) /\ d.locks = <<>> /\ ~d.stopping
    BY <1>1, <1>3, <2>1, <2>2, OnMessageReceivedSafe
  <2> QED
    BY <1>1, <1>2, <1>4, <2>1, <2>3, CallKeeps
<1> QED
  BY <1>5, <1>6, <1>7

(* The core thread calls.                                                  *)
LEMMA CallOfCoreOK ==
    ASSUME IInv, (\E e \in Endpoint, p \in Peer : CallSend(e, p)) \/ CallForEach
    PROVE  IInv'
<1> DEFINE c == Begin(linked, FALSE, {})
<1>1. /\ Sound("core", c) /\ c.locks = <<>> /\ c.known = linked /\ c.new = NoPeer
      /\ c.inside = NoPeer /\ c.stopping = FALSE /\ c.live = {}
  <2>1. linked \in SUBSET Peer
    BY DEF IInv, DataOK
  <2>2. Begins("core", linked, FALSE, {}, c)
    BY <2>1, BeginsIt
  <2> QED
    BY <2>2 DEF Begins
<1>2. "core" \in Thread
  BY DEF Thread
<1> HIDE DEF c
<1>3. ASSUME NEW e \in Endpoint, NEW p \in Peer, CallSend(e, p) PROVE IInv'
  <2>1. p \in c.known
    BY <1>1, <1>3 DEF CallSend, IInv, DataOK
  <2>2. CanTake("core", c, Registrations(p)) /\ CanTake("core", c, Security(p))
    BY <1>1, <2>1, Takable, FreeToTake
  <2>3. Below(c.locks, 6)
    BY <1>1 DEF Below
  <2>4. Safe("core", c, SecurityContext(p) \o ScheduleSend(e, p), c)
    BY <1>1, <2>2, <2>3, SecurityContextSafe, SendSafe, Compose
  <2> QED
    BY <1>1, <1>2, <1>3, <2>4, CallKeeps DEF CallSend
<1>4. CASE CallForEach
  <2>1. Safe("core", c, ForEachCachedIdentifier, c)
    BY <1>1, ForEachSafe DEF Settled
  <2> QED
    BY <1>1, <1>2, <1>4, <2>1, CallKeeps DEF CallForEach
<1> QED
  BY <1>3, <1>4

(* It holds at first.                                                      *)
LEMMA InitOK == Init => IInv
<1> SUFFICES ASSUME Init PROVE IInv
  OBVIOUS
<1>1. DataOK
  BY DEF Init, DataOK, Value
<1>2. Exclusive
  <2>1. \A t \in Thread : DOMAIN holds[t] = {}
    BY DEF Init
  <2> QED
    BY <2>1 DEF Exclusive
<1>3. ASSUME NEW t \in Thread PROVE CallOK(t)
  <2> DEFINE c == Begin({}, FALSE, {})
  <2>1. Begins(t, {}, FALSE, {}, c)
    BY BeginsIt
  <2>2. holds[t] = <<>> /\ calls[t] = <<>> /\ linked = {}
    BY <1>3 DEF Init
  <2> HIDE DEF c
  <2>3. Safe(t, c, <<>>, c)
    BY <2>1, Nothing DEF Begins
  <2>4. Fits(t, c) /\ c.locks = <<>> /\ ~c.stopping
    BY <2>1, <2>2 DEF Begins, Fits
  <2> QED
    BY <2>2, <2>3, <2>4 DEF CallOK
<1>4. /\ DOMAIN calls = Thread /\ DOMAIN holds = Thread
      /\ holds = [t \in Thread |-> holds[t]]
  BY DEF Init
<1> QED
  BY <1>1, <1>2, <1>3, <1>4 DEF IInv

(* Whatever thread makes a step, all keep to their calls.                  *)
LEMMA StepOK == IInv /\ [Next]_vars => IInv'
<1> SUFFICES ASSUME IInv, [Next]_vars PROVE IInv'
  OBVIOUS
<1>1. ASSUME NEW p \in Peer, CallDeclare(p) \/ CallUndeclare(p) PROVE IInv'
  BY <1>1, CallOnPeerOK
<1>2. ASSUME NEW e \in Endpoint, NEW p \in Peer,
             CallStarted(e, p) \/ CallReceived(e, p) \/ CallStopped(e, p)
      PROVE  IInv'
  BY <1>2, CallOnSessionOK
<1>3. ASSUME (\E e \in Endpoint, p \in Peer : CallSend(e, p)) \/ CallForEach PROVE IInv'
  BY <1>3, CallOfCoreOK
<1>4. ASSUME NEW t \in Thread, Step(t) PROVE IInv'
  BY <1>4, TakeOK, DropOK, AccessOK, DecideOK, ChangeOK DEF Step
<1>5. CASE UNCHANGED vars
  <2>1. UNCHANGED <<calls, holds, resolving, linked, sink, sessions, promoted>>
    BY <1>5 DEF vars, data
  <2>2. \A t \in Thread : CallOK(t)'
    BY <2>1 DEF IInv, CallOK, Fits
  <2> QED
    BY <2>1, <2>2 DEF IInv, DataOK, Exclusive
<1> QED
  BY <1>1, <1>2, <1>3, <1>4, <1>5 DEF Next

(* Every thread is in a safe call, and mutexes exclude, whatever calls are *)
(* made and however their steps interleave.                                *)
THEOREM CallsAreSafe == Spec => []IInv
BY InitOK, StepOK, PTL DEF Spec

-------------------------------------------------------------------------------
(***************************************************************************)
(* What follows for the steps that come next.                              *)
(***************************************************************************)

(* Members and stacks have their types, and a thread that has returned     *)
(* from its call holds no mutex.                                           *)
THEOREM TypeCorrect == Spec => []TypeOK
<1>1. IInv => TypeOK
  <2> SUFFICES ASSUME IInv PROVE TypeOK
    OBVIOUS
  <2>1. ASSUME NEW t \in Thread PROVE holds[t] \in Seq(Entry)
    <3>1. PICK c : Fits(t, c) /\ Sound(t, c)
      BY DEF IInv, CallOK, Safe
    <3> QED
      BY <3>1 DEF Fits, Sound, Point
  <2>2. holds = [t \in Thread |-> holds[t]]
    BY DEF IInv
  <2>3. holds \in [Thread -> Seq([mutex : Mutex, shared : BOOLEAN])]
    BY <2>1, <2>2 DEF Entry
  <2> QED
    BY <2>3, Idle DEF IInv, DataOK, TypeOK, Value
<1> QED
  BY <1>1, CallsAreSafe, PTL

(* A thread that is stopping a session, and will not be once its call      *)
(* ends, has the stop before it.                                           *)
LEMMA StopsLast ==
    ASSUME NEW t, NEW c, NEW d, Safe(t, c, calls[t], d), c.stopping, ~d.stopping
    PROVE  Stopping(t)
<1>1. PICK k \in 1..Len(calls[t]) : calls[t][k].act = "stop"
  BY DEF Safe
<1>2. k \in DOMAIN calls[t]
  BY LenProperties DEF Safe
<1> QED
  BY <1>1, <1>2 DEF Stopping

(* Whom a thread waits for, waits for a mutex of a higher rank: it holds    *)
(* none that ranks as high.                                                *)
LEMMA WaitsUpwards ==
    ASSUME IInv, NEW t \in Thread, NEW u \in Thread, NEW v \in Thread,
           WaitsFor(t, u), WaitsFor(u, v), ~Stopping(u)
    PROVE  Rank(On(t)) < Rank(On(u))
<1> DEFINE m == On(t)
           n == On(u)
           step == Head(calls[u])
<1>1. Has(holds[u], m)
  <2>1. Holds(u, m) \/ HoldsAlone(u, m)
    BY DEF WaitsFor
  <2> QED
    BY <2>1 DEF Holds, HoldsAlone, Has
<1>2. /\ calls[u] # <<>> /\ step.on = n /\ step.act \in {"take", "share"}
      /\ step.act = "take" => Holds(v, n) /\ (u # v \/ ~Recursive(n))
  BY DEF WaitsFor, Starts, On
<1>3. PICK c, e, d : /\ Fits(u, c) /\ Sound(u, c)
                     /\ Leads(u, c, step, e) /\ Safe(u, c, calls[u], d)
                     /\ ~d.stopping
  <2>1. PICK c, d : Fits(u, c) /\ Safe(u, c, calls[u], d) /\ d.locks = <<>> /\ ~d.stopping
    BY DEF IInv, CallOK
  <2>2. PICK e : Leads(u, c, step, e)
    BY <1>2, <2>1, First
  <2> QED
    BY <2>1, <2>2 DEF Safe
<1> HIDE DEF step, m, n
<1>4. ~c.stopping /\ c.locks = holds[u] /\ May(u, c, step)
  BY <1>3, StopsLast DEF Fits, Leads
<1>5. PICK k \in DOMAIN holds[u] : holds[u][k].mutex = m
  BY <1>1 DEF Has
<1>6. step.act = "take"
  BY <1>2, <1>4, <1>5 DEF May
<1>7. CanTake(u, c, n) /\ Holds(v, n) /\ (u # v \/ ~Recursive(n))
  BY <1>2, <1>4, <1>6 DEF May
<1>8. Has(holds[v], n)
  BY <1>7 DEF Holds, Has
<1>9. PICK cv : Fits(v, cv) /\ Sound(v, cv)
  BY DEF IInv, CallOK, Safe
<1>10. PICK j \in DOMAIN holds[v] : holds[v][j].mutex = n /\ Taken(v, cv, n)
  BY <1>8, <1>9 DEF Has, Fits, Sound
<1>11. ~(Has(c.locks, n) /\ Recursive(n))
  <2> SUFFICES ASSUME Has(holds[u], n), Recursive(n) PROVE FALSE
    BY <1>4
  <2>1. PICK i \in DOMAIN holds[u] : holds[u][i].mutex = n
    BY DEF Has
  <2>2. holds[u][i].shared
    BY <1>7, <1>10, <2>1 DEF IInv, Exclusive
  <2>3. n = Peers
    BY <1>3, <1>4, <2>1, <2>2 DEF Sound
  <2> QED
    BY <2>3 DEF Recursive
<1>12. ~(~Has(c.locks, n) /\ n = Resolving)
  <2> SUFFICES ASSUME ~Has(holds[u], n), n = Resolving PROVE FALSE
    BY <1>4
  <2>1. u = "client" /\ v = "client"
    BY <1>7, <1>10 DEF CanTake, Taken
  <2> QED
    BY <1>8, <2>1
<1>13. ~(~Has(c.locks, n) /\ c.new # NoPeer /\ OfPeer(n, c.new))
  <2> SUFFICES ASSUME ~Has(holds[u], n), c.new # NoPeer, OfPeer(n, c.new) PROVE FALSE
    BY <1>4
  <2>1. c.new \in Peer /\ c.new \notin linked /\ Alone(holds[u], Peers)
    BY <1>3, <1>4 DEF Sound, Point, Fits
  <2>2. c.new \in cv.known \cup {cv.new}
    BY <1>10, <2>1 DEF Taken
  <2>3. cv.new # NoPeer
    BY <1>9, <2>1, <2>2 DEF Fits
  <2>4. Alone(holds[v], Peers)
    BY <1>9, <2>3 DEF Sound, Fits
  <2>5. Has(holds[v], Peers)
    BY <2>4, Entries DEF Alone, Has
  <2>6. u # v
    BY <1>8
  <2> QED
    BY <2>1, <2>5, <2>6, Apart DEF IInv
<1>14. Below(c.locks, Rank(n))
  BY <1>4, <1>7, <1>11, <1>12, <1>13 DEF CanTake
<1>15. Rank(m) < Rank(n)
  BY <1>4, <1>5, <1>14 DEF Below
<1> QED
  BY <1>15 DEF m, n

(* Threads wait for each other in a circle only if one of them is stopping  *)
(* a session: otherwise each waits for a mutex of a higher rank than the    *)
(* one before, and there are three threads.                                *)
THEOREM DeadlocksNeedStop == Spec => []DeadlockNeedsStop
<1>1. IInv => DeadlockNeedsStop
  <2> SUFFICES ASSUME IInv, NEW ts \in (SUBSET Thread) \ {{}}, Deadlocked(ts),
                      \A t \in ts : ~Stopping(t)
               PROVE  FALSE
    BY DEF DeadlockNeedsStop
  <2>0. ts # {}
    OBVIOUS
  <2>1. PICK t0 \in ts : TRUE
    BY <2>0
  <2>2. PICK t1 \in ts : WaitsFor(t0, t1)
    BY DEF Deadlocked
  <2>3. PICK t2 \in ts : WaitsFor(t1, t2)
    BY DEF Deadlocked
  <2>4. PICK t3 \in ts : WaitsFor(t2, t3)
    BY DEF Deadlocked
  <2>5. PICK t4 \in ts : WaitsFor(t3, t4)
    BY DEF Deadlocked
  <2>6. \A t \in ts : t \in {"client", "server", "core"}
    BY DEF Thread, Endpoint
  <2>7. ASSUME NEW t \in ts PROVE Rank(On(t)) \in Nat
    <3>1. PICK u \in ts : WaitsFor(t, u)
      BY DEF Deadlocked
    <3>2. On(t) \in Mutex
      <4>1. PICK c, d : Fits(u, c) /\ Sound(u, c)
        BY DEF IInv, CallOK, Safe
      <4>2. PICK k \in DOMAIN holds[u] : holds[u][k].mutex = On(t)
        BY <3>1 DEF WaitsFor, Holds, HoldsAlone
      <4> QED
        BY <4>1, <4>2 DEF Fits, Sound, Taken
    <3> QED
      BY <3>2, Ranks
  <2>8. /\ Rank(On(t0)) < Rank(On(t1)) /\ Rank(On(t1)) < Rank(On(t2))
        /\ Rank(On(t2)) < Rank(On(t3))
    BY <2>2, <2>3, <2>4, <2>5, WaitsUpwards
  <2>9. t0 # t1 /\ t0 # t2 /\ t0 # t3 /\ t1 # t2 /\ t1 # t3 /\ t2 # t3
    BY <2>7, <2>8
  <2> QED
    BY <2>6, <2>9
<1> QED
  BY <1>1, CallsAreSafe, PTL

(* A thread that accesses a container has its mutex, or is in one of the    *)
(* two accesses without; what it writes, it has alone.                     *)
LEMMA AccessesLocked ==
    ASSUME IInv, NEW t \in Thread, NEW c \in Mutex, Accesses(t, c)
    PROVE  /\ \/ c = Resolving /\ Holds(t, Peers)
              \/ t \in Endpoint /\ c = Connections(t)
              \/ Holds(t, c) /\ (Starts(t, "write") => Alone(holds[t], c))
           /\ c = Peers \/ (Holds(t, c) => Alone(holds[t], c))
<1> DEFINE step == Head(calls[t])
<1>1. /\ calls[t] # <<>> /\ step.on = c /\ step.act \in {"read", "write"}
      /\ Starts(t, "write") <=> step.act = "write"
  BY DEF Accesses, Starts, On
<1>2. PICK b, m : Fits(t, b) /\ Sound(t, b) /\ Leads(t, b, step, m)
  BY <1>1, Going
<1> HIDE DEF step
<1>3. May(t, b, step) /\ b.locks = holds[t]
  BY <1>2 DEF Leads, Fits
<1>4. Alone(holds[t], c) => Holds(t, c)
  BY Entries DEF Alone, Holds
<1>5. Has(holds[t], c) <=> Holds(t, c)
  BY DEF Has, Holds
<1>6. Unlocked(t, b, c) => \/ c = Resolving /\ Holds(t, Peers)
                           \/ t \in Endpoint /\ c = Connections(t)
  BY <1>3 DEF Unlocked, Has, Holds
<1>7. ASSUME c # Peers, Holds(t, c) PROVE Alone(holds[t], c)
  <2>1. PICK k \in DOMAIN holds[t] : holds[t][k].mutex = c
    BY <1>7 DEF Holds
  <2>2. ~holds[t][k].shared /\ holds[t] \in Seq(Entry)
    BY <1>2, <1>3, <1>7, <2>1 DEF Sound, Point
  <2>3. holds[t][k] \in Entry
    BY <2>2, ElementOfSeq
  <2>4. holds[t][k] = Unshared(c)
    BY <2>1, <2>2, <2>3 DEF Entry, Unshared
  <2> QED
    BY <2>1, <2>4 DEF Alone
<1>8. \/ Unlocked(t, b, c)
      \/ step.act = "read" /\ Has(holds[t], c)
      \/ step.act = "write" /\ Alone(holds[t], c)
  BY <1>1, <1>3 DEF May
<1> QED
  BY <1>1, <1>4, <1>5, <1>6, <1>7, <1>8

(* Two threads are in one container, of which one changes it, only in the   *)
(* accesses without a mutex of LinkPeer and of OnMessageReceived.          *)
THEOREM RacesNeedUnlocked == Spec => []RaceNeedsUnlocked
<1>1. IInv => RaceNeedsUnlocked
  <2> SUFFICES ASSUME IInv, NEW t \in Thread, NEW u \in Thread, NEW c \in Mutex, Race(t, u, c),
                      ~(c = Resolving /\ \E v \in {t, u} : Holds(v, Peers)),
                      ~\E e \in Endpoint : c = Connections(e) /\ e \in {t, u} /\ ~Holds(e, c)
               PROVE  FALSE
    BY DEF RaceNeedsUnlocked
  <2>1. t # u /\ Accesses(t, c) /\ Accesses(u, c) /\ (Starts(t, "write") \/ Starts(u, "write"))
    BY DEF Race
  <2>2. Holds(t, c) /\ Holds(u, c)
    BY <2>1, AccessesLocked
  <2>3. Has(holds[t], c) /\ Has(holds[u], c)
    BY <2>2 DEF Holds, Has
  <2>4. Alone(holds[t], c) \/ Alone(holds[u], c)
    <3>1. CASE c = Peers
      <4>1. c # Resolving /\ \A e \in Endpoint : c # Connections(e)
        BY <3>1 DEF Peers, Resolving, Connections
      <4> QED
        BY <2>1, <4>1, AccessesLocked
    <3>2. CASE c # Peers
      BY <2>1, <2>2, <3>2, AccessesLocked
    <3> QED
      BY <3>1, <3>2
  <2> QED
    BY <2>1, <2>3, <2>4, Apart DEF IInv
<1> QED
  BY <1>1, CallsAreSafe, PTL

(* While a thread is in an exchange processor, no other destroys it: both   *)
(* have the mutex of the receiver alone.                                   *)
THEOREM ProcessorsOutliveUse == Spec => []ProcessorOutlivesUse
<1>1. IInv => ProcessorOutlivesUse
  <2> SUFFICES ASSUME IInv, NEW t \in Thread, NEW u \in Thread, NEW p \in Peer, t # u,
                      InProcessor(t, p), Starts(u, "destroy"), On(u) = p
               PROVE  FALSE
    BY DEF ProcessorOutlivesUse
  <2>1. Alone(holds[t], Receiver(p))
    <3>1. PICK c, d : Fits(t, c) /\ Safe(t, c, calls[t], d)
      BY DEF IInv, CallOK
    <3>2. PICK S, path :
              /\ calls[t] \in Seq(S) /\ path[1] = c
              /\ \A k \in 1..Len(calls[t]) : Leads(t, path[k], calls[t][k], path[k + 1])
              /\ \A j, k \in 1..(Len(calls[t]) + 1) :
                    j <= k => path[k].inside \in {path[j].inside, NoPeer}
      BY <3>1 DEF Safe
    <3>3. PICK k \in 1..Len(calls[t]) : calls[t][k] = Do("return", p)
      BY <3>2, LenProperties DEF InProcessor
    <3>4. path[k].inside = p
      <4>1. calls[t][k].act = "return" /\ calls[t][k].on = p
        BY <3>3 DEF Do
      <4>2. May(t, path[k], calls[t][k])
        BY <3>2 DEF Leads
      <4> QED
        BY <4>1, <4>2 DEF May
    <3>5. /\ 1 \in 1..(Len(calls[t]) + 1) /\ k \in 1..(Len(calls[t]) + 1) /\ 1 <= k
      BY <3>2, LenProperties
    <3>6. path[k].inside \in {path[1].inside, NoPeer}
      BY <3>2, <3>5
    <3>7. c.inside = p
      BY <3>2, <3>4, <3>6, NoPeerIsNone
    <3> QED
      BY <3>1, <3>7, NoPeerIsNone DEF Safe, Sound, Fits
  <2>2. Alone(holds[u], Receiver(p))
    <3>1. calls[u] # <<>> /\ Head(calls[u]).act = "destroy" /\ Head(calls[u]).on = p
      BY DEF Starts, On
    <3>2. PICK c, m : Fits(u, c) /\ Leads(u, c, Head(calls[u]), m)
      BY <3>1, Going
    <3> QED
      BY <3>1, <3>2 DEF Leads, May, Fits
  <2>3. Has(holds[u], Receiver(p))
    BY <2>2, Entries DEF Alone, Has
  <2> QED
    BY <2>1, <2>3, Apart DEF IInv
<1> QED
  BY <1>1, CallsAreSafe, PTL

====
