------------------------------- MODULE MCAwait -------------------------------
(* Instances of Await for TLC: two peers, each of which floods a request.  *)
EXTENDS Await

CONSTANTS p1, p2, r1, r2, r3, k1, k2

MCRequestor == [r \in Request |-> IF r = r2 THEN p2 ELSE p1]

(* The digests of the first and of the last request collide.               *)
MCCollidingKeys == [r \in Request |-> IF r = r2 THEN k2 ELSE k1]

===============================================================================
