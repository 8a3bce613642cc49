---------------------------- MODULE AuthorizedLink ----------------------------
(***************************************************************************)
(* What the handshake of two brypt nodes promises, and nothing else.  The  *)
(* pair <<n, m>> stands for what node n holds about node m: NoKey, or the  *)
(* key of the session it has authorized.  The initiator of an exchange     *)
(* authorizes first, the acceptor follows with the same key, and only the  *)
(* death of a process forgets a key.                                       *)
(***************************************************************************)
CONSTANTS
    Node,       \* the nodes
    Key,        \* names of the session keys that exchanges agree on
    NoKey       \* no session is authorized

VARIABLES
    view,       \* view[<<n, m>>]: the key n holds for its peer m
    authorized  \* the <<end, key>> pairs that have ever been granted

vars == <<view, authorized>>

End == {e \in Node \X Node : e[1] # e[2]}
Rev(e) == <<e[2], e[1]>>

TypeOK ==
    /\ view \in [End -> Key \cup {NoKey}]
    /\ authorized \subseteq End \X Key

Init ==
    /\ view = [e \in End |-> NoKey]
    /\ authorized = {}

Grant(e, k) ==
    /\ view[e] = NoKey
    /\ view' = [view EXCEPT ![e] = k]
    /\ authorized' = authorized \cup {<<e, k>>}

(* The initiator authorizes a key nobody has used, while its peer holds    *)
(* nothing.                                                                *)
Open(e, k) ==
    /\ \A d \in End : <<d, k>> \notin authorized
    /\ view[Rev(e)] = NoKey
    /\ Grant(e, k)

(* The acceptor takes, once, a key the initiator has authorized for it.  If *)
(* the initiator's process has died in the meantime the acceptor cannot    *)
(* know, and authorizes alone.                                             *)
Accept(e, k) ==
    /\ <<Rev(e), k>> \in authorized
    /\ <<e, k>> \notin authorized
    /\ view[Rev(e)] \in {k, NoKey}
    /\ Grant(e, k)

Forget(n) ==
    /\ view' = [e \in End |-> IF e[1] = n THEN NoKey ELSE view[e]]
    /\ UNCHANGED authorized

Next ==
    \/ \E e \in End, k \in Key : Open(e, k) \/ Accept(e, k)
    \/ \E n \in Node : Forget(n)

Spec == Init /\ [][Next]_vars

-------------------------------------------------------------------------------
(* Two nodes that have both authorized each other hold the same key.       *)
Agreement ==
    \A e \in End : NoKey \notin {view[e], view[Rev(e)]} => view[e] = view[Rev(e)]

===============================================================================
