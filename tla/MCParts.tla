-------------------------------- MODULE MCParts --------------------------------
(***************************************************************************)
(* Four parts that share no state, checked in one run: every behaviour    *)
(* follows one of them, and the others stand still.                        *)
(***************************************************************************)
EXTENDS Synchronization, Address, BryptIdentifier, Handlers

CONSTANTS a, b, c

VARIABLE subject

vars == <<subject, synchronizationVars, address, conversion, handlersVars>>

-------------------------------------------------------------------------------
(* Text of more and of less characters than a string object holds, with    *)
(* and without a scheme and a port, and text that is no address.           *)
Text(scheme, size, colon, host, port) ==
    [scheme |-> scheme, size |-> size, colon |-> colon, host |-> host, port |-> port, blank |-> FALSE]

MCUri ==
    { Text(3, 14, 9, "v4", "number"),       \* tcp://127.0.0.1:1024
      Text(0, 14, 9, "v4", "number"),
      Text(3, 9, 7, "v4", "number"),        \* tcp://1.1.1.1:1, held inline
      Text(0, 9, 7, "v4", "number"),
      Text(3, 10, 5, "[v6]", "number"),     \* tcp://[::1]:1024
      Text(3, 8, 3, "v6", "number"),
      Text(3, 48, 43, "[v6]", "number"),    \* one character too long
      Text(3, 14, 9, "v4", "other"),
      Text(3, 9, None, "v4", "other"),      \* tcp://127.0.0.1
      Text(0, 9, None, "v4", "other"),
      Text(0, 6, 1, "*", "number"),         \* *:1024
      Text(3, 1, None, "*", "other"),       \* tcp://*
      Text(4, 4, 0, "other", "number"),
      Text(0, 6, 3, "other", "number"),     \* 915:71
      [Text(3, 14, 9, "v4", "number") EXCEPT !.blank = TRUE],
      Empty }

(* Bytes that begin with zeros, and the least and the greatest behind.     *)
MCSource ==
    {[i \in 1..PayloadSize |-> IF i <= n THEN 0 ELSE byte] : n \in {0, 1, 2, 3, 15, 16}, byte \in {1, 255}}
    \cup {[i \in 1..PayloadSize |-> IF i = 4 THEN 1 ELSE 0]}

(* Nodes that all know one, in a ring, with two that know each other as    *)
(* well, and with an endpoint that others lack and an authority that is    *)
(* part of another's uri.                                                  *)
Tcp == [n \in Node |-> {"TCP"}]
Nobody == [n \in Node |-> {}]
Star == [Nobody EXCEPT ![a] = {Bound("TCP", c)}, ![b] = {Bound("TCP", c)}]
Ring == [Star EXCEPT ![a] = {Bound("TCP", b)}, ![c] = {Bound("TCP", a)}]
Pair == [Star EXCEPT ![a] = @ \cup {Bound("TCP", b)}, ![b] = @ \cup {Bound("TCP", a)}]

Flood(p, command, phase) == [source |-> p, to |-> c, command |-> command, phase |-> phase]

MCSetup ==
    { [configured |-> Tcp, known |-> Star, dials |-> Node, contained |-> {}, requests |-> {}],
      [configured |-> Tcp, known |-> Ring, dials |-> {a, b}, contained |-> {}, requests |-> {}],
      [configured |-> Tcp, known |-> Pair, dials |-> {a, b}, contained |-> {}, requests |-> {}],
      [configured |-> [n \in Node |-> IF n = b THEN {"TCP"} ELSE Protocol],
       known |-> Star, dials |-> {a, b}, contained |-> {<<a, b>>}, requests |-> {}],
      [configured |-> Tcp, known |-> Star, dials |-> {a}, contained |-> {},
       requests |-> {Flood(a, "Query", "Flood"), Flood(a, "Information", "Flood"),
                     Flood(a, "Election", "Probe")}] }

MCShake128 == {<<0, 0, 0, 0>>, <<255, 255, 255, 255>>}

-------------------------------------------------------------------------------
NoConversion ==
    /\ progress = "Done"
    /\ source = <<>>
    /\ checksum = <<>>
    /\ indicies = <<>>
    /\ taken = 0
    /\ text = <<>>
    /\ delivered = [metadata |-> FALSE, payload |-> <<>>]
    /\ container = NoIdentifier

AnySetup == CHOOSE s \in MCSetup : TRUE

Init ==
    /\ SynchronizationInit
    /\ AddressInit
    /\ HandlersInit
    /\ \/ subject \in {"Synchronization", "Address"} /\ NoConversion /\ setup = AnySetup
       \/ subject = "Identifier" /\ IdentifierInit /\ setup = AnySetup
       \/ subject = "Handlers" /\ NoConversion

Next ==
    /\ UNCHANGED subject
    /\ \/ /\ subject = "Synchronization"
          /\ SynchronizationNext
          /\ UNCHANGED <<address, conversion, handlersVars>>
       \/ /\ subject = "Address"
          /\ AddressNext
          /\ UNCHANGED <<synchronizationVars, conversion, handlersVars>>
       \/ /\ subject = "Identifier"
          /\ IdentifierNext
          /\ UNCHANGED <<synchronizationVars, address, handlersVars>>
       \/ /\ subject = "Handlers"
          /\ HandlersNext
          /\ UNCHANGED <<synchronizationVars, address, conversion>>

(* Only handlers have something to wait for.                               *)
Spec == Init /\ [][Next]_vars /\ HandlersFairness

===============================================================================
