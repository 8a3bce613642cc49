-------------------------------- MODULE Address --------------------------------
(***************************************************************************)
(* Network addresses: objects that own the text of a uri and keep views of *)
(* its parts, while the objects are made, copied, assigned, moved and      *)
(* destroyed.                                                              *)
(*                                                                         *)
(* A uri is given by its layout: the length of its scheme (zero: none),    *)
(* the size of what follows the scheme, where the last colon of that is    *)
(* (None: nowhere) and what kind of text stands before and after it.  A    *)
(* view is the object whose characters it shows, and an interval of them.  *)
(***************************************************************************)
EXTENDS Integers

CONSTANTS
    Handle,             \* places for address objects
    Uri,                \* the uris that addresses are made of
    InterfaceAddress,   \* external: lengths of the interfaces' addresses, 0 when there is none
    Nothing, None

UriText == {uri \in [scheme : Nat, size : Nat, colon : Nat \cup {None},
                     host : {"v4", "[v6]", "v6", "*", "other"}, port : {"number", "other"},
                     blank : BOOLEAN] : uri.colon # None => uri.colon < uri.size}

ASSUME UriAssumption ==
    /\ Uri \subseteq UriText
    /\ InterfaceAddress \subseteq Nat

VARIABLE address        \* address[h]: the object at h, or Nothing

SchemeSeparatorSize == 3
Scheme(protocol) == IF protocol = "LoRa" THEN 4 ELSE 3      \* the length of "lora" and "tcp"
MinimumLength == 9
MaximumLength == 53
InlineCapacity == 15    \* external: the characters a string object holds itself

Size(uri) == IF uri.scheme = 0 THEN uri.size ELSE uri.scheme + SchemeSeparatorSize + uri.size
Empty == [scheme |-> 0, size |-> 0, colon |-> None, host |-> "other", port |-> "other", blank |-> FALSE]
IsEmpty(uri) == uri.scheme = 0 /\ uri.size = 0

Interval(first, last) == [first |-> first, last |-> last]   \* without the last
NoInterval == Interval(0, 0)
NoParts == [scheme |-> NoInterval, authority |-> NoInterval,
            primary |-> NoInterval, secondary |-> NoInterval]

-------------------------------------------------------------------------------
(***************************************************************************)
(* The parts of a uri that has a scheme, and what the cache makes of it.   *)
(***************************************************************************)
Prepended(protocol, uri) ==
    IF uri.scheme = 0 THEN [uri EXCEPT !.scheme = Scheme(protocol)] ELSE uri

Start(uri) == uri.scheme + SchemeSeparatorSize
LastColon(uri) == IF uri.colon = None THEN uri.scheme ELSE Start(uri) + uri.colon

Parts(schemeSize, uri) ==
    LET begin == schemeSize + SchemeSeparatorSize
    IN [ scheme |-> Interval(0, schemeSize),
         authority |-> Interval(begin, Size(uri)),
         primary |-> Interval(begin, LastColon(uri)),
         secondary |-> Interval(LastColon(uri) + 1, Size(uri)) ]

(* A scheme that is put before the uri is taken to be as long as that of   *)
(* TCP.  Without a colon of its own the uri is cut at that of its scheme:  *)
(* the primary part ends before it begins.                                 *)
Cached(protocol, uri) ==
    Parts(IF uri.scheme = 0 THEN Scheme("TCP") ELSE uri.scheme, Prepended(protocol, uri))

ParseAddressType(protocol, uri, parts) ==
    IF \/ protocol # "TCP"
       \/ Size(uri) \notin MinimumLength..MaximumLength
       \/ parts.primary.first = parts.primary.last
       \/ parts.secondary.first = parts.secondary.last
       \/ uri.colon = None \/ uri.port # "number"
       \/ uri.host \notin {"v4", "[v6]"}
    THEN "Invalid"
    ELSE IF uri.host = "v4" THEN "IPv4" ELSE "IPv6"

Valid(protocol, uri, parts) ==
    \/ protocol = "LoRa"
    \/ ParseAddressType(protocol, uri, parts) # "Invalid"

Object(protocol, uri, heap, of, parts) ==
    [protocol |-> protocol, uri |-> uri, heap |-> heap, of |-> of, parts |-> parts]

Reset(h, protocol, heap) == Object(protocol, Empty, heap, h, NoParts)

CacheAddressPartitions(h, protocol, uri, heap) ==
    IF IsEmpty(uri) \/ uri.blank THEN Reset(h, protocol, heap)
    ELSE LET text == Prepended(protocol, uri)
             parts == Cached(protocol, uri)
             stored == heap \/ Size(text) > InlineCapacity
         IN IF Valid(protocol, text, parts)
            THEN Object(protocol, text, stored, h, parts)
            ELSE Reset(h, protocol, stored)

IsValid(object) == object.uri # Empty
GetAddressComponents(object) == [ip |-> object.parts.primary, port |-> object.parts.secondary]

(***************************************************************************)
(* A binding's uri is rewritten first: with a scheme, and with the address *)
(* of its interface instead of a wildcard.  It has a colon, or no scheme:  *)
(* what is done for others is undefined.                                   *)
(***************************************************************************)
Bindable(uri) == uri.colon # None \/ uri.scheme = 0 \/ uri.host = "*"

(* What follows "tcp://*" is "://*": it is kept behind the address.        *)
BuildBindingUri(protocol, uri, length) ==
    IF IsEmpty(uri) \/ (uri.colon = None /\ uri.scheme = 0) THEN Empty
    ELSE LET text == Prepended(protocol, uri)
             found == IF protocol = "LoRa" THEN 0 ELSE length
             kept == IF uri.colon = None THEN SchemeSeparatorSize + uri.size ELSE uri.size - uri.colon
         IN IF uri.host # "*" THEN text
            ELSE [ text EXCEPT !.size = found + kept, !.colon = found,
                               !.host = IF found = 0 THEN "other" ELSE "v4",
                               !.port = IF uri.colon = None THEN "other" ELSE uri.port ]

-------------------------------------------------------------------------------
AddressInit == address = [h \in Handle |-> Nothing]

Put(h, object) == address' = [address EXCEPT ![h] = object]
Lives(h) == address[h] # Nothing

Construct(h, protocol, uri) ==
    /\ ~Lives(h)
    /\ Put(h, CacheAddressPartitions(h, protocol, uri, Size(uri) > InlineCapacity))

Bind(h, protocol, uri) ==
    /\ ~Lives(h)
    /\ Bindable(uri)
    /\ \E length \in InterfaceAddress :
          LET built == BuildBindingUri(protocol, uri, length)
          IN Put(h, CacheAddressPartitions(h, protocol, built, Size(built) > InlineCapacity))

CopyMembers(h, g) ==                                \* mutant: the views are copied
    ~Lives(h) /\ Lives(g) /\ Put(h, address[g])

CopyConstruct(h, g) ==
    /\ ~Lives(h) /\ Lives(g)
    /\ LET uri == address[g].uri
       IN Put(h, CacheAddressPartitions(h, address[g].protocol, uri, Size(uri) > InlineCapacity))

Assign(h, g) ==
    /\ Lives(h) /\ Lives(g)
    /\ LET uri == address[g].uri
       IN Put(h, CacheAddressPartitions(h, address[g].protocol, uri,
                                        address[h].heap \/ Size(uri) > InlineCapacity))

(* The characters go with the views, unless the string object holds them   *)
(* itself: then they are copied, and the views stay where they were.       *)
Move(h, g) ==
    /\ ~Lives(h) /\ Lives(g)
    /\ address' = [ address EXCEPT
            ![h] = [address[g] EXCEPT !.of = IF address[g].heap /\ @ = g THEN h ELSE @],
            ![g] = Object("Invalid", Empty, FALSE, g, NoParts) ]

Destroy(h) == Lives(h) /\ Put(h, Nothing)

AddressNext ==
    \E h \in Handle :
        \/ \E protocol \in {"TCP", "LoRa"}, uri \in Uri :
              Construct(h, protocol, uri) \/ Bind(h, protocol, uri)
        \/ \E g \in Handle : CopyConstruct(h, g) \/ Assign(h, g) \/ Move(h, g)
        \/ Destroy(h)

AddressSpec == AddressInit /\ [][AddressNext]_address

-------------------------------------------------------------------------------
(* A TCP address that calls itself valid, and whose characters its string  *)
(* does not hold itself, shows its own characters, whatever became of the  *)
(* address it was copied or moved from, and its parts are those of its uri *)
(* - an ip before the last colon, and a port behind it.                    *)
PartitionsAreParts ==
    \A h \in Handle :
        Lives(h) /\ IsValid(address[h]) /\ address[h].protocol = "TCP" /\ address[h].heap =>
            LET object == address[h]
            IN /\ object.of = h
               /\ object.parts = Parts(object.uri.scheme, object.uri)
               /\ GetAddressComponents(object).ip.first < GetAddressComponents(object).ip.last
               /\ ParseAddressType("TCP", object.uri, object.parts) # "Invalid"

(* "Clear the partition views to avoid dangling pointers", Address.cpp:235: *)
(* the views of any valid address are of its own characters.  Those of a   *)
(* short address that was moved are not.                                   *)
ViewsAreOwn ==
    \A h \in Handle : Lives(h) /\ IsValid(address[h]) => address[h].of = h

(* A copy equals its original, and so do their schemes: not for LoRa.      *)
CopiesAreCutAlike ==
    \A h, g \in Handle :
        Lives(h) /\ Lives(g) /\ address[h].protocol = address[g].protocol
        /\ address[h].uri = address[g].uri => address[h].parts = address[g].parts

===============================================================================
