----------------------------- MODULE MessageLayout -----------------------------
(***************************************************************************)
(* How application and network messages are packed into bytes, and what    *)
(* is unpacked from bytes.  Numbers that need not be told apart are bytes; *)
(* identifiers, payloads and signatures are sequences of bytes.            *)
(***************************************************************************)
EXTENDS Z85

CONSTANTS
    MinimumLength,      \* lengths of the text of an identifier
    MaximumLength,
    SignatureSize,      \* what a signature adds to a pack
    NoTracker           \* no await tracker is bound

ASSUME LengthAssumption ==
    /\ MinimumLength \in Nat \ {0}
    /\ MaximumLength \in MinimumLength..255
    /\ SignatureSize \in Nat
    /\ SignatureSize % DecodedBlockSize = 0

Network == 1                            \* Message::Protocol
Application == 16
Invalid == 0                            \* of each of the enumerations here
ToNode == 1                             \* Message::Destination
ToCluster == 2
ToNetwork == 3
Destinations == {ToNode, ToCluster, ToNetwork}
Commands == {1, 2, 3, 4}                \* Handler::Type
NetworkTypes == {1, 2, 3}               \* Message::Network::Type
AwaitTracker == 1                       \* Extensions
Bindings == {0, 1}                      \* Message::AwaitBinding

FixedAwaitExtensionSize == 8

-------------------------------------------------------------------------------
(***************************************************************************)
(* What the builders make.  An application message carries the time of its *)
(* making and an encrypted payload, and goes to a node even if it names    *)
(* none; a network message is for a node.                                  *)
(***************************************************************************)
ApplicationBuilder(source, to, destination, command, phase, payload, timestamp, tracker) ==
    [ protocol |-> Application, source |-> source, to |-> to, destination |-> destination,
      kind |-> command, phase |-> phase, payload |-> payload, timestamp |-> timestamp,
      tracker |-> tracker ]

NetworkBuilder(source, destination, type, payload) ==
    [ protocol |-> Network, source |-> source, to |-> ToNode, destination |-> destination,
      kind |-> type, phase |-> 0, payload |-> payload, timestamp |-> <<>>, tracker |-> NoTracker ]

NoTime == [k \in 1..8 |-> 0]

HeaderIsValid(m) ==
    /\ m.protocol \in {Network, Application}
    /\ Len(m.source) \in MinimumLength..MaximumLength

ApplicationIsValid(m) == HeaderIsValid(m) /\ m.kind # Invalid /\ m.timestamp # NoTime
NetworkIsValid(m) == HeaderIsValid(m) /\ m.kind # Invalid

Valid(m) == IF m.protocol = Application THEN ApplicationIsValid(m) ELSE NetworkIsValid(m)

-------------------------------------------------------------------------------
(***************************************************************************)
(* Sizes.                                                                  *)
(***************************************************************************)
HeaderPackSize(m) == 11 + Len(m.source) + Len(m.destination)
ApplicationFixedPackSize == 1 + 1 + 4 + 8 + 1
NetworkFixedPackSize == 1 + 4 + 1
FixedPackSize(m) ==
    IF m.protocol = Application THEN ApplicationFixedPackSize ELSE NetworkFixedPackSize
ExtensionSize(m) == IF m.tracker = NoTracker THEN 0 ELSE FixedAwaitExtensionSize
SignedSize(m) == IF m.protocol = Application THEN SignatureSize ELSE 0

GetPackSize(m) ==
    EncodedSize(HeaderPackSize(m) + FixedPackSize(m) + Len(m.payload) + ExtensionSize(m)
                + SignedSize(m))

-------------------------------------------------------------------------------
(***************************************************************************)
(* Packing.                                                                *)
(***************************************************************************)
BigEndian(n, width) == [k \in 1..width |-> (n \div 256^(width - k)) % 256]

PackChunk(field, width) == BigEndian(Len(field), width) \o field

PackHeader(m) ==
    <<m.protocol, 0, 0>> \o BigEndian(GetPackSize(m), 4)
    \o PackChunk(m.source, 1) \o <<m.to>> \o PackChunk(m.destination, 1) \o <<0>>

PackExtensions(m) ==
    IF m.tracker = NoTracker THEN <<0>>
    ELSE <<1, AwaitTracker>> \o BigEndian(FixedAwaitExtensionSize, 2) \o m.tracker

PackApplicationSwapped(m) ==                        \* mutant: the phase is packed first
    PackHeader(m) \o <<m.phase, m.kind>> \o PackChunk(m.payload, 4) \o m.timestamp
    \o PackExtensions(m)

PackApplication(m) ==
    PackHeader(m) \o <<m.kind, m.phase>> \o PackChunk(m.payload, 4) \o m.timestamp
    \o PackExtensions(m)

PackNetwork(m) == PackHeader(m) \o <<m.kind>> \o PackChunk(m.payload, 4) \o <<0>>

PackFields(m) == IF m.protocol = Application THEN PackApplication(m) ELSE PackNetwork(m)

PadUnsigned(bytes) == bytes                         \* mutant: the signature follows at once
Pad(bytes) == bytes \o [k \in 1..PaddingBytes(Len(bytes)) |-> 0]

(* A message is padded before it is signed.                                *)
PackedBytes(m, signature) ==
    Pad(PackFields(m)) \o IF m.protocol = Application THEN signature ELSE <<>>

GetPack(m, signature) == Encode(PackedBytes(m, signature))

-------------------------------------------------------------------------------
(***************************************************************************)
(* Unpacking.                                                              *)
(***************************************************************************)
Number(bytes, at, width) ==     \* of a width whose numbers are small: see BigEndian
    LET n[k \in 0..width] == IF k = 0 THEN 0 ELSE n[k - 1] * 256 + bytes[at + k - 1]
    IN n[width]

PeekSizeMisplaced(bytes) == Number(bytes, 5, 4)     \* mutant: one byte too far
PeekSize(bytes) == Number(bytes, 4, 4)

(* Whether a source identifier can be read at its place.                   *)
PeekSource(bytes) ==
    /\ Len(bytes) >= 8
    /\ bytes[8] \in MinimumLength..MaximumLength
    /\ Len(bytes) >= 8 + bytes[8]

Identifier(bytes, at) ==
    IF at <= Len(bytes) /\ bytes[at] \in MinimumLength..MaximumLength
       /\ at + bytes[at] <= Len(bytes)
    THEN SubSeq(bytes, at + 1, at + bytes[at]) ELSE <<>>

(* An identifier of another size is none, and only its size is skipped.    *)
ParseBuffer(bytes) ==
    LET source == Identifier(bytes, 8)
        destination == Identifier(bytes, 10 + Len(source))
        next == 12 + Len(source) + Len(destination)
    IN [ parsed |-> /\ Len(bytes) >= 11
                    /\ bytes[1] \in {Network, Application}
                    /\ source # <<>>
                    /\ 9 + Len(source) <= Len(bytes)
                    /\ bytes[9 + Len(source)] \in Destinations
                    /\ next - 1 <= Len(bytes),
         source |-> source, destination |-> destination, next |-> next ]

(* Extensions are read until one is unknown, whatever their count; a       *)
(* tracker that cannot be read replaces the one before it.                 *)
TrackerAt(bytes, at) ==
    IF /\ at + 7 <= Len(bytes)
       /\ Number(bytes, at + 1, 2) >= FixedAwaitExtensionSize
       /\ bytes[at + 3] \in Bindings
    THEN SubSeq(bytes, at + 3, at + 7) ELSE NoTracker

AfterTracker(bytes, at) ==
    CASE at + 2 > Len(bytes) -> at + 1
      [] at + 2 <= Len(bytes) /\ Number(bytes, at + 1, 2) < FixedAwaitExtensionSize -> at + 3
      [] at + 2 = Len(bytes) -> at + 3
      [] at + 2 < Len(bytes) /\ at + 7 > Len(bytes) -> at + 4
      [] OTHER -> at + 8

UnpackExtensions(bytes, at) ==
    LET Keep == <<>>
        found[k \in Nat] ==
            IF k > Len(bytes) \/ bytes[k] # AwaitTracker THEN Keep
            ELSE LET later == found[AfterTracker(bytes, k)]
                 IN IF later = Keep THEN TrackerAt(bytes, k) ELSE later
    IN IF found[at] = Keep THEN NoTracker ELSE found[at]

(* The size of a payload is followed by as many bytes, or nothing is read. *)
PayloadAt(bytes, at) ==
    IF at + 3 <= Len(bytes) /\ at + 3 + Number(bytes, at, 4) <= Len(bytes)
    THEN SubSeq(bytes, at + 4, at + 3 + Number(bytes, at, 4)) ELSE <<>>

UnpackedAs(bytes, at, kinds) ==     \* a number of an enumeration
    IF at <= Len(bytes) /\ bytes[at] \in kinds THEN bytes[at] ELSE Invalid

UnpackCommand(bytes, at) == UnpackedAs(bytes, at, Commands)
UnpackMessageType(bytes, at) == UnpackedAs(bytes, at, NetworkTypes)

UnpackApplication(bytes) ==
    LET header == ParseBuffer(bytes)
        at == header.next + 2
        payload == PayloadAt(bytes, at)
        after == at + 4 + Len(payload)
    IN ApplicationBuilder(
          header.source, bytes[9 + Len(header.source)], header.destination,
          UnpackCommand(bytes, header.next), bytes[header.next + 1], payload,
          SubSeq(bytes, after, after + 7),
          IF after + 8 <= Len(bytes) /\ bytes[after + 8] # 0
          THEN UnpackExtensions(bytes, after + 9) ELSE NoTracker)

(* No extension of a network message is known, so that none is unpacked.   *)
UnpackNetwork(bytes) ==
    LET header == ParseBuffer(bytes)
    IN NetworkBuilder(header.source, header.destination, UnpackMessageType(bytes, header.next),
                      PayloadAt(bytes, header.next + 1))

Unpack(bytes) == IF bytes[1] = Application THEN UnpackApplication(bytes) ELSE UnpackNetwork(bytes)

===============================================================================
