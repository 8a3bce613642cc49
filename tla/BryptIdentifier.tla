----------------------------- MODULE BryptIdentifier ----------------------------
(***************************************************************************)
(* The two representations of an identifier: sixteen bytes, and the text   *)
(* that names a node, "bry0:" and the bytes with their checksum in base    *)
(* 58.  One identifier is encoded byte by byte, its text is handed to      *)
(* another node, as it is or changed, and decoded there character by       *)
(* character.  A character is the number the mapping gives it.             *)
(***************************************************************************)
EXTENDS Integers, SequencesExt

CONSTANTS
    Source,             \* the identifiers: sequences of PayloadSize bytes
    Shake128,           \* external: the checksums that they may have
    NoIdentifier

(* The sizes that IdentifierDefinitions.hpp gives to an identifier and to  *)
(* its checksum, of which the lengths of the texts follow.                 *)
ASSUME IdentifierAssumption ==
    /\ \A identifier \in Source : identifier \in Seq(0..255) /\ Len(identifier) = 16
    /\ \A hash \in Shake128 : hash \in Seq(0..255) /\ Len(hash) = 4

PayloadSize == 16
ChecksumSize == 4
MetadataSize == 5
MinimumTextLength == 31
MaximumTextLength == 33
CharacterSpace == 58
Foreign == 255          \* what the mapping gives for a character out of its space

VARIABLES
    progress,           \* "Encode", "Deliver", "Decode" or "Done"
    source, checksum,   \* the identifier, and its checksum
    indicies,           \* digits of the conversion that goes on, the lowest first
    taken,              \* how much of its source that has taken
    text,               \* the text after its metadata, and as it was delivered
    delivered,
    container           \* the internal representation at the other node

conversion == <<progress, source, checksum, indicies, taken, text, delivered, container>>

-------------------------------------------------------------------------------
(***************************************************************************)
(* Base58: one more byte, or character, is put below the digits so far.    *)
(***************************************************************************)
ResultSize(size) == (size * 138) \div 100 + 1

Carried(carry, base) ==
    IF carry = 0 THEN <<>>
    ELSE IF carry < base THEN <<carry>> ELSE <<carry % base, carry \div base>>

Add(digit, digits, factor, base) ==
    LET carry[k \in 0..Len(digits)] ==
            IF k = 0 THEN digit ELSE (carry[k - 1] + digits[k] * factor) \div base
    IN [k \in 1..Len(digits) |-> (carry[k - 1] + digits[k] * factor) % base]
       \o Carried(carry[Len(digits)], base)

(* The zeros at the head of a number are kept, but for its last digit.     *)
LeadingZeros(s) ==
    IF \E i \in 1..Len(s) - 1 : s[i] # 0
    THEN (CHOOSE i \in 1..Len(s) - 1 : s[i] # 0 /\ \A j \in 1..i - 1 : s[j] = 0) - 1
    ELSE Len(s) - 1

Zeros(n) == [i \in 1..n |-> 0]
ConvertedBare(s, digits) == Reverse(digits)         \* mutant: the zeros are lost
Converted(s, digits) == Zeros(LeadingZeros(s)) \o Reverse(digits)

-------------------------------------------------------------------------------
(* The number an identifier is exported without its leading zeros, which   *)
(* are put back before its checksum is taken.                              *)
Exported(identifier) == SubSeq(identifier, LeadingZeros(identifier) + 1, PayloadSize)
Padded(bytes) == Zeros(PayloadSize - Len(bytes)) \o bytes
Bytes == Padded(Exported(source)) \o checksum

IsIdentifierReserved(identifier) == identifier = Zeros(PayloadSize)

(* Another identifier has another checksum.                                *)
ChecksumOf(bytes) == IF bytes = source THEN checksum ELSE <<>>

Verified(bytes) ==
    LET split == Len(bytes) - ChecksumSize
    IN SubSeq(bytes, split + 1, Len(bytes)) = ChecksumOf(SubSeq(bytes, 1, split))

Imported(bytes) == IF Len(bytes) = PayloadSize THEN bytes ELSE NoIdentifier

ConvertToInternalRepresentation(metadata, bytes) ==
    IF metadata /\ Verified(bytes)
    THEN Imported(SubSeq(bytes, 1, Len(bytes) - ChecksumSize)) ELSE NoIdentifier

(* The container of a text stays invalid where that is not an identifier.  *)
SetupFromNetworkRepresentation(t, bytes) ==
    container' = ConvertToInternalRepresentation(t.metadata, bytes)

(***************************************************************************)
(* What may become of a text: its metadata is another version's, it is cut *)
(* or led by one more character, or one of its characters is another.      *)
(***************************************************************************)
Deliveries(t) ==
    LET Sent(metadata, payload) == [metadata |-> metadata, payload |-> payload]
    IN { Sent(TRUE, t), Sent(FALSE, t), Sent(TRUE, Front(t)), Sent(TRUE, <<0>> \o t) }
       \cup {Sent(TRUE, [t EXCEPT ![i] = c]) : i \in {1, Len(t)}, c \in {0, 57, Foreign}}

IdentifierInit ==
    /\ progress = "Encode"
    /\ source \in Source
    /\ ~IsIdentifierReserved(source)
    /\ checksum \in Shake128
    /\ indicies = <<0>>
    /\ taken = 0
    /\ text = <<>>
    /\ delivered = [metadata |-> FALSE, payload |-> <<>>]
    /\ container = NoIdentifier

Encode ==
    /\ progress = "Encode"
    /\ IF taken < Len(Bytes)
       THEN /\ indicies' = Add(Bytes[taken + 1], indicies, 256, CharacterSpace)
            /\ taken' = taken + 1
            /\ UNCHANGED <<progress, text>>
       ELSE /\ text' = Converted(Bytes, indicies)
            /\ progress' = "Deliver"
            /\ UNCHANGED <<indicies, taken>>
    /\ UNCHANGED <<source, checksum, delivered, container>>

Deliver ==
    /\ progress = "Deliver"
    /\ delivered' \in Deliveries(text)
    /\ indicies' = <<0>>
    /\ taken' = 0
    /\ progress' = "Decode"
    /\ UNCHANGED <<source, checksum, text, container>>

Decode ==
    /\ progress = "Decode"
    /\ IF taken < Len(delivered.payload)
       THEN /\ indicies' = Add(delivered.payload[taken + 1], indicies, CharacterSpace, 256)
            /\ taken' = taken + 1
            /\ UNCHANGED <<progress, container>>
       ELSE /\ SetupFromNetworkRepresentation(delivered, Converted(delivered.payload, indicies))
            /\ progress' = "Done"
            /\ UNCHANGED <<indicies, taken>>
    /\ UNCHANGED <<source, checksum, text, delivered>>

IdentifierNext == Encode \/ Deliver \/ Decode

IdentifierSpec == IdentifierInit /\ [][IdentifierNext]_conversion

-------------------------------------------------------------------------------
(* A text that arrives as it was sent names the identifier it was made of, *)
(* whatever zeros that begins with, and no other text names another.  The  *)
(* digits fit the space that is made for them, and the length of the text  *)
(* is one that a message header takes, of an identifier that begins with   *)
(* less than three zeros.                                                  *)
IdentifierRoundTrips ==
    /\ progress = "Encode" => Len(indicies) <= ResultSize(PayloadSize + ChecksumSize)
    /\ progress = "Decode" => Len(indicies) <= ResultSize(Len(delivered.payload))
    /\ progress = "Deliver" =>
          /\ MetadataSize + Len(text) <= MaximumTextLength
          /\ LeadingZeros(source) < 3 => MetadataSize + Len(text) >= MinimumTextLength
    /\ progress = "Done" =>
          /\ container \in {source, NoIdentifier}
          /\ delivered = [metadata |-> TRUE, payload |-> text] => container = source

(* The lengths of IdentifierDefinitions.hpp:31-32 are those of every       *)
(* identifier: they are not, for some that begin with three zeros.         *)
LengthIsAccepted ==
    progress = "Deliver" => MetadataSize + Len(text) \in MinimumTextLength..MaximumTextLength

===============================================================================
