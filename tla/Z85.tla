---------------------------------- MODULE Z85 ----------------------------------
(***************************************************************************)
(* The text encoding of every message, identifier-free: four bytes are the *)
(* digits of a 32-bit number in base 256, five characters its digits in    *)
(* base 85.  A character stands for its digit here; the two mappings of    *)
(* the code are inverse to each other.                                     *)
(*                                                                         *)
(* A 32-bit number is handled as its upper and lower 16 bits, which is     *)
(* within the integers that TLC computes with.                             *)
(***************************************************************************)
EXTENDS Integers, Sequences

Byte == 0..255
Digit == 0..84

DecodedBlockSize == 4
EncodedBlockSize == 5
ValueUpperBound == 50529027         \* (2^32 - 1) \div 85

PaddingBytes(size) == (DecodedBlockSize - (size % DecodedBlockSize)) % DecodedBlockSize
EncodedSize(size) == ((size + PaddingBytes(size)) * EncodedBlockSize) \div DecodedBlockSize
DecodedSize(size) == (size * DecodedBlockSize) \div EncodedBlockSize

(* The number of a block without its last digit in base 85, and that digit. *)
Upper(b) == b[1] * 256 + b[2]
Lower(b) == b[3] * 256 + b[4]
Quotient(b) == (Upper(b) \div 85) * 65536 + ((Upper(b) % 85) * 65536 + Lower(b)) \div 85
Remainder(b) == ((Upper(b) % 85) * 65536 + Lower(b)) % 85

EncodeBlock(b) ==
    LET q == Quotient(b)
    IN <<q \div 614125, (q \div 7225) % 85, (q \div 85) % 85, q % 85, Remainder(b)>>

(* The number that four characters stand for, and the bytes of all five.   *)
Value(d) == d[1] * 614125 + d[2] * 7225 + d[3] * 85 + d[4]

Decodable(d) == Value(d) < ValueUpperBound

DecodeBlock(d) ==
    LET low == (Value(d) % 65536) * 85 + d[5]
        upper == (Value(d) \div 65536) * 85 + low \div 65536
        lower == low % 65536
    IN <<upper \div 256, upper % 256, lower \div 256, lower % 256>>

(* A buffer is padded to a whole number of blocks.                         *)
Encode(bytes) ==
    LET padded == bytes \o [k \in 1..PaddingBytes(Len(bytes)) |-> 0]
    IN [n \in 1..Len(padded) \div DecodedBlockSize |->
            EncodeBlock(SubSeq(padded, 4 * n - 3, 4 * n))]

CanDecode(blocks) == blocks # <<>> /\ \A n \in DOMAIN blocks : Decodable(blocks[n])
Decode(blocks) ==
    [k \in 1..DecodedBlockSize * Len(blocks) |->
        DecodeBlock(blocks[(k + 3) \div 4])[((k - 1) % 4) + 1]]

===============================================================================
