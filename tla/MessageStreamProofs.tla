--------------------------- MODULE MessageStreamProofs --------------------------
(***************************************************************************)
(* What is proved of a session's messages, for any that the builders make, *)
(* any signatures, any room on the connection and any number of messages:  *)
(* the text encoding and the layout are inverted by what reads them, and   *)
(* messages arrive in order.                                               *)
(***************************************************************************)
EXTENDS MessageStream, SequenceTheorems, WellFoundedInduction, TLAPS

-------------------------------------------------------------------------------
(*****************************************************************************)
(* The text encoding: every block is decoded as what was encoded, and only *)
(* the block of ones cannot be.                                            *)
(*****************************************************************************)

(* Division by the base of the text, said for the arithmetic of the        *)
(* prover.                                                                 *)
LEMMA Divided85 ==
    ASSUME NEW n \in Nat
    PROVE  /\ n \div 85 \in Nat /\ (n % 85) \in 0..84
           /\ n = 85 * (n \div 85) + (n % 85)
BY SMT

(* Division of a 32-bit number into its upper and lower 16 bits.           *)
LEMMA Divided65536 ==
    ASSUME NEW n \in Nat
    PROVE  /\ n \div 65536 \in Nat /\ n % 65536 \in Nat /\ n % 65536 < 65536
           /\ n = 65536 * (n \div 65536) + (n % 65536)
BY SMT

(* Two halves of 16 bits are determined by the number that they make.      *)
LEMMA SamePair ==
    ASSUME NEW a \in Nat, NEW c \in Nat, NEW b \in Nat, NEW d \in Nat, b < 65536, d < 65536,
           a * 65536 + b = c * 65536 + d
    PROVE  a = c /\ b = d
<1>1. ~(a < c)
  <2> SUFFICES ASSUME a + 1 <= c PROVE FALSE
    BY SMT
  <2> QED
    BY SMT
<1>2. ~(c < a)
  <2> SUFFICES ASSUME c + 1 <= a PROVE FALSE
    BY SMT
  <2> QED
    BY SMT
<1> QED
  BY SMT, <1>1, <1>2

(* Quotient and Remainder of a block divide its number by 85, whatever the *)
(* two halves of it are.                                                   *)
LEMMA QuotientOf ==
    ASSUME NEW u \in Nat, NEW l \in Nat, u < 65536, l < 65536,
           NEW q, q = (u \div 85) * 65536 + (((u % 85) * 65536 + l) \div 85),
           NEW r, r = ((u % 85) * 65536 + l) % 85
    PROVE  q \in Nat /\ r \in 0..84 /\ q <= 50529027 /\ q * 85 + r = u * 65536 + l
<1> DEFINE low == (u % 85) * 65536 + l
<1>1. (u \div 85) \in Nat /\ (u % 85) \in 0..84 /\ u = 85 * (u \div 85) + (u % 85)
  BY SMT, Divided85
<1>2. low \in Nat
  BY SMT, <1>1
<1>3. q = (u \div 85) * 65536 + (low \div 85) /\ r = (low % 85)
  BY SMT
<1>4. low = (u % 85) * 65536 + l
  BY SMT
<1> HIDE DEF low
<1>5. (low \div 85) \in Nat /\ (low % 85) \in 0..84 /\ low = 85 * (low \div 85) + (low % 85)
  BY SMT, <1>2, Divided85
<1>6. q \in Nat /\ r \in 0..84 /\ q * 85 + r = u * 65536 + l
  BY SMT, <1>4, <1>1, <1>5, <1>3
<1>7. q <= 50529027
  BY SMT, <1>6
<1> QED
  BY SMT, <1>6, <1>7

(* Five characters are decoded as the number that they stand for:          *)
(* DecodeBlock gives its four digits in base 256.                          *)
LEMMA DecodesNumber ==
    ASSUME NEW q \in Nat, NEW r \in 0..84, NEW u \in Nat, NEW l \in Nat, l < 65536,
           q * 85 + r = u * 65536 + l
    PROVE  /\ (q \div 65536) * 85 + (((q % 65536) * 85 + r) \div 65536) = u
           /\ ((q % 65536) * 85 + r) % 65536 = l
<1> DEFINE low == (q % 65536) * 85 + r
<1>1. q = 65536 * (q \div 65536) + (q % 65536) /\ (q % 65536) \in Nat /\ (q \div 65536) \in Nat
  BY SMT, Divided65536
<1>2. low \in Nat /\ low = (q % 65536) * 85 + r
  BY SMT, <1>1
<1> HIDE DEF low
<1>3. low = 65536 * (low \div 65536) + (low % 65536) /\ (low % 65536) \in Nat /\ (low % 65536) < 65536
      /\ (low \div 65536) \in Nat
  BY SMT, <1>2, Divided65536
<1>4. PICK a \in Nat : a = q \div 65536
  BY SMT, <1>1
<1>5. PICK c \in Nat : c = low \div 65536
  BY SMT, <1>3
<1>6. PICK h \in Nat : h = low % 65536
  BY SMT, <1>3
<1>7. (a * 85 + c) * 65536 + h = u * 65536 + l /\ h < 65536 /\ (a * 85 + c) \in Nat
  BY SMT, <1>1, <1>3, <1>2, <1>4, <1>5, <1>6
<1>8. a * 85 + c = u /\ h = l
  BY SMT, <1>7, SamePair
<1> QED
  BY SMT, <1>4, <1>5, <1>6, <1>8 DEF low

(* A block of the text encoding is decoded as the four bytes that it was   *)
(* encoded from, and it is decodable unless all of their bits are set:     *)
(* Z85's encode and decode.                                                *)
THEOREM DecodeEncodeBlock ==
    ASSUME NEW w \in Byte, NEW x \in Byte, NEW y \in Byte, NEW z \in Byte,
           NEW b, b = <<w, x, y, z>>
    PROVE  /\ DecodeBlock(EncodeBlock(b)) = b
           /\ EncodeBlock(b) \in [1..EncodedBlockSize -> Digit]
           /\ ~Decodable(EncodeBlock(b)) => b = <<255, 255, 255, 255>>
<1>1. Upper(b) = w * 256 + x /\ Lower(b) = y * 256 + z
  BY SMT DEF Upper, Lower
<1>2. PICK u \in Nat : u = w * 256 + x
  BY SMT DEF Byte
<1>3. PICK l \in Nat : l = y * 256 + z
  BY SMT DEF Byte
<1>4. u < 65536 /\ u \div 256 = w /\ u % 256 = x
  BY SMT, <1>2 DEF Byte
<1>5. l < 65536 /\ l \div 256 = y /\ l % 256 = z
  BY SMT, <1>3 DEF Byte
<1>6. /\ Quotient(b) = (u \div 85) * 65536 + (((u % 85) * 65536 + l) \div 85)
      /\ Remainder(b) = ((u % 85) * 65536 + l) % 85
  BY SMT, <1>1, <1>2, <1>3 DEF Quotient, Remainder
<1>7. /\ Quotient(b) \in Nat /\ Remainder(b) \in 0..84 /\ Quotient(b) <= 50529027
      /\ Quotient(b) * 85 + Remainder(b) = u * 65536 + l
  BY SMT, <1>4, <1>5, <1>6, QuotientOf
<1>8. PICK q \in Nat : q = Quotient(b)
  BY SMT, <1>7
<1>9. PICK r \in 0..84 : r = Remainder(b)
  BY SMT, <1>7
<1>10. q <= 50529027 /\ q * 85 + r = u * 65536 + l
  BY SMT, <1>7, <1>8, <1>9
<1>11. EncodeBlock(b) = <<q \div 614125, (q \div 7225) % 85, (q \div 85) % 85, q % 85, r>>
  BY SMT, <1>8, <1>9 DEF EncodeBlock
<1>12. /\ EncodeBlock(b) \in [1..5 -> 0..84]
       /\ DecodeBlock(EncodeBlock(b)) = <<u \div 256, u % 256, l \div 256, l % 256>>
       /\ ~Decodable(EncodeBlock(b)) => u = 65535 /\ l = 65535
  <2> DEFINE d == EncodeBlock(b)
  <2>1. d = <<q \div 614125, (q \div 7225) % 85, (q \div 85) % 85, q % 85, r>>
    BY SMT, <1>11
  <2> HIDE DEF d
  <2>2. /\ d[1] = q \div 614125 /\ d[2] = (q \div 7225) % 85 /\ d[3] = (q \div 85) % 85
        /\ d[4] = q % 85 /\ d[5] = r
    BY SMT, <2>1
  <2>3. /\ (q \div 614125) \in 0..84 /\ ((q \div 7225) % 85) \in 0..84
        /\ ((q \div 85) % 85) \in 0..84 /\ (q % 85) \in 0..84
        /\ (q \div 614125) * 614125 + ((q \div 7225) % 85) * 7225 + ((q \div 85) % 85) * 85 + (q % 85) = q
    <3>1. q \div 614125 \in 0..84
      BY SMT, <1>4, <1>5, <1>10
    <3>2. (q \div 85) \in Nat /\ q = 85 * (q \div 85) + (q % 85) /\ (q % 85) \in 0..84
      BY SMT, <1>4, <1>5, <1>10
    <3>3. (q \div 85) = (q \div 7225) * 85 + ((q \div 85) % 85)
          /\ (q \div 7225) \in Nat /\ ((q \div 85) % 85) \in 0..84
      BY SMT, <1>4, <1>5, <1>10
    <3>4. (q \div 7225) = (q \div 614125) * 85 + ((q \div 7225) % 85)
          /\ ((q \div 7225) % 85) \in 0..84
      BY SMT, <1>4, <1>5, <1>10
    <3> QED
      BY SMT, <3>1, <3>2, <3>3, <3>4
  <2>4. Value(d) = q
    BY SMT, <2>2, <2>3 DEF Value
  <2>5. d \in [1..5 -> 0..84]
    BY SMT, <2>1, <2>3
  <2>6. /\ (q \div 65536) * 85 + (((q % 65536) * 85 + r) \div 65536) = u
        /\ ((q % 65536) * 85 + r) % 65536 = l
    BY SMT, <1>5, <1>10, DecodesNumber
  <2>7. DecodeBlock(d) = <<u \div 256, u % 256, l \div 256, l % 256>>
    BY SMT, <2>2, <2>4, <2>6 DEF DecodeBlock
  <2>8. ASSUME ~Decodable(d) PROVE u = 65535 /\ l = 65535
    <3>1. q = 50529027
      BY SMT, <1>10, <2>4, <2>8 DEF Decodable, ValueUpperBound
    <3> QED
      BY SMT, <1>4, <1>5, <1>10, <3>1
  <2> QED
    BY SMT, <2>5, <2>7, <2>8 DEF d
<1>13. u = 65535 /\ l = 65535 => b = <<255, 255, 255, 255>>
  BY SMT, <1>4, <1>5
<1> QED
  BY SMT, <1>4, <1>5, <1>12, <1>13 DEF EncodedBlockSize, Digit

(* Nothing is padded to a buffer of whole blocks.                          *)
LEMMA Aligned ==
    ASSUME NEW count \in Nat
    PROVE  PaddingBytes(4 * count) = 0
BY SMT DEF PaddingBytes, DecodedBlockSize

(* The bytes of one block of a buffer.                                     *)
LEMMA FourBytes ==
    ASSUME NEW bytes \in Seq(Byte), NEW count \in Nat, Len(bytes) = 4 * count, NEW n \in 1..count
    PROVE  /\ SubSeq(bytes, 4 * n - 3, 4 * n)
              = <<bytes[4 * n - 3], bytes[4 * n - 2], bytes[4 * n - 1], bytes[4 * n]>>
           /\ bytes[4 * n - 3] \in Byte /\ bytes[4 * n - 2] \in Byte
           /\ bytes[4 * n - 1] \in Byte /\ bytes[4 * n] \in Byte
<1>1. \A k \in 1..Len(bytes) : bytes[k] \in Byte
  OBVIOUS
<1>2. /\ 4 * n - 3 \in 1..Len(bytes) /\ 4 * n - 2 \in 1..Len(bytes)
      /\ 4 * n - 1 \in 1..Len(bytes) /\ 4 * n \in 1..Len(bytes)
  BY SMT
<1>3. SubSeq(bytes, 4 * n - 3, 4 * n) = [i \in 1..4 |-> bytes[(4 * n - 4) + i]]
  BY SMT, <1>2
<1>4. /\ (4 * n - 4) + 1 = 4 * n - 3 /\ (4 * n - 4) + 2 = 4 * n - 2
      /\ (4 * n - 4) + 3 = 4 * n - 1 /\ (4 * n - 4) + 4 = 4 * n
  BY SMT
<1>5. [i \in 1..4 |-> bytes[(4 * n - 4) + i]]
         = <<bytes[(4 * n - 4) + 1], bytes[(4 * n - 4) + 2], bytes[(4 * n - 4) + 3], bytes[(4 * n - 4) + 4]>>
  BY SMT
<1>6. SubSeq(bytes, 4 * n - 3, 4 * n)
        = <<bytes[4 * n - 3], bytes[4 * n - 2], bytes[4 * n - 1], bytes[4 * n]>>
  BY Zenon, <1>3, <1>4, <1>5
<1> QED
  BY <1>1, <1>2, <1>6, Zenon

(* A buffer of whole blocks is encoded block by block: each block is       *)
(* decoded as its four bytes, and none is undecodable but that of four     *)
(* ones.                                                                   *)
LEMMA EncodeIs ==
    ASSUME NEW bytes \in Seq(Byte), NEW count \in Nat, Len(bytes) = 4 * count
    PROVE  /\ Encode(bytes) \in Seq(Block)
           /\ Len(Encode(bytes)) = count
           /\ \A n \in 1..count :
                 /\ \A i \in 1..4 : DecodeBlock(Encode(bytes)[n])[i] = bytes[(4 * n - 4) + i]
                 /\ ~Decodable(Encode(bytes)[n]) => SubSeq(bytes, 4 * n - 3, 4 * n) = Ones
<1> DEFINE padded == bytes \o [k \in 1..PaddingBytes(Len(bytes)) |-> 0]
<1>1. padded = bytes
  <2>1. PaddingBytes(Len(bytes)) = 0
    BY Aligned
  <2>2. [k \in 1..0 |-> 0] = << >>
    BY SMT
  <2>3. bytes \o << >> = bytes
    BY SMT
  <2> QED
    BY <2>1, <2>2, <2>3
<1>2. Len(padded) \div DecodedBlockSize = count
  <2>1. (4 * count) \div 4 = count
    BY SMT
  <2> QED
    BY <1>1, <2>1, Zenon DEF DecodedBlockSize
<1>3. Encode(bytes) = [n \in 1..count |-> EncodeBlock(SubSeq(bytes, 4 * n - 3, 4 * n))]
  BY <1>1, <1>2 DEF Encode
<1>4. ASSUME NEW n \in 1..count
      PROVE  /\ EncodeBlock(SubSeq(bytes, 4 * n - 3, 4 * n)) \in Block
             /\ \A i \in 1..4 : DecodeBlock(Encode(bytes)[n])[i] = bytes[(4 * n - 4) + i]
             /\ ~Decodable(Encode(bytes)[n]) => SubSeq(bytes, 4 * n - 3, 4 * n) = Ones
  <2> DEFINE b == SubSeq(bytes, 4 * n - 3, 4 * n)
  <2>1. PICK w \in Byte, x \in Byte, y \in Byte, z \in Byte :
            /\ w = bytes[4 * n - 3] /\ x = bytes[4 * n - 2]
            /\ y = bytes[4 * n - 1] /\ z = bytes[4 * n]
    BY FourBytes, Zenon
  <2>2. b = <<w, x, y, z>>
    BY FourBytes, <2>1, Zenon
  <2>3. Encode(bytes)[n] = EncodeBlock(b)
    BY <1>3, Zenon
  <2> HIDE DEF b
  <2>4. /\ DecodeBlock(EncodeBlock(b)) = b
        /\ EncodeBlock(b) \in [1..EncodedBlockSize -> Digit]
        /\ ~Decodable(EncodeBlock(b)) => b = <<255, 255, 255, 255>>
    BY <2>2, DecodeEncodeBlock, Zenon
  <2>5. \A i \in 1..4 : b[i] = bytes[(4 * n - 4) + i]
    <3>1. /\ (4 * n - 4) + 1 = 4 * n - 3 /\ (4 * n - 4) + 2 = 4 * n - 2
          /\ (4 * n - 4) + 3 = 4 * n - 1 /\ (4 * n - 4) + 4 = 4 * n
      BY SMT
    <3>2. b[1] = w /\ b[2] = x /\ b[3] = y /\ b[4] = z
      BY SMT, <2>2
    <3> QED
      BY SMT, <2>1, <3>1, <3>2
  <2>6. Ones = <<255, 255, 255, 255>>
    BY SMT DEF Ones, DecodedBlockSize
  <2> QED
    BY <2>3, <2>4, <2>5, <2>6, Zenon DEF b, Block
<1>5. \A n \in 1..count : EncodeBlock(SubSeq(bytes, 4 * n - 3, 4 * n)) \in Block
  BY <1>4, Zenon
<1> HIDE DEF padded
<1>6. Encode(bytes) \in Seq(Block) /\ Len(Encode(bytes)) = count
  BY <1>3, <1>5, SMT
<1> QED
  BY <1>4, <1>6, Zenon

(* Consecutive blocks of an encoded buffer are decoded as their part of    *)
(* that buffer, wherever they begin.                                       *)
LEMMA DecodeIs ==
    ASSUME NEW bytes \in Seq(Byte), NEW count \in Nat, Len(bytes) = 4 * count,
           NEW blocks \in Seq(Block), NEW first \in Nat, first + Len(blocks) <= count,
           \A j \in 1..Len(blocks) : blocks[j] = Encode(bytes)[first + j]
    PROVE  Decode(blocks) = SubSeq(bytes, 4 * first + 1, 4 * first + 4 * Len(blocks))
<1>1. Decode(blocks) = [k \in 1..4 * Len(blocks) |-> DecodeBlock(blocks[(k + 3) \div 4])[((k - 1) % 4) + 1]]
  BY DEF Decode, DecodedBlockSize
<1>2. SubSeq(bytes, 4 * first + 1, 4 * first + 4 * Len(blocks))
      = [k \in 1..4 * Len(blocks) |-> bytes[4 * first + k]]
  BY SMT
<1>3. ASSUME NEW k \in 1..4 * Len(blocks)
      PROVE  DecodeBlock(blocks[(k + 3) \div 4])[((k - 1) % 4) + 1] = bytes[4 * first + k]
  <2>1. PICK j \in 1..Len(blocks) : j = (k + 3) \div 4
    BY SMT
  <2>2. PICK i \in 1..4 : i = ((k - 1) % 4) + 1
    BY SMT
  <2>3. k = 4 * j - 4 + i
    BY SMT, <2>1, <2>2
  <2>4. first + j \in 1..count
    BY SMT
  <2>5. DecodeBlock(Encode(bytes)[first + j])[i] = bytes[(4 * (first + j) - 4) + i]
    BY EncodeIs, <2>4, Zenon
  <2>6. (4 * (first + j) - 4) + i = 4 * first + k
    BY SMT, <2>3
  <2> QED
    BY <2>1, <2>2, <2>5, <2>6, Zenon
<1> QED
  BY <1>1, <1>2, <1>3, Zenon

-------------------------------------------------------------------------------
(*****************************************************************************)
(* The layout: a message's fields are found where they were packed.  The   *)
(* sizes of fields are opaque operators, for the arithmetic.               *)
(*****************************************************************************)

(* The bytes have the field at the place.                                  *)
Carries(bytes, at, field) ==
    /\ at + Len(field) <= Len(bytes) + 1
    /\ \A k \in 1..Len(field) : bytes[at + k - 1] = field[k]

(* Whatever carries two fields in a row carries each of them at its place. *)
LEMMA CarriesParts ==
    ASSUME NEW bytes \in Seq(Byte), NEW at \in Nat, NEW f \in Seq(Byte), NEW g \in Seq(Byte),
           Carries(bytes, at, f \o g)
    PROVE  /\ Carries(bytes, at, f) /\ Carries(bytes, at + Len(f), g)
           /\ f \o g \in Seq(Byte) /\ Len(f \o g) = Len(f) + Len(g)
<1>1. f \o g \in Seq(Byte) /\ Len(f \o g) = Len(f) + Len(g)
  BY SMT
<1>2. \A k \in 1..Len(f) : (f \o g)[k] = f[k]
  BY SMT
<1>3. \A k \in 1..Len(g) : (f \o g)[Len(f) + k] = g[k]
  BY SMT
<1>4. Carries(bytes, at, f)
  BY SMT, <1>1, <1>2 DEF Carries
<1>5. ASSUME NEW k \in 1..Len(g) PROVE bytes[at + Len(f) + k - 1] = g[k]
  <2>1. Len(f) + k \in 1..Len(f \o g)
    BY SMT, <1>1
  <2>2. bytes[at + (Len(f) + k) - 1] = (f \o g)[Len(f) + k]
    BY <2>1, Zenon DEF Carries
  <2>3. at + (Len(f) + k) - 1 = at + Len(f) + k - 1
    BY SMT
  <2> QED
    BY <1>3, <2>2, <2>3, Zenon
<1>6. Carries(bytes, at + Len(f), g)
  BY SMT, <1>1, <1>5 DEF Carries
<1> QED
  BY <1>1, <1>4, <1>6

(* A sequence carries its beginning at its first place.                    *)
LEMMA CarriesWhole ==
    ASSUME NEW f \in Seq(Byte), NEW g \in Seq(Byte)
    PROVE  Carries(f \o g, 1, f)
BY SMT DEF Carries

(* A carried field is what SubSeq reads.                                   *)
LEMMA CarriedField ==
    ASSUME NEW bytes \in Seq(Byte), NEW at \in Nat \ {0}, NEW f \in Seq(Byte), Carries(bytes, at, f)
    PROVE  SubSeq(bytes, at, at + Len(f) - 1) = f
<1>1. \A k \in 1..Len(f) : SubSeq(bytes, at, at + Len(f) - 1)[k] = f[k]
  BY SMT DEF Carries
<1>2. Len(SubSeq(bytes, at, at + Len(f) - 1)) = Len(f)
  BY SMT DEF Carries
<1>3. SubSeq(bytes, at, at + Len(f) - 1) \in Seq(Byte)
  BY SMT DEF Carries
<1> QED
  BY SMT, <1>1, <1>2, <1>3

(* A number of one byte is packed as that byte.                            *)
LEMMA BigEndianOfOne ==
    ASSUME NEW n \in Byte
    PROVE  BigEndian(n, 1) = <<n>>
<1>1. 256^(1 - 1) = 1
  BY SMT
<1>2. (n \div 1) % 256 = n
  BY SMT DEF Byte
<1>3. BigEndian(n, 1) = [k \in 1..1 |-> (n \div 256^(1 - k)) % 256]
  BY DEF BigEndian
<1> QED
  BY SMT, <1>1, <1>2, <1>3

(* The size that PackExtensions writes for an await extension.             *)
LEMMA BigEndianOfEight == BigEndian(8, 2) = <<0, 8>>
<1>1. 256^(2 - 2) = 1 /\ 256^(2 - 1) = 256
  BY SMT
<1>2. BigEndian(8, 2) = [k \in 1..2 |-> (8 \div 256^(2 - k)) % 256]
  BY DEF BigEndian
<1>3. (8 \div 1) % 256 = 8 /\ (8 \div 256) % 256 = 0
  BY SMT
<1> QED
  BY SMT, <1>1, <1>2, <1>3

(* What Number reads of four bytes: its recursive function, unrolled.      *)
LEMMA NumberOfFour ==
    ASSUME NEW bytes, NEW at \in Nat,
           NEW w \in Byte, NEW x \in Byte, NEW y \in Byte, NEW z \in Byte,
           bytes[at] = w, bytes[at + 1] = x, bytes[at + 2] = y, bytes[at + 3] = z
    PROVE  Number(bytes, at, 4) = ((w * 256 + x) * 256 + y) * 256 + z
<1> DEFINE G(n) == [k \in 0..4 |-> IF k = 0 THEN 0 ELSE n[k - 1] * 256 + bytes[at + k - 1]]
           f == [k \in 0..4 |-> CASE k = 0 -> 0
                                  [] k = 1 -> w
                                  [] k = 2 -> w * 256 + x
                                  [] k = 3 -> (w * 256 + x) * 256 + y
                                  [] k = 4 -> ((w * 256 + x) * 256 + y) * 256 + z]
           n == CHOOSE m : m = G(m)
<1>1. f = G(f)
  <2>1. \A k \in 0..4 : f[k] = IF k = 0 THEN 0 ELSE f[k - 1] * 256 + bytes[at + k - 1]
    BY SMT DEF Byte
  <2> QED
    BY SMT, <2>1
<1>2. n = G(n)
  <2> HIDE DEF f, G
  <2> QED
    BY <1>1
<1>3. Number(bytes, at, 4) = n[4]
  BY DEF Number
<1> HIDE DEF n
<1>4. n[0] = 0 /\ n[1] = n[0] * 256 + bytes[at] /\ n[2] = n[1] * 256 + bytes[at + 1]
      /\ n[3] = n[2] * 256 + bytes[at + 2] /\ n[4] = n[3] * 256 + bytes[at + 3]
  BY SMT, <1>2
<1> QED
  BY SMT, <1>3, <1>4 DEF Byte

(* What Number reads of two bytes.                                         *)
LEMMA NumberOfTwo ==
    ASSUME NEW bytes, NEW at \in Nat,
           NEW w \in Byte, NEW x \in Byte,
           bytes[at] = w, bytes[at + 1] = x
    PROVE  Number(bytes, at, 2) = w * 256 + x
<1> DEFINE G(n) == [k \in 0..2 |-> IF k = 0 THEN 0 ELSE n[k - 1] * 256 + bytes[at + k - 1]]
           f == [k \in 0..2 |-> CASE k = 0 -> 0
                                  [] k = 1 -> w
                                  [] k = 2 -> w * 256 + x]
           n == CHOOSE m : m = G(m)
<1>1. f = G(f)
  <2>1. \A k \in 0..2 : f[k] = IF k = 0 THEN 0 ELSE f[k - 1] * 256 + bytes[at + k - 1]
    BY SMT DEF Byte
  <2> QED
    BY SMT, <2>1
<1>2. n = G(n)
  <2> HIDE DEF f, G
  <2> QED
    BY <1>1
<1>3. Number(bytes, at, 2) = n[2]
  BY DEF Number
<1> HIDE DEF n
<1>4. n[0] = 0 /\ n[1] = n[0] * 256 + bytes[at]
      /\ n[2] = n[1] * 256 + bytes[at + 1]
  BY SMT, <1>2
<1> QED
  BY SMT, <1>3, <1>4 DEF Byte

(* The four bytes of a number of 32 bits stand for it.                     *)
LEMMA BigEndianOfFour ==
    ASSUME NEW n \in Nat, n \div 256^3 < 256
    PROVE  \E w \in Byte, x \in Byte, y \in Byte, z \in Byte :
              BigEndian(n, 4) = <<w, x, y, z>> /\ ((w * 256 + x) * 256 + y) * 256 + z = n
<1>1. 256^0 = 1 /\ 256^1 = 256 /\ 256^2 = 65536 /\ 256^3 = 16777216
  BY SMT
<1>2. BigEndian(n, 4) = <<(n \div 16777216) % 256, (n \div 65536) % 256, (n \div 256) % 256, n % 256>>
  <2>1. BigEndian(n, 4) = [k \in 1..4 |-> (n \div 256^(4 - k)) % 256]
    BY DEF BigEndian
  <2>2. n \div 1 = n
    BY SMT
  <2> QED
    BY SMT, <1>1, <2>1, <2>2
<1>3. n \div 16777216 < 256 /\ n \div 16777216 \in Nat
  BY SMT, <1>1
<1>4. PICK a \in Nat : a = n \div 256
  BY SMT
<1>5. PICK c \in Nat : c = n \div 65536
  BY SMT
<1>6. PICK w \in Byte : w = n \div 16777216
  BY SMT, <1>3 DEF Byte
<1>7. PICK x \in Byte : x = (n \div 65536) % 256
  BY SMT DEF Byte
<1>8. PICK y \in Byte : y = (n \div 256) % 256
  BY SMT DEF Byte
<1>9. PICK z \in Byte : z = n % 256
  BY SMT DEF Byte
<1>10. n = a * 256 + z /\ a = c * 256 + y /\ c = w * 256 + x
  BY SMT, <1>4, <1>5, <1>6, <1>7, <1>8, <1>9
<1>11. w = (n \div 16777216) % 256
  BY SMT, <1>3, <1>6
<1>12. BigEndian(n, 4) = <<w, x, y, z>>
  BY SMT, <1>2, <1>7, <1>8, <1>9, <1>11
<1>13. ((w * 256 + x) * 256 + y) * 256 + z = n
  BY SMT, <1>10 DEF Byte
<1> QED
  BY <1>12, <1>13

(* A number of 32 bits that is packed is read as that number.              *)
LEMMA NumberIsCarried ==
    ASSUME NEW bytes \in Seq(Byte), NEW at \in Nat \ {0}, NEW n \in Nat, n \div 256^3 < 256,
           Carries(bytes, at, BigEndian(n, 4))
    PROVE  Number(bytes, at, 4) = n /\ at + 3 <= Len(bytes) /\ BigEndian(n, 4) \in Seq(Byte)
           /\ Len(BigEndian(n, 4)) = 4
<1>1. PICK w \in Byte, x \in Byte, y \in Byte, z \in Byte :
         BigEndian(n, 4) = <<w, x, y, z>> /\ ((w * 256 + x) * 256 + y) * 256 + z = n
  BY BigEndianOfFour, Zenon
<1>2. Carries(bytes, at, <<w, x, y, z>>)
  BY <1>1, Zenon
<1>3. Len(<<w, x, y, z>>) = 4 /\ <<w, x, y, z>> \in Seq(Byte)
  BY SMT
<1>4. at \in Nat
  OBVIOUS
<1>5. bytes[at] = w /\ bytes[at + 1] = x /\ bytes[at + 2] = y /\ bytes[at + 3] = z
      /\ at + 4 <= Len(bytes) + 1
  <2>1. \A k \in 1..4 : bytes[at + k - 1] = <<w, x, y, z>>[k]
    <3>1. \A k \in 1..Len(<<w, x, y, z>>) : bytes[at + k - 1] = <<w, x, y, z>>[k]
      BY <1>2, Zenon DEF Carries
    <3> QED
      BY <1>3, <3>1, Zenon
  <2>2. at + 1 - 1 = at /\ at + 2 - 1 = at + 1 /\ at + 3 - 1 = at + 2 /\ at + 4 - 1 = at + 3
    BY SMT
  <2> QED
    BY SMT, <1>2, <1>3, <2>1, <2>2 DEF Carries
<1>6. Number(bytes, at, 4) = ((w * 256 + x) * 256 + y) * 256 + z
  BY SMT, <1>5, <1>4, NumberOfFour
<1>7. at + 3 <= Len(bytes)
  BY SMT, <1>5
<1>8. BigEndian(n, 4) \in Seq(Byte) /\ Len(BigEndian(n, 4)) = 4
  BY <1>1, <1>3, Zenon
<1> QED
  BY <1>1, <1>6, <1>7, <1>8, Zenon

(* The fields of a message, from MessageAssumption.                        *)
LEMMA MessageIs ==
    ASSUME NEW m \in Message
    PROVE  /\ m.protocol \in {Network, Application}
           /\ m.source \in Seq(Byte) /\ m.to \in Destinations /\ m.destination \in Seq(Byte)
           /\ m.phase \in Byte /\ m.payload \in Seq(Byte) /\ m.timestamp \in Seq(Byte)
           /\ m.tracker \in {NoTracker} \cup Seq(Byte)
           /\ Len(m.destination) \in {0} \cup MinimumLength..MaximumLength
           /\ m.protocol = Application =>
                 m = ApplicationBuilder(m.source, m.to, m.destination, m.kind, m.phase,
                                        m.payload, m.timestamp, m.tracker)
           /\ m.kind \in Byte
BY MessageAssumption, SMT DEF ApplicationBuilder, Commands, NetworkTypes, Byte, Application

(* A pad completes the last block.                                         *)
LEMMA PaddingIs ==
    ASSUME NEW size \in Nat
    PROVE  /\ PaddingBytes(size) \in 0..3 /\ (size + PaddingBytes(size)) % 4 = 0
           /\ EncodedSize(size) \in Nat
           /\ size % 4 = 0 => PaddingBytes(size) = 0
           /\ EncodedSize(size) = ((size + PaddingBytes(size)) * 5) \div 4
<1>1. PICK a \in Nat, r \in 0..3 : size = 4 * a + r /\ r = size % 4
  BY SMT
<1>2. PaddingBytes(size) = (4 - r) % 4
  BY SMT, <1>1 DEF PaddingBytes, DecodedBlockSize
<1>3. PaddingBytes(size) = IF r = 0 THEN 0 ELSE 4 - r
  BY SMT, <1>2
<1>4. PaddingBytes(size) \in 0..3 /\ (size + PaddingBytes(size)) % 4 = 0
  BY SMT, <1>1, <1>3
<1>5. EncodedSize(size) = ((size + PaddingBytes(size)) * 5) \div 4
  BY DEF EncodedSize, DecodedBlockSize, EncodedBlockSize
<1>6. EncodedSize(size) \in Nat
  <2>1. PICK n \in Nat : n = (size + PaddingBytes(size)) * 5
    BY SMT, <1>4
  <2>2. n \div 4 \in Nat
    BY SMT
  <2> QED
    BY <1>5, <2>1, <2>2, Zenon
<1> QED
  BY <1>1, <1>3, <1>4, <1>5, <1>6, Zenon

(* Two sequences of bytes make one.                                        *)
LEMMA JoinIs ==
    ASSUME NEW f \in Seq(Byte), NEW g \in Seq(Byte)
    PROVE  f \o g \in Seq(Byte) /\ Len(f \o g) = Len(f) + Len(g)
BY SMT

(* A packed size has four bytes.                                           *)
LEMMA FourIs ==
    ASSUME NEW n \in Nat, n \div 256^3 < 256
    PROVE  BigEndian(n, 4) \in Seq(Byte) /\ Len(BigEndian(n, 4)) = 4
<1>1. PICK w \in Byte, x \in Byte, y \in Byte, z \in Byte :
         BigEndian(n, 4) = <<w, x, y, z>> /\ ((w * 256 + x) * 256 + y) * 256 + z = n
  BY BigEndianOfFour, Zenon
<1>2. <<w, x, y, z>> \in Seq(Byte) /\ Len(<<w, x, y, z>>) = 4
  BY SMT
<1> QED
  BY <1>1, <1>2, Zenon

(* The size of a pack fits the header's 32 bits: MessageAssumption.        *)
LEMMA SizeIs ==
    ASSUME NEW m \in Message
    PROVE  GetPackSize(m) \in Nat /\ GetPackSize(m) \div 256^3 < 256
<1>1. HeaderPackSize(m) + FixedPackSize(m) + Len(m.payload) + ExtensionSize(m) + SignedSize(m) \in Nat
  <2>1. HeaderPackSize(m) \in Nat
    <3>1. m.source \in Seq(Byte) /\ m.destination \in Seq(Byte)
      BY MessageIs, Zenon
    <3>2. PICK a \in Nat : a = Len(m.source)
      BY SMT, <3>1
    <3>3. PICK b \in Nat : b = Len(m.destination)
      BY SMT, <3>1
    <3>4. HeaderPackSize(m) = 11 + a + b
      BY <3>2, <3>3, Zenon DEF HeaderPackSize
    <3> QED
      BY SMT, <3>4
  <2>2. FixedPackSize(m) \in Nat
    BY SMT DEF FixedPackSize, ApplicationFixedPackSize, NetworkFixedPackSize
  <2>3. ExtensionSize(m) \in Nat
    BY SMT DEF ExtensionSize, FixedAwaitExtensionSize
  <2>4. SignedSize(m) \in Nat
    BY SMT, LengthAssumption DEF SignedSize
  <2>5. Len(m.payload) \in Nat
    BY SMT, MessageIs
  <2> QED
    BY SMT, <2>1, <2>2, <2>3, <2>4, <2>5
<1>2. GetPackSize(m) \in Nat
  BY <1>1, PaddingIs, Zenon DEF GetPackSize
<1> QED
  BY <1>2, MessageAssumption, Zenon

(* A chunk is its size and its bytes.                                      *)
LEMMA ChunkIs ==
    ASSUME NEW f \in Seq(Byte), Len(f) \in Byte
    PROVE  PackChunk(f, 1) = <<Len(f)>> \o f
BY BigEndianOfOne, Zenon DEF PackChunk

(* One byte is a sequence of them.                                         *)
LEMMA OneIs ==
    ASSUME NEW bytes \in Seq(Byte), NEW at \in Nat, NEW b \in Byte, Carries(bytes, at, <<b>>)
    PROVE  bytes[at] = b /\ <<b>> \in Seq(Byte) /\ Len(<<b>>) = 1 /\ at <= Len(bytes)
<1>1. <<b>> \in Seq(Byte) /\ Len(<<b>>) = 1 /\ <<b>>[1] = b
  BY SMT
<1>2. bytes[at + 1 - 1] = b /\ at + 1 <= Len(bytes) + 1
  BY SMT, <1>1 DEF Carries
<1>3. at + 1 - 1 = at /\ at <= Len(bytes)
  BY SMT, <1>2
<1> QED
  BY <1>1, <1>2, <1>3, Zenon

(* PackHeader as its six parts in a row.                                   *)
LEMMA HeaderIs ==
    ASSUME NEW m \in Message, HeaderIsValid(m)
    PROVE  /\ Len(m.source) \in Byte /\ Len(m.destination) \in Byte
           /\ PackHeader(m) = <<m.protocol, 0, 0>> \o BigEndian(GetPackSize(m), 4)
                 \o (<<Len(m.source)>> \o m.source) \o <<m.to>>
                 \o (<<Len(m.destination)>> \o m.destination) \o <<0>>
           /\ PackHeader(m) \in Seq(Byte)
           /\ Len(PackHeader(m)) = 11 + Len(m.source) + Len(m.destination)
<1>1. Len(m.source) \in Byte /\ Len(m.destination) \in Byte
  <2>1. Len(m.source) \in MinimumLength..MaximumLength
    BY Zenon DEF HeaderIsValid
  <2>2. Len(m.destination) \in {0} \cup MinimumLength..MaximumLength
    BY MessageIs, Zenon
  <2>3. \A n \in {0} \cup MinimumLength..MaximumLength : n \in Byte
    BY SMT, LengthAssumption DEF Byte
  <2> QED
    BY <2>1, <2>2, <2>3, Zenon
<1>2. PackHeader(m) = <<m.protocol, 0, 0>> \o BigEndian(GetPackSize(m), 4)
                 \o (<<Len(m.source)>> \o m.source) \o <<m.to>>
                 \o (<<Len(m.destination)>> \o m.destination) \o <<0>>
  BY <1>1, MessageIs, ChunkIs, Zenon DEF PackHeader
<1>3. m.protocol \in Byte /\ m.to \in Byte /\ 0 \in Byte
  BY SMT, MessageIs DEF Network, Application, Destinations, ToNode, ToCluster, ToNetwork, Byte
<1>4. BigEndian(GetPackSize(m), 4) \in Seq(Byte) /\ Len(BigEndian(GetPackSize(m), 4)) = 4
  BY SizeIs, FourIs, SMT
<1> DEFINE p == <<m.protocol, 0, 0>>
           n == BigEndian(GetPackSize(m), 4)
           s == <<Len(m.source)>> \o m.source
           d == <<Len(m.destination)>> \o m.destination
<1>5. /\ p \in Seq(Byte) /\ Len(p) = 3 /\ <<m.to>> \in Seq(Byte) /\ Len(<<m.to>>) = 1
      /\ <<0>> \in Seq(Byte) /\ Len(<<0>>) = 1
  BY SMT, <1>3
<1>6. s \in Seq(Byte) /\ Len(s) = 1 + Len(m.source) /\ d \in Seq(Byte) /\ Len(d) = 1 + Len(m.destination)
  BY SMT, <1>1, MessageIs
<1>7. Len(m.source) \in Nat /\ Len(m.destination) \in Nat
  BY SMT, MessageIs
<1>8. n \in Seq(Byte) /\ Len(n) = 4
  BY <1>4
<1> HIDE DEF p, n, s, d
<1>9. p \o n \o s \o <<m.to>> \o d \o <<0>> \in Seq(Byte)
      /\ Len(p \o n \o s \o <<m.to>> \o d \o <<0>>) = 11 + Len(m.source) + Len(m.destination)
  <2> DEFINE pn == p \o n
             pns == pn \o s
             pnst == pns \o <<m.to>>
             pnstd == pnst \o d
             all == pnstd \o <<0>>
  <2>1. pn \in Seq(Byte) /\ Len(pn) = Len(p) + Len(n)
    BY <1>5, <1>8, JoinIs, Zenon
  <2>2. pns \in Seq(Byte) /\ Len(pns) = Len(pn) + Len(s)
    BY <1>6, <2>1, JoinIs, Zenon
  <2>3. pnst \in Seq(Byte) /\ Len(pnst) = Len(pns) + Len(<<m.to>>)
    BY <1>5, <2>2, JoinIs, Zenon
  <2>4. pnstd \in Seq(Byte) /\ Len(pnstd) = Len(pnst) + Len(d)
    BY <1>6, <2>3, JoinIs, Zenon
  <2>5. all \in Seq(Byte) /\ Len(all) = Len(pnstd) + Len(<<0>>)
    BY <1>5, <2>4, JoinIs, Zenon
  <2>6. all = p \o n \o s \o <<m.to>> \o d \o <<0>>
    BY Zenon
  <2> HIDE DEF pn, pns, pnst, pnstd, all
  <2>7. PICK a \in Nat : a = Len(m.source)
    BY <1>7, Zenon
  <2>8. PICK b \in Nat : b = Len(m.destination)
    BY <1>7, Zenon
  <2>9. Len(p) = 3 /\ Len(n) = 4 /\ Len(s) = 1 + a /\ Len(<<m.to>>) = 1 /\ Len(d) = 1 + b /\ Len(<<0>>) = 1
    BY <1>5, <1>6, <1>8, <2>7, <2>8, Zenon
  <2>10. Len(all) = ((((3 + 4) + (1 + a)) + 1) + (1 + b)) + 1
    BY <2>1, <2>2, <2>3, <2>4, <2>5, <2>9, Zenon
  <2>11. Len(all) = 11 + a + b
    BY SMT, <2>10
  <2> QED
    BY <2>5, <2>6, <2>7, <2>8, <2>11, Zenon
<1> QED
  BY <1>1, <1>2, <1>9, Zenon DEF p, n, s, d

(* The sizes of a message's variable fields.                               *)
SourceSize(m) == Len(m.source)
DestinationSize(m) == Len(m.destination)
PayloadSize(m) == Len(m.payload)

(* Whatever carries a chunk with a size of one byte has that byte, and the *)
(* field after it.                                                         *)
LEMMA CarriesChunk ==
    ASSUME NEW bytes \in Seq(Byte), NEW at \in Nat, NEW b \in Byte, NEW f \in Seq(Byte),
           Carries(bytes, at, <<b>> \o f)
    PROVE  bytes[at] = b /\ Carries(bytes, at + 1, f)
<1>1. <<b>> \in Seq(Byte) /\ Len(<<b>>) = 1
  BY SMT
<1>2. Carries(bytes, at, <<b>>) /\ Carries(bytes, at + Len(<<b>>), f)
  BY <1>1, CarriesParts, Zenon
<1> QED
  BY <1>1, <1>2, OneIs, Zenon

(* The sizes are numbers, and an identifier's fits a byte.                 *)
LEMMA SizesAre ==
    ASSUME NEW m \in Message
    PROVE  SourceSize(m) \in Nat /\ DestinationSize(m) \in Nat /\ PayloadSize(m) \in Nat
<1>1. m.source \in Seq(Byte) /\ m.destination \in Seq(Byte) /\ m.payload \in Seq(Byte)
  BY MessageIs, Zenon
<1>2. \A f \in Seq(Byte) : Len(f) \in Nat
  BY SMT
<1> QED
  BY <1>1, <1>2, Zenon DEF SourceSize, DestinationSize, PayloadSize

(* Bytes that begin with a packed header have each of its fields where     *)
(* ParseBuffer and PeekSize read it.                                       *)
LEMMA HeaderIsCarried ==
    ASSUME NEW bytes \in Seq(Byte), NEW m \in Message, HeaderIsValid(m),
           Carries(bytes, 1, PackHeader(m))
    PROVE  /\ bytes[1] = m.protocol
           /\ Number(bytes, 4, 4) = GetPackSize(m)
           /\ bytes[8] = SourceSize(m)
           /\ Carries(bytes, 9, m.source)
           /\ bytes[9 + SourceSize(m)] = m.to
           /\ bytes[10 + SourceSize(m)] = DestinationSize(m)
           /\ Carries(bytes, 11 + SourceSize(m), m.destination)
           /\ 11 + SourceSize(m) + DestinationSize(m) <= Len(bytes)
<1> DEFINE a == SourceSize(m)
           b == DestinationSize(m)
           p == <<m.protocol, 0, 0>>
           n == BigEndian(GetPackSize(m), 4)
           s == <<a>> \o m.source
           d == <<b>> \o m.destination
           pn == p \o n
           pns == pn \o s
           pnst == pns \o <<m.to>>
           pnstd == pnst \o d
           all == pnstd \o <<0>>
<1>1. a \in Byte /\ b \in Byte /\ PackHeader(m) = all
  BY HeaderIs, Zenon DEF SourceSize, DestinationSize
<1>2. a \in Nat /\ b \in Nat
  BY SizesAre, Zenon
<1>3. Len(m.source) = a /\ Len(m.destination) = b
  BY Zenon DEF SourceSize, DestinationSize
<1> HIDE DEF a, b
<1>4. m.protocol \in Byte /\ m.to \in Byte /\ 0 \in Byte
  BY SMT, MessageIs DEF Network, Application, Destinations, ToNode, ToCluster, ToNetwork, Byte
<1>5. n \in Seq(Byte) /\ Len(n) = 4
  BY SizeIs, FourIs, Zenon
<1>6. p \in Seq(Byte) /\ Len(p) = 3 /\ <<m.to>> \in Seq(Byte) /\ Len(<<m.to>>) = 1
      /\ <<0>> \in Seq(Byte) /\ Len(<<0>>) = 1 /\ p[1] = m.protocol
      /\ <<a>> \in Seq(Byte) /\ Len(<<a>>) = 1 /\ <<b>> \in Seq(Byte) /\ Len(<<b>>) = 1
  BY SMT, <1>1, <1>4
<1>7. m.source \in Seq(Byte) /\ m.destination \in Seq(Byte)
  BY MessageIs, Zenon
<1>8. s \in Seq(Byte) /\ Len(s) = 1 + a /\ d \in Seq(Byte) /\ Len(d) = 1 + b
  BY <1>3, <1>6, <1>7, JoinIs, Zenon
<1> HIDE DEF p, n, s, d
<1>9. pn \in Seq(Byte) /\ Len(pn) = 3 + 4
  <2>1. p \in Seq(Byte) /\ Len(p) = 3
    BY <1>6
  <2>2. p \o n \in Seq(Byte) /\ Len(p \o n) = Len(p) + Len(n)
    BY <1>5, <2>1, JoinIs, Zenon
  <2> QED
    BY <1>5, <2>1, <2>2, Zenon
<1>10. pns \in Seq(Byte) /\ Len(pns) = (3 + 4) + (1 + a)
  BY <1>8, <1>9, JoinIs, Zenon
<1>11. pnst \in Seq(Byte) /\ Len(pnst) = ((3 + 4) + (1 + a)) + 1
  BY <1>6, <1>10, JoinIs, SMT
<1>12. pnstd \in Seq(Byte) /\ Len(pnstd) = (((3 + 4) + (1 + a)) + 1) + (1 + b)
  BY <1>8, <1>11, JoinIs, Zenon
<1> HIDE DEF pn, pns, pnst, pnstd, all
<1>13. 1 \in Nat
  OBVIOUS
<1>14. Carries(bytes, 1, all)
  BY <1>1
<1>15. Carries(bytes, 1, pnstd) /\ Carries(bytes, 1 + Len(pnstd), <<0>>)
  BY <1>6, <1>12, <1>13, <1>14, CarriesParts, Zenon DEF all
<1>16. Carries(bytes, 1, pnst) /\ Carries(bytes, 1 + Len(pnst), d)
  BY <1>8, <1>11, <1>13, <1>15, CarriesParts, Zenon DEF pnstd
<1>17. Carries(bytes, 1, pns) /\ Carries(bytes, 1 + Len(pns), <<m.to>>)
  BY <1>6, <1>10, <1>13, <1>16, CarriesParts, Zenon DEF pnst
<1>18. Carries(bytes, 1, pn) /\ Carries(bytes, 1 + Len(pn), s)
  BY <1>8, <1>9, <1>13, <1>17, CarriesParts, Zenon DEF pns
<1>19. Carries(bytes, 1, p) /\ Carries(bytes, 1 + Len(p), n)
  BY <1>5, <1>6, <1>13, <1>18, CarriesParts, Zenon DEF pn
<1>20. /\ 1 + Len(p) = 4 /\ 1 + Len(pn) = 8 /\ 1 + Len(pns) = 9 + a
       /\ 1 + Len(pnst) = 10 + a /\ 1 + Len(pnstd) = 11 + a + b
  BY SMT, <1>2, <1>6, <1>9, <1>10, <1>11, <1>12
<1>21. bytes[1] = m.protocol
  <2>1. bytes[1 + 1 - 1] = p[1]
    BY SMT, <1>6, <1>19 DEF Carries
  <2>2. 1 + 1 - 1 = 1
    BY SMT
  <2> QED
    BY <1>6, <2>1, <2>2, Zenon
<1>22. Number(bytes, 4, 4) = GetPackSize(m)
  <2>1. 4 \in Nat \ {0} /\ Carries(bytes, 4, n)
    BY <1>19, <1>20, SMT
  <2> QED
    BY <2>1, SizeIs, NumberIsCarried, Zenon DEF n
<1>23. bytes[8] = a /\ Carries(bytes, 9, m.source)
  <2>1. 8 \in Nat /\ Carries(bytes, 8, <<a>> \o m.source)
    BY <1>18, <1>20, Zenon DEF s
  <2>2. bytes[8] = a /\ Carries(bytes, 8 + 1, m.source)
    BY SMT, <1>1, <1>7, <2>1, CarriesChunk
  <2>3. 8 + 1 = 9
    BY SMT
  <2> QED
    BY <2>2, <2>3, Zenon
<1>24. bytes[9 + a] = m.to
  <2>1. 9 + a \in Nat
    BY SMT, <1>2
  <2> QED
    BY <1>4, <1>17, <1>20, <2>1, OneIs, Zenon
<1>25. bytes[10 + a] = b /\ Carries(bytes, 11 + a, m.destination)
  <2>1. 10 + a \in Nat /\ (10 + a) + 1 = 11 + a
    BY SMT, <1>2
  <2>2. Carries(bytes, 10 + a, <<b>> \o m.destination)
    BY <1>16, <1>20, Zenon DEF d
  <2>3. bytes[10 + a] = b /\ Carries(bytes, (10 + a) + 1, m.destination)
    BY SMT, <1>1, <1>7, <2>1, <2>2, CarriesChunk
  <2> QED
    BY <2>1, <2>3, Zenon
<1>26. 11 + a + b <= Len(bytes)
  <2>1. 11 + a + b \in Nat
    BY SMT, <1>2
  <2> QED
    BY <1>4, <1>15, <1>20, <2>1, OneIs, Zenon
<1> QED
  BY <1>21, <1>22, <1>23, <1>24, <1>25, <1>26, Zenon DEF a, b

(* ParseBuffer finds in a packed header what was packed there.             *)
LEMMA HeaderIsParsed ==
    ASSUME NEW bytes \in Seq(Byte), NEW m \in Message, HeaderIsValid(m),
           Carries(bytes, 1, PackHeader(m))
    PROVE  /\ ParseBuffer(bytes) = [ parsed |-> TRUE, source |-> m.source,
                                     destination |-> m.destination, next |-> 12 + SourceSize(m) + DestinationSize(m) ]
           /\ PeekSource(bytes)
<1> DEFINE a == SourceSize(m)
           b == DestinationSize(m)
<1>1. a \in Nat /\ b \in Nat /\ Len(m.source) = a /\ Len(m.destination) = b
  BY SizesAre, Zenon DEF SourceSize, DestinationSize
<1>2. a \in Nat /\ b \in Nat
  BY <1>1
<1>3. m.source \in Seq(Byte) /\ m.destination \in Seq(Byte)
  BY MessageIs, Zenon
<1>4. /\ bytes[1] = m.protocol /\ bytes[8] = a /\ Carries(bytes, 9, m.source)
      /\ bytes[9 + a] = m.to /\ bytes[10 + a] = b /\ Carries(bytes, 11 + a, m.destination)
      /\ 11 + a + b <= Len(bytes)
  BY HeaderIsCarried, Zenon
<1> HIDE DEF a, b
<1>5. a \in MinimumLength..MaximumLength /\ (b = 0 \/ b \in MinimumLength..MaximumLength)
      /\ MinimumLength \in Nat \ {0} /\ MaximumLength \in Nat
  <2>1. a \in MinimumLength..MaximumLength /\ b \in {0} \cup MinimumLength..MaximumLength
    BY <1>1, MessageIs, Zenon DEF HeaderIsValid
  <2> QED
    BY SMT, <2>1, LengthAssumption
<1>6. 11 + a + b <= Len(bytes)
  BY <1>4, Zenon
<1>7. PICK size \in Nat : size = Len(bytes)
  BY SMT
<1>8. Identifier(bytes, 8) = m.source
  <2>1. 8 <= Len(bytes) /\ 8 + a <= Len(bytes) /\ 8 + 1 = 9 /\ 9 + a - 1 = 8 + a
    BY SMT, <1>2, <1>6, <1>7
  <2>2. SubSeq(bytes, 9, 9 + a - 1) = m.source
    <3>1. 9 \in Nat \ {0}
      BY SMT
    <3> QED
      BY <1>1, <1>3, <1>4, <3>1, CarriedField, Zenon
  <2> QED
    BY <1>4, <1>5, <2>1, <2>2, Zenon DEF Identifier
<1>9. Identifier(bytes, 10 + a) = m.destination
  <2>1. /\ 10 + a <= Len(bytes) /\ (10 + a) + b <= Len(bytes) /\ (10 + a) + 1 = 11 + a
        /\ (11 + a) + b - 1 = (10 + a) + b /\ 11 + a \in Nat \ {0}
    BY SMT, <1>2, <1>6, <1>7
  <2>2. SubSeq(bytes, 11 + a, (11 + a) + b - 1) = m.destination
    BY <1>1, <1>3, <1>4, <2>1, CarriedField, Zenon
  <2>3. CASE b \in MinimumLength..MaximumLength
    BY <1>4, <2>1, <2>2, <2>3, Zenon DEF Identifier
  <2>4. CASE b = 0
    <3>1. b \notin MinimumLength..MaximumLength
      BY SMT, <1>5, <2>4
    <3>2. m.destination = << >>
      <4>1. \A f \in Seq(Byte) : Len(f) = 0 => f = << >>
        BY SMT
      <4> QED
        BY <1>1, <1>3, <2>4, <4>1, Zenon
    <3> QED
      BY <1>4, <3>1, <3>2, Zenon DEF Identifier
  <2> QED
    BY <1>5, <2>3, <2>4
<1>10. m.source # << >>
  <2>1. a # 0
    BY SMT, <1>2, <1>5
  <2>2. Len(<< >>) = 0
    BY SMT
  <2> QED
    BY <1>1, <2>1, <2>2, Zenon
<1>11. PeekSource(bytes)
  <2>1. Len(bytes) >= 8 /\ Len(bytes) >= 8 + a
    BY SMT, <1>2, <1>6, <1>7
  <2> QED
    BY <1>4, <1>5, <2>1, Zenon DEF PeekSource
<1>12. /\ (12 + a + b) - 1 <= Len(bytes) /\ Len(bytes) >= 11 /\ 9 + a <= Len(bytes)
  BY SMT, <1>2, <1>6, <1>7
<1>13. m.protocol \in {Network, Application} /\ m.to \in Destinations
  BY MessageIs, Zenon
<1> DEFINE c == /\ Len(bytes) >= 11
                /\ bytes[1] \in {Network, Application}
                /\ m.source # << >>
                /\ 9 + a <= Len(bytes)
                /\ bytes[9 + a] \in Destinations
                /\ (12 + a + b) - 1 <= Len(bytes)
<1>14. ParseBuffer(bytes) = [ parsed |-> c, source |-> m.source,
                              destination |-> m.destination, next |-> 12 + a + b ]
  <2> DEFINE First == Identifier(bytes, 8)
             Second(f) == Identifier(bytes, 10 + Len(f))
             Parsed(f, g) ==
               [ parsed |-> /\ Len(bytes) >= 11
                            /\ bytes[1] \in {Network, Application}
                            /\ f # << >>
                            /\ 9 + Len(f) <= Len(bytes)
                            /\ bytes[9 + Len(f)] \in Destinations
                            /\ (12 + Len(f) + Len(g)) - 1 <= Len(bytes),
                 source |-> f, destination |-> g, next |-> 12 + Len(f) + Len(g) ]
  <2>1. ParseBuffer(bytes) = Parsed(First, Second(First))
    BY Zenon DEF ParseBuffer
  <2>2. First = m.source /\ Second(m.source) = m.destination
    BY <1>1, <1>8, <1>9, Zenon
  <2>3. Parsed(m.source, m.destination) = [ parsed |-> c, source |-> m.source,
                              destination |-> m.destination, next |-> 12 + a + b ]
    BY <1>1, SMT
  <2> HIDE DEF First, Second, Parsed
  <2> QED
    BY <2>1, <2>2, <2>3, Zenon
<1>15. c = TRUE
  <2>1. bytes[1] \in {Network, Application} /\ bytes[9 + a] \in Destinations
    BY <1>4, <1>13, Zenon
  <2> QED
    BY <1>10, <1>12, <2>1, Zenon
<1> HIDE DEF c
<1> QED
  BY <1>11, <1>14, <1>15, Zenon DEF a, b

(* Where the fields after the header begin.                                *)
HeaderEnd(m) == 12 + SourceSize(m) + DestinationSize(m)

(* A packed header ends where HeaderEnd says.                              *)
LEMMA HeaderEndIs ==
    ASSUME NEW m \in Message, HeaderIsValid(m)
    PROVE  /\ HeaderEnd(m) \in Nat \ {0} /\ HeaderEnd(m) >= 12
           /\ PackHeader(m) \in Seq(Byte) /\ 1 + Len(PackHeader(m)) = HeaderEnd(m)
<1> DEFINE a == SourceSize(m)
           b == DestinationSize(m)
<1>1. a \in Nat /\ b \in Nat
  BY SizesAre, Zenon
<1>2. PackHeader(m) \in Seq(Byte) /\ Len(PackHeader(m)) = 11 + a + b
  BY HeaderIs, Zenon DEF SourceSize, DestinationSize
<1>3. HeaderEnd(m) = 12 + a + b
  BY DEF HeaderEnd
<1> HIDE DEF a, b
<1>4. 12 + a + b \in Nat \ {0} /\ 12 + a + b >= 12 /\ 1 + (11 + a + b) = 12 + a + b
  BY SMT, <1>1
<1> QED
  BY <1>2, <1>3, <1>4, Zenon

(* The size of a payload fits 32 bits, as that of the pack around it does. *)
LEMMA PayloadSizeIs ==
    ASSUME NEW m \in Message
    PROVE  PayloadSize(m) \div 256^3 < 256
<1> DEFINE h == HeaderPackSize(m)
           f == FixedPackSize(m)
           e == ExtensionSize(m)
           s == SignedSize(m)
           n == h + f + PayloadSize(m) + e + s
<1>1. h \in Nat
  <2>1. PICK a \in Nat : a = SourceSize(m)
    BY SizesAre, Zenon
  <2>2. PICK b \in Nat : b = DestinationSize(m)
    BY SizesAre, Zenon
  <2>3. h = 11 + a + b
    BY <2>1, <2>2, Zenon DEF HeaderPackSize, SourceSize, DestinationSize
  <2> QED
    BY SMT, <2>3
<1>2. f \in Nat
  BY SMT DEF FixedPackSize, ApplicationFixedPackSize, NetworkFixedPackSize
<1>3. e \in Nat
  BY SMT DEF ExtensionSize, FixedAwaitExtensionSize
<1>4. s \in Nat
  BY SMT, LengthAssumption DEF SignedSize
<1>5. PayloadSize(m) \in Nat
  BY SizesAre, Zenon
<1>6. GetPackSize(m) = EncodedSize(n)
  BY Zenon DEF GetPackSize, PayloadSize
<1> HIDE DEF h, f, e, s
<1>7. n \in Nat /\ PayloadSize(m) <= n
  BY SMT, <1>1, <1>2, <1>3, <1>4, <1>5
<1> HIDE DEF n
<1>8. n <= EncodedSize(n)
  <2>1. PICK p \in Nat : p = PaddingBytes(n)
    BY SMT, <1>7, PaddingIs
  <2>2. EncodedSize(n) = ((n + p) * 5) \div 4
    BY <1>7, <2>1, PaddingIs, Zenon
  <2>3. PICK t \in Nat : t = (n + p) * 5
    BY SMT, <1>7
  <2>4. PICK u \in Nat : u = t \div 4
    BY SMT
  <2>5. t < 4 * u + 4
    BY SMT, <2>4
  <2>6. n <= u
    BY SMT, <1>7, <2>3, <2>5
  <2> QED
    BY SMT, <2>2, <2>3, <2>4, <2>6
<1>9. GetPackSize(m) \in Nat /\ GetPackSize(m) \div 256^3 < 256
  BY SizeIs, Zenon
<1>10. PayloadSize(m) <= GetPackSize(m)
  BY SMT, <1>5, <1>6, <1>7, <1>8, <1>9
<1>11. PICK x \in Nat : x = PayloadSize(m)
  BY <1>5, Zenon
<1>12. PICK y \in Nat : y = GetPackSize(m)
  BY <1>9, Zenon
<1>13. 256^3 = 16777216
  BY SMT
<1>14. x \div 16777216 <= y \div 16777216 /\ y \div 16777216 < 256
  BY SMT, <1>9, <1>10, <1>11, <1>12, <1>13
<1> QED
  BY SMT, <1>11, <1>13, <1>14

(* PayloadAt reads the payload that was packed at its place.               *)
LEMMA PayloadIsCarried ==
    ASSUME NEW m \in Message, NEW bytes \in Seq(Byte), NEW at \in Nat \ {0},
           Carries(bytes, at, PackChunk(m.payload, 4))
    PROVE  /\ PayloadAt(bytes, at) = m.payload
           /\ PackChunk(m.payload, 4) \in Seq(Byte)
           /\ Len(PackChunk(m.payload, 4)) = 4 + PayloadSize(m)
<1> DEFINE n == PayloadSize(m)
           f == BigEndian(n, 4)
<1>1. n \in Nat /\ n \div 256^3 < 256 /\ m.payload \in Seq(Byte) /\ Len(m.payload) = n
  BY SizesAre, PayloadSizeIs, MessageIs, Zenon DEF PayloadSize
<1>2. PackChunk(m.payload, 4) = f \o m.payload
  BY <1>1, Zenon DEF PackChunk
<1> HIDE DEF n
<1>3. f \in Seq(Byte) /\ Len(f) = 4
  BY <1>1, FourIs, Zenon
<1>4. at \in Nat /\ at + 4 \in Nat \ {0}
  BY SMT
<1>5. Carries(bytes, at, f) /\ Carries(bytes, at + 4, m.payload)
  <2>1. Carries(bytes, at, f \o m.payload)
    BY <1>2
  <2> HIDE DEF f
  <2>2. Carries(bytes, at, f) /\ Carries(bytes, at + Len(f), m.payload)
    BY <1>4, <1>1, <1>3, <2>1, CarriesParts, Zenon
  <2> QED
    BY <1>3, <2>2, Zenon
<1>6. Number(bytes, at, 4) = n /\ at + 3 <= Len(bytes)
  BY <1>1, <1>5, NumberIsCarried, Zenon
<1>7. SubSeq(bytes, at + 4, (at + 4) + n - 1) = m.payload
  BY <1>4, <1>1, <1>5, CarriedField, Zenon
<1>8. n \in Nat
  BY <1>1
<1>9. (at + 4) + n - 1 = at + 3 + n
  BY SMT, <1>8
<1>10. at + 3 + n <= Len(bytes)
  <2>1. (at + 4) + n <= Len(bytes) + 1
    BY <1>1, <1>5, Zenon DEF Carries
  <2> QED
    BY SMT, <1>8, <2>1
<1>11. Len(PackChunk(m.payload, 4)) = 4 + n /\ PackChunk(m.payload, 4) \in Seq(Byte)
  BY <1>1, <1>2, <1>3, JoinIs, Zenon
<1> QED
  BY <1>6, <1>7, <1>9, <1>10, <1>11, Zenon DEF PayloadAt, n

-------------------------------------------------------------------------------
(*****************************************************************************)
(* The extensions.  They are read by a recursive function, whose existence *)
(* is shown by induction over the bytes that are left.                     *)
(*****************************************************************************)

(* A set of naturals that is not empty has a least element.                *)
LEMMA Least ==
    ASSUME NEW T \in SUBSET Nat, T # {}
    PROVE  \E x \in T : \A y \in T : x <= y
<1> DEFINE R == OpToRel(<, Nat)
<1>1. IsWellFoundedOn(R, Nat)
  BY NatLessThanWellFounded
<1>2. \A x \in Nat, y \in Nat : x < y => <<x, y>> \in R
  BY DEF OpToRel
<1> HIDE DEF R
<1>3. \E x \in T : \A y \in T : ~(<<y, x>> \in R)
  BY <1>1, WFMin, Zenon
<1>4. \A x \in Nat, y \in Nat : ~(y < x) => x <= y
  BY SMT
<1>5. \A x \in T : x \in Nat
  OBVIOUS
<1> QED
  BY <1>2, <1>3, <1>4, <1>5, Zenon

(* Induction over the naturals, said of a set: what holds of 0 and of the  *)
(* successor of every number it holds of is all of Nat.                    *)
LEMMA NaturalInduction ==
    ASSUME NEW S \in SUBSET Nat, 0 \in S, \A n \in S : n + 1 \in S
    PROVE  S = Nat
<1> SUFFICES ASSUME Nat \ S # {} PROVE FALSE
  OBVIOUS
<1>1. Nat \ S \in SUBSET Nat
  OBVIOUS
<1>2. PICK x \in Nat \ S : \A y \in Nat \ S : x <= y
  BY <1>1, Least, Zenon
<1>3. x # 0 /\ x - 1 \in Nat /\ ~(x <= x - 1) /\ (x - 1) + 1 = x
  BY SMT
<1> QED
  BY <1>2, <1>3, Zenon

(* AfterTracker goes forward, and past an extension that was read whole by *)
(* eight bytes.                                                            *)
LEMMA AfterTrackerIs ==
    ASSUME NEW bytes \in Seq(Byte), NEW at \in Nat
    PROVE  AfterTracker(bytes, at) \in {at + 1, at + 3, at + 4, at + 8}
BY SMT DEF AfterTracker

(* The body of the function by which UnpackExtensions is defined.          *)
FoundAt(bytes, g, k) ==
    IF k > Len(bytes) \/ bytes[k] # AwaitTracker THEN << >>
    ELSE IF g[AfterTracker(bytes, k)] = << >> THEN TrackerAt(bytes, k)
         ELSE g[AfterTracker(bytes, k)]

(* Behind the end of the bytes no extension is found.                      *)
LEMMA Beyond ==
    ASSUME NEW k \in Nat, NEW n \in Nat, NEW size \in Nat, k + (n + 1) > size, k + n # size
    PROVE  k + n > size
BY SMT

(* The recursive function of UnpackExtensions exists: it looks only        *)
(* further on, and the bytes end.                                          *)
LEMMA FoundExists ==
    ASSUME NEW bytes \in Seq(Byte)
    PROVE  \E g : g = [k \in Nat |-> FoundAt(bytes, g, k)]
<1>1. PICK size \in Nat : size = Len(bytes)
  BY SMT
<1> DEFINE Q(n) == \E g : /\ g = [k \in Nat |-> g[k]]
                          /\ \A k \in Nat : k + n > size => g[k] = FoundAt(bytes, g, k)
           S == {n \in Nat : Q(n)}
<1>2. 0 \in S
  <2> DEFINE g == [k \in Nat |-> << >>]
  <2>1. g = [k \in Nat |-> g[k]]
    BY Zenon
  <2>2. ASSUME NEW k \in Nat, k + 0 > size PROVE g[k] = FoundAt(bytes, g, k)
    <3>1. k > Len(bytes)
      BY SMT, <1>1, <2>2
    <3> QED
      BY <3>1, Zenon DEF FoundAt
  <2> HIDE DEF g
  <2>3. Q(0)
    BY <2>1, <2>2, Zenon
  <2> QED
    BY <2>3
<1>3. ASSUME NEW n \in S PROVE n + 1 \in S
  <2>1. n \in Nat /\ Q(n)
    BY <1>3
  <2>2. PICK g : /\ g = [k \in Nat |-> g[k]]
                 /\ \A k \in Nat : k + n > size => g[k] = FoundAt(bytes, g, k)
    BY <2>1
  <2> DEFINE h == [k \in Nat |-> IF k + n = size THEN FoundAt(bytes, g, k) ELSE g[k]]
  <2>3. h = [k \in Nat |-> h[k]]
    BY Zenon
  <2>4. ASSUME NEW k \in Nat, k + (n + 1) > size PROVE h[k] = FoundAt(bytes, h, k)
    <3> DEFINE a == AfterTracker(bytes, k)
    <3>1. h[k] = FoundAt(bytes, g, k)
      <4>1. CASE k + n = size
        BY <4>1, Zenon
      <4>2. CASE k + n # size
        <5>1. k + n > size
          <6>1. n \in Nat /\ size \in Nat /\ k + (n + 1) > size
            BY <2>1, <2>4
          <6> QED
            BY <4>2, <6>1, Beyond, Zenon
        <5> QED
          BY <2>2, <4>2, <5>1, Zenon
      <4> QED
        BY <4>1, <4>2
    <3>2. a \in {k + 1, k + 3, k + 4, k + 8}
      BY AfterTrackerIs, Zenon
    <3> HIDE DEF a
    <3>3. a \in Nat /\ a + n # size
      BY SMT, <2>1, <2>4, <3>2
    <3>4. h[a] = g[a]
      BY <3>3, Zenon
    <3> HIDE DEF h
    <3>5. FoundAt(bytes, g, k) = FoundAt(bytes, h, k)
      BY <3>4, Zenon DEF FoundAt, a
    <3> QED
      BY <3>1, <3>5
  <2> HIDE DEF h
  <2>5. Q(n + 1)
    BY <2>3, <2>4, Zenon
  <2>6. n + 1 \in Nat
    BY SMT, <2>1
  <2> QED
    BY <2>5, <2>6
<1> HIDE DEF Q
<1>4. S \in SUBSET Nat
  BY Zenon
<1> HIDE DEF S
<1>5. S = Nat
  BY <1>2, <1>3, <1>4, NaturalInduction, Zenon
<1>6. Q(size + 1)
  <2>1. size + 1 \in Nat
    BY SMT
  <2> QED
    BY <1>5, <2>1, Zenon DEF S
<1>7. PICK g : /\ g = [k \in Nat |-> g[k]]
               /\ \A k \in Nat : k + (size + 1) > size => g[k] = FoundAt(bytes, g, k)
  BY <1>6 DEF Q
<1>8. \A k \in Nat : g[k] = FoundAt(bytes, g, k)
  <2>1. \A k \in Nat : k + (size + 1) > size
    BY SMT
  <2> QED
    BY <1>7, <2>1, Zenon
<1>9. g = [k \in Nat |-> FoundAt(bytes, g, k)]
  <2>1. [k \in Nat |-> g[k]] = [k \in Nat |-> FoundAt(bytes, g, k)]
    BY <1>8, Zenon
  <2> QED
    BY <1>7, <2>1, Zenon
<1> QED
  BY <1>9, Zenon

(* What UnpackExtensions finds is what its function says at every place.   *)
LEMMA FoundIs ==
    ASSUME NEW bytes \in Seq(Byte), NEW at \in Nat
    PROVE  \E g : /\ \A k \in Nat : g[k] = FoundAt(bytes, g, k)
                  /\ UnpackExtensions(bytes, at) = IF g[at] = << >> THEN NoTracker ELSE g[at]
<1> DEFINE G(f) == [k \in Nat |-> FoundAt(bytes, f, k)]
           g == CHOOSE f : f = G(f)
<1>1. g = G(g)
  <2>1. \E f : f = G(f)
    BY FoundExists, Zenon
  <2> HIDE DEF G
  <2> QED
    BY <2>1, Zenon
<1>2. UnpackExtensions(bytes, at) = IF g[at] = << >> THEN NoTracker ELSE g[at]
  BY Zenon DEF UnpackExtensions, FoundAt
<1> HIDE DEF g
<1>3. \A k \in Nat : g[k] = FoundAt(bytes, g, k)
  BY <1>1, Zenon
<1> QED
  BY <1>2, <1>3, Zenon

(* The extensions that are packed: their count, and the tracker's field if *)
(* one is bound.                                                           *)
LEMMA ExtensionsAre ==
    ASSUME NEW m \in Message, m.protocol = Application
    PROVE  /\ PackExtensions(m) \in Seq(Byte) /\ PackExtensions(m) # << >>
           /\ m.tracker = NoTracker => PackExtensions(m) = <<0>>
           /\ m.tracker # NoTracker =>
                 /\ PackExtensions(m) = <<1, AwaitTracker>> \o <<0, 8>> \o m.tracker
                 /\ m.tracker \in Seq(Byte) /\ Len(m.tracker) = 5 /\ m.tracker[1] \in Bindings
                 /\ Len(PackExtensions(m)) = 9
           /\ Len(PackExtensions(m)) = 1 + ExtensionSize(m)
<1>1. CASE m.tracker = NoTracker
  <2>1. PackExtensions(m) = <<0>> /\ ExtensionSize(m) = 0
    BY <1>1, Zenon DEF PackExtensions, ExtensionSize
  <2>2. <<0>> \in Seq(Byte) /\ Len(<<0>>) = 1 + 0 /\ <<0>> # << >>
    BY SMT DEF Byte
  <2> QED
    BY <1>1, <2>1, <2>2, Zenon
<1>2. CASE m.tracker # NoTracker
  <2>1. m.tracker \in Seq(Byte) /\ Len(m.tracker) = 5 /\ m.tracker[1] \in Bindings
    BY <1>2, MessageIs, MessageAssumption, Zenon
  <2>2. PackExtensions(m) = <<1, AwaitTracker>> \o <<0, 8>> \o m.tracker
    BY <1>2, BigEndianOfEight, Zenon DEF PackExtensions, FixedAwaitExtensionSize
  <2>3. PICK t \in Seq(Byte) : t = m.tracker
    BY <2>1
  <2>4. <<1, AwaitTracker>> \in Seq(Byte) /\ <<0, 8>> \in Seq(Byte) /\ Len(<<1, AwaitTracker>>) = 2
        /\ Len(<<0, 8>>) = 2
    BY SMT DEF AwaitTracker, Byte
  <2>5. /\ <<1, AwaitTracker>> \o <<0, 8>> \in Seq(Byte)
        /\ Len(<<1, AwaitTracker>> \o <<0, 8>>) = 2 + 2
    BY <2>4, JoinIs, SMT
  <2>6. /\ <<1, AwaitTracker>> \o <<0, 8>> \o t \in Seq(Byte)
        /\ Len(<<1, AwaitTracker>> \o <<0, 8>> \o t) = (2 + 2) + 5
    <3> DEFINE p == <<1, AwaitTracker>> \o <<0, 8>>
    <3>1. p \in Seq(Byte) /\ Len(p) = 2 + 2
      BY <2>5
    <3> HIDE DEF p
    <3>2. p \o t \in Seq(Byte) /\ Len(p \o t) = (2 + 2) + 5
      BY <2>1, <2>3, <3>1, JoinIs, Zenon
    <3> QED
      BY <3>2, Zenon DEF p
  <2>7. ExtensionSize(m) = 8 /\ (2 + 2) + 5 = 1 + 8 /\ (2 + 2) + 5 = 9
    BY <1>2, SMT DEF ExtensionSize, FixedAwaitExtensionSize
  <2>8. Len(<< >>) = 0 /\ 0 # 9
    BY SMT
  <2> QED
    BY <1>2, <2>1, <2>2, <2>3, <2>6, <2>7, <2>8, Zenon
<1> QED
  BY <1>1, <1>2

(* A packed tracker is unpacked again, unless what follows it begins like  *)
(* another extension.                                                      *)
LEMMA TrackerIsUnpacked ==
    ASSUME NEW bytes \in Seq(Byte), NEW e \in Nat \ {0}, NEW tracker \in Seq(Byte),
           Len(tracker) = 5, tracker[1] \in Bindings,
           Carries(bytes, e, <<1, AwaitTracker>> \o <<0, 8>> \o tracker)
    PROVE  /\ bytes[e] = 1
           /\ e + 9 > Len(bytes) \/ bytes[e + 9] # AwaitTracker =>
                 UnpackExtensions(bytes, e + 1) = tracker
<1>1. PICK size \in Nat : size = Len(bytes)
  BY SMT
<1> DEFINE p == <<1, AwaitTracker>>
           n == <<0, 8>>
<1>2. /\ p \in Seq(Byte) /\ Len(p) = 2 /\ p[1] = 1 /\ p[2] = AwaitTracker
      /\ n \in Seq(Byte) /\ Len(n) = 2 /\ n[1] = 0 /\ n[2] = 8
  BY SMT DEF AwaitTracker, Byte
<1> HIDE DEF p, n
<1>3. e \in Nat /\ 2 + 2 = 4
  BY SMT
<1>4. p \o n \in Seq(Byte) /\ Len(p \o n) = 4
  BY <1>2, <1>3, JoinIs, Zenon
<1>5. Carries(bytes, e, (p \o n) \o tracker)
  BY DEF p, n
<1>6. Carries(bytes, e, p \o n) /\ Carries(bytes, e + 4, tracker)
  BY <1>3, <1>4, <1>5, CarriesParts, Zenon
<1>7. Carries(bytes, e, p) /\ Carries(bytes, e + 2, n)
  BY <1>2, <1>3, <1>6, CarriesParts, Zenon
<1>8. bytes[e] = 1 /\ bytes[e + 1] = AwaitTracker
  <2>1. bytes[e + 1 - 1] = p[1] /\ bytes[e + 2 - 1] = p[2]
    <3>1. 1 \in 1..2 /\ 2 \in 1..2
      BY SMT
    <3> QED
      BY <1>2, <1>7, <3>1, Zenon DEF Carries
  <2>2. e + 1 - 1 = e /\ e + 2 - 1 = e + 1
    BY SMT
  <2> QED
    BY <1>2, <2>1, <2>2, Zenon
<1>9. bytes[e + 2] = 0 /\ bytes[e + 3] = 8
  <2>1. bytes[(e + 2) + 1 - 1] = n[1] /\ bytes[(e + 2) + 2 - 1] = n[2]
    <3>1. 1 \in 1..2 /\ 2 \in 1..2
      BY SMT
    <3> QED
      BY <1>2, <1>7, <3>1, Zenon DEF Carries
  <2>2. (e + 2) + 1 - 1 = e + 2 /\ (e + 2) + 2 - 1 = e + 3
    BY SMT
  <2> QED
    BY <1>2, <2>1, <2>2, Zenon
<1>10. bytes[e + 4] = tracker[1] /\ (e + 4) + 5 <= size + 1
  <2>1. bytes[(e + 4) + 1 - 1] = tracker[1]
    <3>1. 1 \in 1..5
      BY SMT
    <3> QED
      BY <1>6, <3>1, Zenon DEF Carries
  <2>2. (e + 4) + 1 - 1 = e + 4
    BY SMT
  <2>3. (e + 4) + 5 <= size + 1
    BY <1>1, <1>6, Zenon DEF Carries
  <2> QED
    BY <2>1, <2>2, <2>3, Zenon
<1>11. SubSeq(bytes, e + 4, e + 8) = tracker
  <2>1. e + 4 \in Nat \ {0} /\ (e + 4) + 5 - 1 = e + 8
    BY SMT
  <2>2. SubSeq(bytes, e + 4, (e + 4) + 5 - 1) = tracker
    BY <1>6, <2>1, CarriedField, Zenon
  <2> QED
    BY <2>1, <2>2, Zenon
<1> DEFINE at == e + 1
<1>12. /\ at \in Nat /\ at + 1 = e + 2 /\ at + 2 = e + 3 /\ at + 3 = e + 4 /\ at + 7 = e + 8 /\ at + 8 = e + 9
       /\ (at + 1) + 1 = e + 3 /\ at + 1 \in Nat
       /\ at + 7 <= size /\ ~(at > size) /\ ~(at + 2 > size)
       /\ at + 2 <= size /\ at + 2 # size /\ ~(at + 7 > size)
  BY SMT, <1>10
<1> HIDE DEF at
<1>13. Number(bytes, at + 1, 2) = 8
  <2>1. 0 \in Byte /\ 8 \in Byte /\ 0 * 256 + 8 = 8
    BY SMT DEF Byte
  <2>2. bytes[at + 1] = 0 /\ bytes[(at + 1) + 1] = 8 /\ at + 1 \in Nat
    BY <1>9, <1>12, Zenon
  <2>3. Number(bytes, at + 1, 2) = 0 * 256 + 8
    BY <2>1, <2>2, NumberOfTwo, SMT
  <2> QED
    BY <2>1, <2>3, Zenon
<1>14. TrackerAt(bytes, at) = tracker
  <2>1. 8 >= FixedAwaitExtensionSize
    BY SMT DEF FixedAwaitExtensionSize
  <2> QED
    BY <1>1, <1>10, <1>11, <1>12, <1>13, <2>1, Zenon DEF TrackerAt
<1>15. AfterTracker(bytes, at) = e + 9
  <2>1. ~(8 < FixedAwaitExtensionSize)
    BY SMT DEF FixedAwaitExtensionSize
  <2> QED
    BY <1>1, <1>12, <1>13, <2>1, Zenon DEF AfterTracker
<1>16. ASSUME e + 9 > Len(bytes) \/ bytes[e + 9] # AwaitTracker
       PROVE  UnpackExtensions(bytes, at) = tracker
  <2>1. PICK g : /\ \A k \in Nat : g[k] = FoundAt(bytes, g, k)
                 /\ UnpackExtensions(bytes, at) = IF g[at] = << >> THEN NoTracker ELSE g[at]
    BY <1>12, FoundIs, Zenon
  <2>2. e + 9 \in Nat
    BY SMT
  <2>3. g[e + 9] = << >>
    BY <1>16, <2>1, <2>2, Zenon DEF FoundAt
  <2>4. g[at] = tracker
    BY <1>1, <1>8, <1>12, <1>14, <1>15, <2>1, <2>3, Zenon DEF FoundAt, at
  <2>5. tracker # << >>
    <3>1. Len(<< >>) # 5
      BY SMT
    <3> QED
      BY <3>1, Zenon
  <2> QED
    BY <2>1, <2>4, <2>5, Zenon
<1> QED
  BY <1>8, <1>16, Zenon DEF at

-------------------------------------------------------------------------------
(*****************************************************************************)
(* The messages of the two protocols, and their packs.                     *)
(*****************************************************************************)

(* Where the timestamp of an application message begins.                   *)
AfterPayload(m) == (HeaderEnd(m) + 2) + 4 + PayloadSize(m)

(* PackApplication carries every field of its message where                *)
(* UnpackApplication reads it.                                             *)
LEMMA ApplicationIs ==
    ASSUME NEW m \in Message, m.protocol = Application, HeaderIsValid(m)
    PROVE  /\ PackFields(m) \in Seq(Byte)
           /\ AfterPayload(m) \in Nat
           /\ Len(PackFields(m)) + 1 = (AfterPayload(m) + 8) + Len(PackExtensions(m))
           /\ \A bytes \in Seq(Byte) :
                 Carries(bytes, 1, PackFields(m)) =>
                    /\ Carries(bytes, 1, PackHeader(m))
                    /\ Carries(bytes, HeaderEnd(m), <<m.kind, m.phase>>)
                    /\ Carries(bytes, HeaderEnd(m) + 2, PackChunk(m.payload, 4))
                    /\ Carries(bytes, AfterPayload(m), m.timestamp)
                    /\ Carries(bytes, AfterPayload(m) + 8, PackExtensions(m))
<1> DEFINE H == PackHeader(m)
           k == <<m.kind, m.phase>>
           c == PackChunk(m.payload, 4)
           t == m.timestamp
           x == PackExtensions(m)
           n == PayloadSize(m)
           h == HeaderEnd(m)
           Hk == H \o k
           Hkc == Hk \o c
           Hkct == Hkc \o t
           all == Hkct \o x
<1>1. PackFields(m) = all
  BY Zenon DEF PackFields, PackApplication
<1>2. H \in Seq(Byte) /\ 1 + Len(H) = h /\ h \in Nat
  BY HeaderEndIs, Zenon
<1>3. k \in Seq(Byte) /\ Len(k) = 2
  BY SMT, MessageIs
<1>4. c \in Seq(Byte) /\ Len(c) = 4 + n /\ n \in Nat
  <2>1. /\ m.payload \in Seq(Byte) /\ Len(m.payload) = n /\ n \in Nat /\ n \div 256^3 < 256
    BY SizesAre, MessageIs, PayloadSizeIs, Zenon DEF PayloadSize
  <2> DEFINE f == BigEndian(n, 4)
  <2>2. f \in Seq(Byte) /\ Len(f) = 4
    BY <2>1, FourIs, Zenon
  <2>3. c = f \o m.payload
    BY <2>1, Zenon DEF PackChunk
  <2> HIDE DEF f, n, c
  <2> QED
    BY <2>1, <2>2, <2>3, JoinIs, Zenon
<1>5. t \in Seq(Byte) /\ Len(t) = 8
  BY MessageIs, MessageAssumption, Zenon
<1>6. x \in Seq(Byte)
  BY ExtensionsAre, Zenon
<1>7. PICK l \in Nat : l = Len(x)
  BY SMT, <1>6
<1>8. AfterPayload(m) = (h + 2) + 4 + n
  BY DEF AfterPayload
<1> HIDE DEF H, k, c, t, x, n, h
<1>9. Hk \in Seq(Byte) /\ Len(Hk) = Len(H) + 2
  BY <1>2, <1>3, JoinIs, Zenon
<1>10. Hkc \in Seq(Byte) /\ Len(Hkc) = Len(Hk) + (4 + n)
  <2> HIDE DEF Hk
  <2> QED
    BY <1>9, <1>4, JoinIs, Zenon
<1>11. Hkct \in Seq(Byte) /\ Len(Hkct) = Len(Hkc) + 8
  <2> HIDE DEF Hkc
  <2> QED
    BY <1>10, <1>5, JoinIs, Zenon
<1>12. all \in Seq(Byte) /\ Len(all) = Len(Hkct) + l
  <2> HIDE DEF Hkct
  <2> QED
    BY <1>11, <1>6, <1>7, JoinIs, Zenon
<1> HIDE DEF Hk, Hkc, Hkct, all
<1>13. PICK d \in Nat : d = Len(H)
  BY SMT, <1>2
<1>14. h = 1 + d /\ Len(Hk) = d + 2 /\ Len(Hkc) = (d + 2) + (4 + n) /\ Len(Hkct) = ((d + 2) + (4 + n)) + 8
       /\ Len(all) = (((d + 2) + (4 + n)) + 8) + l
  BY <1>2, <1>9, <1>10, <1>11, <1>12, <1>13, Zenon
<1>15. n \in Nat
  BY <1>4
<1>16. /\ AfterPayload(m) = 1 + ((d + 2) + (4 + n)) /\ AfterPayload(m) + 8 = 1 + (((d + 2) + (4 + n)) + 8)
       /\ h + 2 = 1 + (d + 2) /\ AfterPayload(m) \in Nat
       /\ ((((d + 2) + (4 + n)) + 8) + l) + 1 = (AfterPayload(m) + 8) + l
  <2>1. AfterPayload(m) = ((1 + d) + 2) + 4 + n
    BY <1>8, <1>14
  <2> QED
    BY SMT, <1>14, <1>15, <2>1
<1>17. ASSUME NEW bytes \in Seq(Byte), Carries(bytes, 1, all)
       PROVE  /\ Carries(bytes, 1, H) /\ Carries(bytes, h, k) /\ Carries(bytes, h + 2, c)
              /\ Carries(bytes, AfterPayload(m), t) /\ Carries(bytes, AfterPayload(m) + 8, x)
  <2>1. 1 \in Nat
    OBVIOUS
  <2>2. Carries(bytes, 1, Hkct) /\ Carries(bytes, 1 + Len(Hkct), x)
    BY <1>6, <1>11, <1>17, <2>1, CarriesParts, Zenon DEF all
  <2>3. Carries(bytes, 1, Hkc) /\ Carries(bytes, 1 + Len(Hkc), t)
    BY <1>5, <1>10, <2>1, <2>2, CarriesParts, Zenon DEF Hkct
  <2>4. Carries(bytes, 1, Hk) /\ Carries(bytes, 1 + Len(Hk), c)
    BY <1>4, <1>9, <2>1, <2>3, CarriesParts, Zenon DEF Hkc
  <2>5. Carries(bytes, 1, H) /\ Carries(bytes, 1 + Len(H), k)
    BY <1>2, <1>3, <2>1, <2>4, CarriesParts, Zenon DEF Hk
  <2> QED
    BY <1>2, <1>14, <1>16, <2>2, <2>3, <2>4, <2>5, Zenon
<1>18. Len(PackFields(m)) + 1 = (AfterPayload(m) + 8) + Len(x)
  BY <1>1, <1>7, <1>14, <1>16, Zenon
<1>19. \A bytes \in Seq(Byte) : Carries(bytes, 1, PackFields(m)) =>
          /\ Carries(bytes, 1, H) /\ Carries(bytes, h, k) /\ Carries(bytes, h + 2, c)
          /\ Carries(bytes, AfterPayload(m), t) /\ Carries(bytes, AfterPayload(m) + 8, x)
  BY <1>1, <1>17, Zenon
<1>20. PackFields(m) \in Seq(Byte) /\ AfterPayload(m) \in Nat
  BY <1>1, <1>12, <1>16, Zenon
<1> QED
  BY <1>18, <1>19, <1>20, Zenon DEF H, k, c, t, x, h

(* UnpackApplication makes the packed message again, but for its tracker   *)
(* if the bytes after the extensions are taken for one.                    *)
LEMMA ApplicationIsUnpacked ==
    ASSUME NEW m \in Message, m.protocol = Application, HeaderIsValid(m),
           NEW bytes \in Seq(Byte), Carries(bytes, 1, PackFields(m))
    PROVE  /\ Unpack(bytes) = [m EXCEPT !.tracker = Unpack(bytes).tracker]
           /\ \/ m.tracker = NoTracker
              \/ Len(PackFields(m)) + 1 > Len(bytes)
              \/ bytes[Len(PackFields(m)) + 1] # AwaitTracker
              => Unpack(bytes).tracker = m.tracker
<1> DEFINE a == SourceSize(m)
           h == HeaderEnd(m)
           after == AfterPayload(m)
           tracker == IF after + 8 <= Len(bytes) /\ bytes[after + 8] # 0
                      THEN UnpackExtensions(bytes, after + 9) ELSE NoTracker
<1>1. /\ Carries(bytes, 1, PackHeader(m)) /\ Carries(bytes, h, <<m.kind, m.phase>>)
      /\ Carries(bytes, h + 2, PackChunk(m.payload, 4))
      /\ Carries(bytes, after, m.timestamp) /\ Carries(bytes, after + 8, PackExtensions(m))
      /\ after \in Nat
  BY ApplicationIs, Zenon
<1>2. /\ ParseBuffer(bytes) = [ parsed |-> TRUE, source |-> m.source,
                                destination |-> m.destination, next |-> h ]
      /\ bytes[1] = Application /\ bytes[9 + a] = m.to /\ Len(m.source) = a
  BY <1>1, HeaderIsParsed, HeaderIsCarried, Zenon DEF HeaderEnd, SourceSize
<1>3. h \in Nat \ {0} /\ h + 2 \in Nat \ {0} /\ after \in Nat \ {0} /\ after + 8 \in Nat \ {0}
  <2>1. h \in Nat \ {0} /\ PayloadSize(m) \in Nat /\ after = (h + 2) + 4 + PayloadSize(m)
    BY HeaderEndIs, SizesAre, Zenon DEF AfterPayload
  <2> HIDE DEF h, after
  <2> QED
    BY SMT, <2>1
<1> HIDE DEF h, after, a
<1>4. bytes[h] = m.kind /\ bytes[h + 1] = m.phase /\ h <= Len(bytes) /\ m.kind \in Commands
  <2>1. m.kind \in Byte /\ m.phase \in Byte /\ m.kind \in Commands
    BY MessageIs, MessageAssumption, Zenon
  <2>2. PICK i \in Byte : i = m.kind
    BY <2>1
  <2>3. PICK j \in Byte : j = m.phase
    BY <2>1
  <2>4. Carries(bytes, h, <<i, j>>)
    BY <1>1, <2>2, <2>3, Zenon
  <2>5. Len(<<i, j>>) = 2 /\ <<i, j>>[1] = i /\ <<i, j>>[2] = j /\ 1 \in 1..2 /\ 2 \in 1..2
    BY SMT
  <2>6. bytes[h + 1 - 1] = i /\ bytes[h + 2 - 1] = j /\ h + 2 <= Len(bytes) + 1
    <3> DEFINE f == <<i, j>>
    <3>1. Len(f) = 2 /\ f[1] = i /\ f[2] = j /\ Carries(bytes, h, f)
      BY <2>4, <2>5
    <3> HIDE DEF f
    <3> QED
      BY <2>5, <3>1, Zenon DEF Carries
  <2>7. h + 1 - 1 = h /\ h + 2 - 1 = h + 1 /\ h <= Len(bytes)
    BY SMT, <1>3, <2>6
  <2> QED
    BY <2>1, <2>2, <2>3, <2>6, <2>7, Zenon
<1>5. UnpackCommand(bytes, h) = m.kind
  BY <1>4, Zenon DEF UnpackCommand, UnpackedAs
<1>6. PayloadAt(bytes, h + 2) = m.payload
  BY <1>1, <1>3, PayloadIsCarried, Zenon
<1>7. (h + 2) + 4 + Len(m.payload) = after
  BY Zenon DEF h, after, AfterPayload, PayloadSize
<1>8. SubSeq(bytes, after, after + 7) = m.timestamp
  <2>1. m.timestamp \in Seq(Byte) /\ Len(m.timestamp) = 8
    BY MessageIs, MessageAssumption, Zenon
  <2>2. after + 8 - 1 = after + 7
    BY SMT, <1>3
  <2>3. SubSeq(bytes, after, after + 8 - 1) = m.timestamp
    BY <1>1, <1>3, <2>1, CarriedField, Zenon
  <2> QED
    BY <2>2, <2>3, Zenon
<1>9. Unpack(bytes) = ApplicationBuilder(m.source, m.to, m.destination, m.kind, m.phase,
                                         m.payload, m.timestamp, tracker)
  <2> DEFINE Made(p) ==
        LET at == p.next + 2
            payload == PayloadAt(bytes, at)
            end == at + 4 + Len(payload)
        IN ApplicationBuilder(
              p.source, bytes[9 + Len(p.source)], p.destination,
              UnpackCommand(bytes, p.next), bytes[p.next + 1], payload,
              SubSeq(bytes, end, end + 7),
              IF end + 8 <= Len(bytes) /\ bytes[end + 8] # 0
              THEN UnpackExtensions(bytes, end + 9) ELSE NoTracker)
         p == [ parsed |-> TRUE, source |-> m.source, destination |-> m.destination, next |-> h ]
  <2>1. Unpack(bytes) = Made(ParseBuffer(bytes))
    BY <1>2, Zenon DEF Unpack, UnpackApplication
  <2>2. p.next = h /\ p.source = m.source /\ p.destination = m.destination
    BY Zenon
  <2> HIDE DEF p
  <2>3. Made(p) = ApplicationBuilder(m.source, m.to, m.destination, m.kind, m.phase,
                                     m.payload, m.timestamp, tracker)
    <3> DEFINE end == (h + 2) + 4 + Len(m.payload)
    <3>1. Made(p) = ApplicationBuilder(
              m.source, bytes[9 + a], m.destination,
              UnpackCommand(bytes, h), bytes[h + 1], m.payload,
              SubSeq(bytes, end, end + 7),
              IF end + 8 <= Len(bytes) /\ bytes[end + 8] # 0
              THEN UnpackExtensions(bytes, end + 9) ELSE NoTracker)
      BY <1>2, <1>6, <2>2, Zenon
    <3>2. end = after
      BY <1>7
    <3> HIDE DEF end
    <3> QED
      BY <1>2, <1>4, <1>5, <1>8, <3>1, <3>2, Zenon
  <2> HIDE DEF Made
  <2>4. ParseBuffer(bytes) = p
    BY <1>2 DEF p
  <2> QED
    BY <2>1, <2>3, <2>4, Zenon
<1>10. ASSUME \/ m.tracker = NoTracker
              \/ Len(PackFields(m)) + 1 > Len(bytes)
              \/ bytes[Len(PackFields(m)) + 1] # AwaitTracker
       PROVE  tracker = m.tracker
  <2>1. CASE m.tracker = NoTracker
    <3>1. Carries(bytes, after + 8, <<0>>)
      BY <1>1, <2>1, ExtensionsAre, Zenon
    <3>2. bytes[after + 8] = 0
      <4>1. 0 \in Byte /\ after + 8 \in Nat
        BY SMT, <1>3 DEF Byte
      <4> QED
        BY <3>1, <4>1, OneIs, Zenon
    <3> QED
      BY <2>1, <3>2, Zenon
  <2>2. CASE m.tracker # NoTracker
    <3>1. /\ PackExtensions(m) = <<1, AwaitTracker>> \o <<0, 8>> \o m.tracker
          /\ m.tracker \in Seq(Byte) /\ Len(m.tracker) = 5 /\ m.tracker[1] \in Bindings
          /\ Len(PackExtensions(m)) = 9
      BY <2>2, ExtensionsAre, Zenon
    <3>2. Len(PackFields(m)) + 1 = (after + 8) + 9
      BY <3>1, ApplicationIs, Zenon DEF after
    <3> DEFINE e == after + 8
    <3>3. e \in Nat \ {0} /\ e + 1 = after + 9
      BY SMT, <1>3
    <3>4. Carries(bytes, e, <<1, AwaitTracker>> \o <<0, 8>> \o m.tracker)
      BY <1>1, <3>1
    <3>5. e + 9 > Len(bytes) \/ bytes[e + 9] # AwaitTracker
      BY <1>10, <2>2, <3>2, Zenon
    <3> HIDE DEF e
    <3>6. bytes[e] = 1 /\ UnpackExtensions(bytes, e + 1) = m.tracker
      BY <3>1, <3>3, <3>4, <3>5, TrackerIsUnpacked, Zenon
    <3>7. e <= Len(bytes)
      <4>1. e + 9 <= Len(bytes) + 1
        BY <1>1, <3>1, Zenon DEF Carries, e
      <4> QED
        BY SMT, <3>3, <4>1
    <3>8. 1 # 0
      OBVIOUS
    <3> QED
      BY <3>3, <3>6, <3>7, <3>8, Zenon DEF e
  <2> QED
    BY <2>1, <2>2
<1> HIDE DEF tracker
<1>11. Unpack(bytes).tracker = tracker
  BY <1>9, SMT DEF ApplicationBuilder
<1>12. m = ApplicationBuilder(m.source, m.to, m.destination, m.kind, m.phase,
                              m.payload, m.timestamp, m.tracker)
  BY MessageIs, Zenon
<1>13. Unpack(bytes) = [m EXCEPT !.tracker = tracker]
  BY SMT, <1>9, <1>12 DEF ApplicationBuilder
<1> QED
  BY <1>10, <1>11, <1>13, Zenon

(* The size of a chunk is that of its field and four bytes.                *)
LEMMA ChunkSizeIs ==
    ASSUME NEW m \in Message
    PROVE  /\ PackChunk(m.payload, 4) \in Seq(Byte)
           /\ Len(PackChunk(m.payload, 4)) = 4 + PayloadSize(m)
<1> DEFINE n == PayloadSize(m)
           f == BigEndian(n, 4)
<1>1. /\ m.payload \in Seq(Byte) /\ Len(m.payload) = n /\ n \in Nat /\ n \div 256^3 < 256
  BY SizesAre, MessageIs, PayloadSizeIs, Zenon DEF PayloadSize
<1>2. f \in Seq(Byte) /\ Len(f) = 4
  BY <1>1, FourIs, Zenon
<1>3. PackChunk(m.payload, 4) = f \o m.payload
  BY <1>1, Zenon DEF PackChunk
<1> HIDE DEF f, n
<1>4. PackChunk(m.payload, 4) \in Seq(Byte) /\ Len(PackChunk(m.payload, 4)) = 4 + n
  BY <1>1, <1>2, <1>3, JoinIs, Zenon
<1> QED
  BY <1>4 DEF n

(* PackNetwork carries every field of its message where UnpackNetwork      *)
(* reads it.                                                               *)
LEMMA NetworkIs ==
    ASSUME NEW m \in Message, m.protocol = Network, HeaderIsValid(m)
    PROVE  /\ PackFields(m) \in Seq(Byte)
           /\ Len(PackFields(m)) + 1 = HeaderEnd(m) + 6 + PayloadSize(m)
           /\ \A bytes \in Seq(Byte) :
                 Carries(bytes, 1, PackFields(m)) =>
                    /\ Carries(bytes, 1, PackHeader(m))
                    /\ Carries(bytes, HeaderEnd(m), <<m.kind>>)
                    /\ Carries(bytes, HeaderEnd(m) + 1, PackChunk(m.payload, 4))
<1> DEFINE H == PackHeader(m)
           k == <<m.kind>>
           c == PackChunk(m.payload, 4)
           z == <<0>>
           n == PayloadSize(m)
           h == HeaderEnd(m)
           Hk == H \o k
           Hkc == Hk \o c
           all == Hkc \o z
<1>1. PackFields(m) = all
  BY SMT DEF PackFields, PackNetwork, Network, Application
<1>2. H \in Seq(Byte) /\ 1 + Len(H) = h /\ h \in Nat
  BY HeaderEndIs, Zenon
<1>3. k \in Seq(Byte) /\ Len(k) = 1
  BY SMT, MessageIs
<1>4. c \in Seq(Byte) /\ Len(c) = 4 + n /\ n \in Nat
  BY ChunkSizeIs, SizesAre, Zenon
<1>5. z \in Seq(Byte) /\ Len(z) = 1
  BY SMT DEF Byte
<1> HIDE DEF H, k, c, z, n, h
<1>6. Hk \in Seq(Byte) /\ Len(Hk) = Len(H) + 1
  BY <1>2, <1>3, JoinIs, Zenon
<1>7. Hkc \in Seq(Byte) /\ Len(Hkc) = Len(Hk) + (4 + n)
  <2> HIDE DEF Hk
  <2> QED
    BY <1>6, <1>4, JoinIs, Zenon
<1>8. all \in Seq(Byte) /\ Len(all) = Len(Hkc) + 1
  <2> HIDE DEF Hkc
  <2> QED
    BY <1>7, <1>5, JoinIs, Zenon
<1> HIDE DEF Hk, Hkc, all
<1>9. PICK d \in Nat : d = Len(H)
  BY SMT, <1>2
<1>10. h = 1 + d /\ Len(Hk) = d + 1 /\ Len(Hkc) = (d + 1) + (4 + n) /\ Len(all) = ((d + 1) + (4 + n)) + 1
  BY <1>2, <1>6, <1>7, <1>8, <1>9, Zenon
<1>11. n \in Nat
  BY <1>4
<1>12. (((d + 1) + (4 + n)) + 1) + 1 = h + 6 + n /\ h + 1 = 1 + (d + 1)
  BY SMT, <1>10, <1>11
<1>13. ASSUME NEW bytes \in Seq(Byte), Carries(bytes, 1, all)
       PROVE  Carries(bytes, 1, H) /\ Carries(bytes, h, k) /\ Carries(bytes, h + 1, c)
  <2>1. 1 \in Nat
    OBVIOUS
  <2>2. Carries(bytes, 1, Hkc)
    BY <1>5, <1>7, <1>13, <2>1, CarriesParts, Zenon DEF all
  <2>3. Carries(bytes, 1, Hk) /\ Carries(bytes, 1 + Len(Hk), c)
    BY <1>4, <1>6, <2>1, <2>2, CarriesParts, Zenon DEF Hkc
  <2>4. Carries(bytes, 1, H) /\ Carries(bytes, 1 + Len(H), k)
    BY <1>2, <1>3, <2>1, <2>3, CarriesParts, Zenon DEF Hk
  <2> QED
    BY <1>2, <1>10, <1>12, <2>3, <2>4, Zenon
<1>14. PackFields(m) \in Seq(Byte) /\ Len(PackFields(m)) + 1 = h + 6 + n
  BY <1>1, <1>8, <1>10, <1>12, Zenon
<1>15. \A bytes \in Seq(Byte) : Carries(bytes, 1, PackFields(m)) =>
          Carries(bytes, 1, H) /\ Carries(bytes, h, k) /\ Carries(bytes, h + 1, c)
  BY <1>1, <1>13, Zenon
<1> QED
  BY <1>14, <1>15, Zenon DEF H, k, c, h, n

(* UnpackNetwork makes the packed message again.                           *)
LEMMA NetworkIsUnpacked ==
    ASSUME NEW m \in Message, m.protocol = Network, HeaderIsValid(m),
           NEW bytes \in Seq(Byte), Carries(bytes, 1, PackFields(m))
    PROVE  Unpack(bytes) = m
<1> DEFINE h == HeaderEnd(m)
           p == [ parsed |-> TRUE, source |-> m.source, destination |-> m.destination, next |-> h ]
<1>1. /\ Carries(bytes, 1, PackHeader(m)) /\ Carries(bytes, h, <<m.kind>>)
      /\ Carries(bytes, h + 1, PackChunk(m.payload, 4))
  BY NetworkIs, Zenon
<1>2. ParseBuffer(bytes) = p /\ bytes[1] = Network
  BY <1>1, HeaderIsParsed, HeaderIsCarried, Zenon DEF HeaderEnd
<1>3. h \in Nat \ {0} /\ h + 1 \in Nat \ {0} /\ h \in Nat
  <2>1. h \in Nat \ {0}
    BY HeaderEndIs, Zenon
  <2> HIDE DEF h
  <2> QED
    BY SMT, <2>1
<1>4. p.next = h /\ p.source = m.source /\ p.destination = m.destination
  BY Zenon
<1> HIDE DEF h, p
<1>5. bytes[h] = m.kind /\ h <= Len(bytes) /\ m.kind \in NetworkTypes
  <2>1. m.kind \in Byte /\ m.kind \in NetworkTypes
    BY MessageIs, MessageAssumption, Zenon
  <2> QED
    BY <1>1, <1>3, <2>1, OneIs, SMT
<1>6. UnpackMessageType(bytes, h) = m.kind
  BY <1>5, Zenon DEF UnpackMessageType, UnpackedAs
<1>7. PayloadAt(bytes, h + 1) = m.payload
  BY <1>1, <1>3, PayloadIsCarried, Zenon
<1>8. Unpack(bytes) = NetworkBuilder(p.source, p.destination, UnpackMessageType(bytes, p.next),
                                     PayloadAt(bytes, p.next + 1))
  <2>1. Network # Application
    BY DEF Network, Application
  <2> QED
    BY <1>2, <2>1, Zenon DEF Unpack, UnpackNetwork
<1>9. m = NetworkBuilder(m.source, m.destination, m.kind, m.payload)
  BY MessageAssumption, Zenon
<1> QED
  BY <1>6, <1>7, <1>8, <1>9, <1>4, Zenon

(* The size that GetPackSize computes for the fields of a message.         *)
FieldsSize(m) == HeaderPackSize(m) + FixedPackSize(m) + Len(m.payload) + ExtensionSize(m)

(* The fields are packed into as many bytes as GetPackSize counts.         *)
LEMMA FieldsSizeIs ==
    ASSUME NEW m \in Message, HeaderIsValid(m)
    PROVE  /\ PackFields(m) \in Seq(Byte) /\ FieldsSize(m) \in Nat /\ FieldsSize(m) >= 12
           /\ Len(PackFields(m)) = FieldsSize(m)
<1>1. PICK a \in Nat : a = SourceSize(m)
  BY SizesAre, Zenon
<1>2. PICK b \in Nat : b = DestinationSize(m)
  BY SizesAre, Zenon
<1>3. PICK n \in Nat : n = PayloadSize(m)
  BY SizesAre, Zenon
<1>4. HeaderPackSize(m) = 11 + a + b /\ HeaderEnd(m) = 12 + a + b
  BY <1>1, <1>2, Zenon DEF HeaderPackSize, SourceSize, DestinationSize, HeaderEnd
<1>5. PackFields(m) \in Seq(Byte)
  BY ApplicationIs, NetworkIs, MessageIs, Zenon
<1>6. PICK l \in Nat : l = Len(PackFields(m))
  <2>1. PICK f \in Seq(Byte) : f = PackFields(m)
    BY <1>5
  <2>2. Len(f) \in Nat
    BY SMT
  <2> QED
    BY <2>1, <2>2, Zenon
<1>7. CASE m.protocol = Application
  <2>1. PICK e \in Nat : e = ExtensionSize(m)
    BY SMT DEF ExtensionSize, FixedAwaitExtensionSize
  <2>2. FixedPackSize(m) = 15
    <3>1. ApplicationFixedPackSize = 15
      BY SMT DEF ApplicationFixedPackSize
    <3> QED
      BY <1>7, <3>1, Zenon DEF FixedPackSize
  <2>3. FieldsSize(m) = (11 + a + b) + 15 + n + e
    BY <1>3, <1>4, <2>1, <2>2, Zenon DEF FieldsSize, PayloadSize
  <2>4. l + 1 = ((((12 + a + b) + 2) + 4 + n) + 8) + (1 + e)
    BY <1>3, <1>4, <1>6, <1>7, <2>1, ApplicationIs, ExtensionsAre, Zenon DEF AfterPayload
  <2>5. l = (11 + a + b) + 15 + n + e /\ l >= 12
    BY SMT, <2>4
  <2> QED
    BY <1>5, <1>6, <2>3, <2>5, Zenon
<1>8. CASE m.protocol = Network
  <2>1. ExtensionSize(m) = 0
    <3>1. m = NetworkBuilder(m.source, m.destination, m.kind, m.payload)
      BY <1>8, MessageAssumption, Zenon
    <3>2. m.tracker = NoTracker
      BY SMT, <3>1 DEF NetworkBuilder
    <3> QED
      BY <3>2, Zenon DEF ExtensionSize
  <2>2. FixedPackSize(m) = 6
    <3>1. NetworkFixedPackSize = 6 /\ Network # Application
      BY SMT DEF NetworkFixedPackSize, Network, Application
    <3> QED
      BY <1>8, <3>1, Zenon DEF FixedPackSize
  <2>3. FieldsSize(m) = (11 + a + b) + 6 + n + 0
    BY <1>3, <1>4, <2>1, <2>2, Zenon DEF FieldsSize, PayloadSize
  <2>4. l + 1 = (12 + a + b) + 6 + n
    BY <1>3, <1>4, <1>6, <1>8, NetworkIs, Zenon
  <2>5. l = (11 + a + b) + 6 + n + 0 /\ l >= 12
    BY SMT, <2>4
  <2> QED
    BY <1>5, <1>6, <2>3, <2>5, Zenon
<1> QED
  BY <1>7, <1>8, MessageIs, Zenon

(* A pad before an aligned signature or after it are of one size, and      *)
(* whole blocks are encoded into five quarters of their size.              *)
LEMMA PackSizeIs ==
    ASSUME NEW n \in Nat, NEW s \in Nat, s % 4 = 0, n >= 12
    PROVE  \E count \in Nat :
              /\ EncodedSize(n + s) = 5 * count /\ count >= 3
              /\ n + PaddingBytes(n) + s = 4 * count
              /\ PaddingBytes(n) \in Nat
<1>1. PaddingBytes(n) \in 0..3 /\ (n + PaddingBytes(n)) % 4 = 0
  BY PaddingIs, Zenon
<1>2. PICK i \in 0..3 : i = PaddingBytes(n)
  BY <1>1, Zenon
<1>3. PICK u \in Nat : u = n + i
  BY SMT
<1>4. u = n + PaddingBytes(n)
  BY <1>2, <1>3, Zenon
<1>5. u % 4 = 0 /\ u >= 12
  <2>1. u % 4 = 0
    BY <1>1, <1>4, Zenon
  <2> QED
    BY SMT, <1>3, <2>1
<1>6. PICK c \in Nat : u = 4 * c
  <2>1. u = 4 * (u \div 4) /\ u \div 4 \in Nat
    BY SMT, <1>5
  <2> QED
    BY <2>1, Zenon
<1>7. PICK v \in Nat : s = 4 * v
  <2>1. s = 4 * (s \div 4) /\ s \div 4 \in Nat
    BY SMT
  <2> QED
    BY <2>1, Zenon
<1>8. PaddingBytes(n + s) = PaddingBytes(n)
  <2>1. (n + s) % 4 = n % 4
    BY SMT, <1>7
  <2> QED
    BY <2>1, Zenon DEF PaddingBytes, DecodedBlockSize
<1>9. EncodedSize(n + s) = ((n + s + PaddingBytes(n)) * 5) \div 4
  <2>1. n + s \in Nat
    BY SMT
  <2> QED
    BY <1>8, <2>1, PaddingIs, SMT
<1>10. PICK p \in Nat : p = PaddingBytes(n)
  BY SMT, PaddingIs
<1>11. ((n + s + p) * 5) \div 4 = 5 * (c + v)
  <2>1. n + s + p = 4 * (c + v)
    BY SMT, <1>4, <1>6, <1>7, <1>10
  <2>2. (4 * (c + v)) * 5 = 4 * (5 * (c + v))
    BY SMT
  <2>3. PICK w \in Nat : w = 5 * (c + v)
    BY SMT
  <2>4. (4 * w) \div 4 = w
    BY SMT
  <2> QED
    BY <2>1, <2>2, <2>3, <2>4, Zenon
<1>12. n + p + s = 4 * (c + v) /\ c + v >= 3 /\ c + v \in Nat
  BY SMT, <1>4, <1>5, <1>6, <1>7, <1>10
<1> QED
  BY <1>9, <1>10, <1>11, <1>12, Zenon

(* A pack is whole blocks, as many as its header announces, and the bytes  *)
(* after its fields look like an extension only if nothing is padded and   *)
(* the signature does.                                                     *)
LEMMA PackedIs ==
    ASSUME NEW m \in Message, HeaderIsValid(m), NEW s \in Seq(Byte), Len(s) = SignedSize(m)
    PROVE  \E count \in Nat :
              /\ PackedBytes(m, s) \in Seq(Byte) /\ Len(PackedBytes(m, s)) = 4 * count
              /\ GetPackSize(m) = 5 * count /\ count >= 3
              /\ Carries(PackedBytes(m, s), 1, PackFields(m))
              /\ \/ Len(PackFields(m)) + 1 > Len(PackedBytes(m, s))
                 \/ PackedBytes(m, s)[Len(PackFields(m)) + 1] # AwaitTracker
                 \/ PaddingBytes(Len(PackFields(m))) = 0 /\ s[1] = AwaitTracker
<1> DEFINE f == PackFields(m)
<1>1. f \in Seq(Byte) /\ Len(f) = FieldsSize(m)
  BY FieldsSizeIs, Zenon
<1>2. PICK n \in Nat : n = FieldsSize(m)
  BY FieldsSizeIs, Zenon
<1>3. n >= 12
  BY <1>2, FieldsSizeIs, Zenon
<1>4. PICK size \in Nat : size = SignedSize(m)
  BY SMT, LengthAssumption DEF SignedSize
<1>5. size % 4 = 0
  BY SMT, <1>4, LengthAssumption DEF SignedSize, DecodedBlockSize
<1>6. PICK count \in Nat :
              /\ EncodedSize(n + size) = 5 * count /\ count >= 3
              /\ n + PaddingBytes(n) + size = 4 * count
              /\ PaddingBytes(n) \in Nat
  BY <1>3, <1>5, PackSizeIs, Zenon
<1>7. GetPackSize(m) = 5 * count
  <2>1. GetPackSize(m) = EncodedSize(FieldsSize(m) + SignedSize(m))
    BY Zenon DEF GetPackSize, FieldsSize
  <2> QED
    BY <1>2, <1>4, <1>6, <2>1, Zenon
<1>8. PICK p \in Nat : p = PaddingBytes(n)
  BY <1>6
<1> DEFINE z == [k \in 1..p |-> 0]
<1>9. z \in Seq(Byte) /\ Len(z) = p /\ \A k \in 1..p : z[k] = 0
  BY SMT DEF Byte
<1>10. PackedBytes(m, s) = (f \o z) \o s
  <2>1. Pad(f) = f \o z
    BY <1>1, <1>2, <1>8, Zenon DEF Pad
  <2>2. CASE m.protocol = Application
    BY <2>1, <2>2, Zenon DEF PackedBytes
  <2>3. CASE m.protocol # Application
    <3>1. SignedSize(m) = 0
      BY <2>3, Zenon DEF SignedSize
    <3>2. s = << >>
      BY SMT, <3>1
    <3> QED
      BY <2>1, <2>3, <3>2, Zenon DEF PackedBytes
  <2> QED
    BY <2>2, <2>3
<1> HIDE DEF f, z
<1>11. f \o z \in Seq(Byte) /\ Len(f \o z) = n + p
  BY <1>1, <1>2, <1>9, JoinIs, Zenon
<1> DEFINE fz == f \o z
<1>12. fz \in Seq(Byte) /\ Len(fz) = n + p /\ PackedBytes(m, s) = fz \o s
  BY <1>10, <1>11
<1>13. Carries(fz, 1, f) /\ (p > 0 => fz[n + 1] = 0)
  <2>1. Carries(f \o z, 1, f)
    BY <1>1, <1>9, CarriesWhole, Zenon
  <2>2. p > 0 => (f \o z)[n + 1] = 0
    <3>1. Len(f) = n
      BY <1>1, <1>2
    <3> QED
      BY SMT, <1>1, <1>9, <3>1
  <2> QED
    BY <2>1, <2>2
<1> HIDE DEF fz
<1>14. fz \o s \in Seq(Byte) /\ Len(fz \o s) = n + p + size
  <2>1. fz \o s \in Seq(Byte) /\ Len(fz \o s) = (n + p) + size
    BY <1>4, <1>12, JoinIs, Zenon
  <2> QED
    BY <2>1, SMT
<1>15. Carries(fz \o s, 1, f)
  BY SMT, <1>1, <1>12, <1>13 DEF Carries
<1>16. \/ n + 1 > Len(fz \o s)
       \/ (fz \o s)[n + 1] # AwaitTracker
       \/ p = 0 /\ s[1] = AwaitTracker
  <2>1. CASE p > 0
    <3>1. (fz \o s)[n + 1] = fz[n + 1]
      BY SMT, <1>12, <2>1
    <3>2. 0 # AwaitTracker
      BY DEF AwaitTracker
    <3> QED
      BY <1>13, <2>1, <3>1, <3>2, Zenon
  <2>2. CASE p = 0
    <3>1. Len(fz) = n /\ Len(s) = size
      BY SMT, <1>4, <1>12, <2>2
    <3>2. CASE size = 0
      <4>1. n + 1 > n + p + size
        BY SMT, <2>2, <3>2
      <4> QED
        BY <1>14, <4>1, Zenon
    <3>3. CASE size # 0
      <4>1. (fz \o s)[n + 1] = s[1]
        BY SMT, <1>12, <3>1, <3>3
      <4> QED
        BY <2>2, <4>1, Zenon
    <3> QED
      BY <3>2, <3>3
  <2> QED
    BY SMT, <2>1, <2>2
<1>17. PackedBytes(m, s) = fz \o s /\ Len(f) = n
  BY <1>1, <1>2, <1>12
<1>18. n + p + size = 4 * count
  BY <1>6, <1>8
<1> QED
  BY <1>6, <1>7, <1>8, <1>14, <1>15, <1>16, <1>17, <1>18, Zenon DEF f

(* What is valid has a valid header.                                       *)
LEMMA ValidIs ==
    ASSUME NEW m \in Message, Valid(m)
    PROVE  HeaderIsValid(m)
BY Zenon DEF Valid, ApplicationIsValid, NetworkIsValid

(* Validity does not depend on the tracker.                                *)
LEMMA TrackerAside ==
    ASSUME NEW m \in Message, Valid(m), NEW t
    PROVE  /\ Valid([m EXCEPT !.tracker = t])
           /\ [[m EXCEPT !.tracker = t] EXCEPT !.tracker = m.tracker] = m
           /\ t = m.tracker => [m EXCEPT !.tracker = t] = m
<1>1. PICK r \in [ protocol : {Network, Application}, source : Seq(Byte), to : Destinations,
                   destination : Seq(Byte), kind : Commands \cup NetworkTypes, phase : Byte,
                   payload : Seq(Byte), timestamp : Seq(Byte), tracker : {NoTracker} \cup Seq(Byte) ] : r = m
  BY MessageAssumption, Zenon
<1> DEFINE c == [r EXCEPT !.tracker = t]
<1>2. /\ c.protocol = r.protocol /\ c.source = r.source /\ c.kind = r.kind /\ c.timestamp = r.timestamp
      /\ [c EXCEPT !.tracker = r.tracker] = r
      /\ t = r.tracker => c = r
  <2>1. DOMAIN r = {"protocol", "source", "to", "destination", "kind", "phase", "payload", "timestamp", "tracker"}
        /\ r = [k \in DOMAIN r |-> r[k]]
    BY SMT
  <2>2. c.protocol = r.protocol /\ c.source = r.source /\ c.kind = r.kind /\ c.timestamp = r.timestamp
    BY SMT, <2>1
  <2>3. c = [k \in DOMAIN r |-> IF k = "tracker" THEN t ELSE r[k]]
    BY Zenon
  <2>4. [c EXCEPT !.tracker = r.tracker] = [k \in DOMAIN r |-> IF k = "tracker" THEN r.tracker ELSE c[k]]
    BY <2>3, Zenon
  <2>5. \A k \in DOMAIN r : (IF k = "tracker" THEN r.tracker ELSE c[k]) = r[k]
    BY <2>3, Zenon
  <2>6. [c EXCEPT !.tracker = r.tracker] = r
    BY <2>1, <2>4, <2>5, Zenon
  <2>7. t = r.tracker => c = r
    BY <2>1, <2>3, Zenon
  <2> QED
    BY <2>2, <2>6, <2>7
<1> HIDE DEF c
<1>3. Valid(r)
  BY <1>1
<1>4. Valid(c)
  BY <1>2, <1>3, Zenon DEF Valid, ApplicationIsValid, NetworkIsValid, HeaderIsValid
<1> QED
  BY <1>1, <1>2, <1>4, Zenon DEF c

(* The round trip of every message that may be sent, of either protocol:   *)
(* its pack announces its size, is parsed and accepted, and is unpacked as *)
(* the message, but for a tracker that the signature replaces.             *)
THEOREM UnpackedIs ==
    ASSUME NEW m \in Message, Valid(m), NEW s \in Seq(Byte), Len(s) = SignedSize(m),
           NEW bytes, bytes = PackedBytes(m, s)
    PROVE  /\ bytes[1] = m.protocol
           /\ PeekSize(bytes) = GetPackSize(m)
           /\ PeekSource(bytes) /\ ParseBuffer(bytes).parsed /\ ParseBuffer(bytes).next <= Len(bytes)
           /\ Valid(Unpack(bytes))
           /\ \/ Unpack(bytes) = m
              \/ /\ m.protocol = Application /\ m.tracker # NoTracker
                 /\ PaddingBytes(Len(PackFields(m))) = 0 /\ s[1] = AwaitTracker
                 /\ [Unpack(bytes) EXCEPT !.tracker = m.tracker] = m
<1>1. HeaderIsValid(m)
  BY ValidIs, Zenon
<1>2. /\ bytes \in Seq(Byte) /\ Carries(bytes, 1, PackFields(m))
      /\ \/ Len(PackFields(m)) + 1 > Len(bytes)
         \/ bytes[Len(PackFields(m)) + 1] # AwaitTracker
         \/ PaddingBytes(Len(PackFields(m))) = 0 /\ s[1] = AwaitTracker
  BY <1>1, PackedIs, Zenon
<1>3. Carries(bytes, 1, PackHeader(m)) /\ HeaderEnd(m) <= Len(bytes)
  <2>1. CASE m.protocol = Application
    <3>1. Carries(bytes, 1, PackHeader(m)) /\ Carries(bytes, HeaderEnd(m), <<m.kind, m.phase>>)
      BY <1>1, <1>2, <2>1, ApplicationIs, Zenon
    <3>2. HeaderEnd(m) + 2 <= Len(bytes) + 1
      <4>1. Len(<<m.kind, m.phase>>) = 2
        BY SMT
      <4> QED
        BY <3>1, <4>1, Zenon DEF Carries
    <3>3. HeaderEnd(m) \in Nat
      BY <1>1, HeaderEndIs, Zenon
    <3>4. PICK l \in Nat : l = Len(bytes)
      BY SMT, <1>2
    <3> QED
      BY SMT, <3>1, <3>2, <3>3, <3>4
  <2>2. CASE m.protocol = Network
    <3>1. Carries(bytes, 1, PackHeader(m)) /\ Carries(bytes, HeaderEnd(m), <<m.kind>>)
      BY <1>1, <1>2, <2>2, NetworkIs, Zenon
    <3>2. HeaderEnd(m) + 1 <= Len(bytes) + 1
      <4>1. Len(<<m.kind>>) = 1
        BY SMT
      <4> QED
        BY <3>1, <4>1, Zenon DEF Carries
    <3>3. HeaderEnd(m) \in Nat
      BY <1>1, HeaderEndIs, Zenon
    <3>4. PICK l \in Nat : l = Len(bytes)
      BY SMT, <1>2
    <3> QED
      BY SMT, <3>1, <3>2, <3>3, <3>4
  <2> QED
    BY <2>1, <2>2, MessageIs, Zenon
<1>4. bytes[1] = m.protocol /\ PeekSize(bytes) = GetPackSize(m)
  BY <1>1, <1>2, <1>3, HeaderIsCarried, Zenon DEF PeekSize
<1>5. PeekSource(bytes) /\ ParseBuffer(bytes).parsed /\ ParseBuffer(bytes).next <= Len(bytes)
  <2>1. PeekSource(bytes) /\ ParseBuffer(bytes) = [ parsed |-> TRUE, source |-> m.source,
                                  destination |-> m.destination, next |-> HeaderEnd(m) ]
    BY <1>1, <1>2, <1>3, HeaderIsParsed, Zenon DEF HeaderEnd
  <2>2. ParseBuffer(bytes).parsed = TRUE /\ ParseBuffer(bytes).next = HeaderEnd(m)
    BY <2>1, SMT
  <2> QED
    BY <1>3, <2>1, <2>2, Zenon
<1>6. CASE m.protocol = Network
  BY <1>1, <1>2, <1>4, <1>5, <1>6, NetworkIsUnpacked, Zenon
<1>7. CASE m.protocol = Application
  <2>1. /\ Unpack(bytes) = [m EXCEPT !.tracker = Unpack(bytes).tracker]
        /\ \/ m.tracker = NoTracker
           \/ Len(PackFields(m)) + 1 > Len(bytes)
           \/ bytes[Len(PackFields(m)) + 1] # AwaitTracker
           => Unpack(bytes).tracker = m.tracker
    BY <1>1, <1>2, <1>7, ApplicationIsUnpacked, Zenon
  <2> DEFINE t == Unpack(bytes).tracker
  <2>2. Unpack(bytes) = [m EXCEPT !.tracker = t]
    BY <2>1
  <2> HIDE DEF t
  <2>3. Valid(Unpack(bytes)) /\ [Unpack(bytes) EXCEPT !.tracker = m.tracker] = m
        /\ (t = m.tracker => Unpack(bytes) = m)
    BY <2>2, TrackerAside, Zenon
  <2> QED
    BY <1>2, <1>4, <1>5, <1>7, <2>1, <2>3, Zenon DEF t
<1> QED
  BY <1>6, <1>7, MessageIs, Zenon

(* The announced size depends on the first eight bytes only.               *)
LEMMA PeekSame ==
    ASSUME NEW x \in Seq(Byte), NEW y \in Seq(Byte), Len(x) >= 8, Len(y) >= 8,
           \A k \in 1..8 : x[k] = y[k]
    PROVE  PeekSize(x) = PeekSize(y)
<1>1. 4 \in 1..8 /\ 5 \in 1..8 /\ 6 \in 1..8 /\ 7 \in 1..8
      /\ 4 + 1 = 5 /\ 4 + 2 = 6 /\ 4 + 3 = 7 /\ 4 \in Nat
  BY SMT
<1>2. x[4] \in Byte /\ x[5] \in Byte /\ x[6] \in Byte /\ x[7] \in Byte
  BY SMT
<1>3. y[4] = x[4] /\ y[5] = x[5] /\ y[6] = x[6] /\ y[7] = x[7]
  BY <1>1, Zenon
<1>4. PICK a \in Byte, b \in Byte, c \in Byte, d \in Byte : x[4] = a /\ x[5] = b /\ x[6] = c /\ x[7] = d
  BY <1>2, Zenon
<1>5. Number(x, 4, 4) = ((a * 256 + b) * 256 + c) * 256 + d
  BY <1>1, <1>4, NumberOfFour, SMT
<1>6. Number(y, 4, 4) = ((a * 256 + b) * 256 + c) * 256 + d
  BY <1>1, <1>3, <1>4, NumberOfFour, SMT
<1> QED
  BY <1>5, <1>6 DEF PeekSize

-------------------------------------------------------------------------------
(*****************************************************************************)
(* The blocks of the messages that are sent, and their places on the wire. *)
(*****************************************************************************)

(* A message on its way and its signature, and its bytes and blocks.       *)
Item == [message : Message, signature : Seq(Byte)]
Sendable(x) == x \in Item /\ Valid(x.message) /\ Len(x.signature) = SignedSize(x.message)
PackOf(x) == GetPack(x.message, x.signature)
BytesOf(x) == PackedBytes(x.message, x.signature)

(* The pack of a sendable message: at least three blocks, and as many as   *)
(* it announces.                                                           *)
LEMMA PackOfIs ==
    ASSUME NEW x, Sendable(x)
    PROVE  /\ PackOf(x) \in Seq(Block) /\ Len(PackOf(x)) \in Nat /\ Len(PackOf(x)) >= 3
           /\ BytesOf(x) \in Seq(Byte) /\ Len(BytesOf(x)) = 4 * Len(PackOf(x))
           /\ GetPackSize(x.message) = 5 * Len(PackOf(x))
           /\ PackOf(x) = Encode(BytesOf(x))
           /\ PeekSize(BytesOf(x)) = 5 * Len(PackOf(x))
<1>1. x.message \in Message /\ x.signature \in Seq(Byte) /\ Valid(x.message)
      /\ Len(x.signature) = SignedSize(x.message)
  BY SMT DEF Sendable, Item
<1>2. PICK m \in Message : m = x.message
  BY <1>1
<1>3. PICK s \in Seq(Byte) : s = x.signature
  BY <1>1
<1>4. Valid(m) /\ HeaderIsValid(m) /\ Len(s) = SignedSize(m)
  BY <1>1, <1>2, <1>3, ValidIs, Zenon
<1>5. PICK count \in Nat : /\ PackedBytes(m, s) \in Seq(Byte) /\ Len(PackedBytes(m, s)) = 4 * count
                           /\ GetPackSize(m) = 5 * count /\ count >= 3
  BY <1>4, PackedIs, Zenon
<1>6. Encode(PackedBytes(m, s)) \in Seq(Block) /\ Len(Encode(PackedBytes(m, s))) = count
  BY <1>5, EncodeIs, Zenon
<1>7. PeekSize(PackedBytes(m, s)) = GetPackSize(m)
  BY <1>4, UnpackedIs, Zenon
<1> QED
  BY <1>2, <1>3, <1>5, <1>6, <1>7, Zenon DEF PackOf, BytesOf, GetPack

(* If a block of a pack cannot be decoded, a block of its bytes has all    *)
(* bits set.                                                               *)
LEMMA AtOnes ==
    ASSUME NEW x, Sendable(x), NEW n \in 1..Len(PackOf(x)), ~Decodable(PackOf(x)[n])
    PROVE  \E k \in 1..Len(BytesOf(x)) \div DecodedBlockSize : SubSeq(BytesOf(x), 4 * k - 3, 4 * k) = Ones
<1>1. PICK count \in Nat : count = Len(PackOf(x))
  BY PackOfIs, Zenon
<1>2. BytesOf(x) \in Seq(Byte) /\ Len(BytesOf(x)) = 4 * count /\ PackOf(x) = Encode(BytesOf(x))
  BY <1>1, PackOfIs, Zenon
<1>3. n \in 1..count
  BY <1>1
<1>4. SubSeq(BytesOf(x), 4 * n - 3, 4 * n) = Ones
  BY <1>2, <1>3, EncodeIs, Zenon
<1>5. (4 * count) \div 4 = count
  BY SMT
<1> QED
  BY <1>2, <1>3, <1>4, <1>5, Zenon DEF DecodedBlockSize

(* The Receiver expects two blocks first.                                  *)
LEMMA HeaderBlocksIs == HeaderBlocks = 2
<1>1. (4 - (8 % 4)) % 4 = 0 /\ ((8 + 0) * 5) \div 4 = 10 /\ 10 \div 5 = 2
  BY SMT
<1>2. PaddingBytes(8) = 0
  BY <1>1, Zenon DEF PaddingBytes, DecodedBlockSize
<1>3. EncodedSize(8) = 10
  BY <1>1, <1>2, Zenon DEF EncodedSize, DecodedBlockSize, EncodedBlockSize
<1> QED
  BY <1>1, <1>3, Zenon DEF HeaderBlocks, EncodedBlockSize

(* The first two blocks of a pack are decoded as the first eight bytes of  *)
(* the message.                                                            *)
LEMMA HeaderIsDecoded ==
    ASSUME NEW x, Sendable(x), NEW blocks \in Seq(Block), Len(blocks) = 2,
           \A j \in 1..2 : blocks[j] = PackOf(x)[j]
    PROVE  Decode(blocks) = SubSeq(BytesOf(x), 1, 8)
<1>1. PICK count \in Nat : count = Len(PackOf(x))
  BY PackOfIs, Zenon
<1>2. BytesOf(x) \in Seq(Byte) /\ Len(BytesOf(x)) = 4 * count /\ PackOf(x) = Encode(BytesOf(x)) /\ count >= 3
  BY <1>1, PackOfIs, Zenon
<1>3. 0 + 2 <= count /\ 0 \in Nat /\ \A j \in 1..2 : 0 + j = j
  BY SMT, <1>2
<1>4. 4 * 0 + 1 = 1 /\ 4 * 0 + 4 * 2 = 8
  BY SMT
<1>5. \A j \in 1..Len(blocks) : blocks[j] = Encode(BytesOf(x))[0 + j]
  <2>1. PICK p : p = PackOf(x)
    OBVIOUS
  <2>2. \A j \in 1..2 : blocks[j] = p[0 + j]
    BY <1>3, <2>1, Zenon
  <2>3. Len(blocks) = 2
    OBVIOUS
  <2> QED
    BY <1>2, <2>1, <2>2, <2>3, Zenon
<1>6. Decode(blocks) = SubSeq(BytesOf(x), 4 * 0 + 1, 4 * 0 + 4 * Len(blocks))
  BY <1>2, <1>3, <1>5, DecodeIs, Zenon
<1> QED
  BY <1>4, <1>6, Zenon

(* The other blocks are decoded as the rest of it.                         *)
LEMMA RestIsDecoded ==
    ASSUME NEW x, Sendable(x), NEW blocks \in Seq(Block), Len(blocks) = Len(PackOf(x)) - 2,
           \A j \in 1..Len(blocks) : blocks[j] = PackOf(x)[2 + j]
    PROVE  SubSeq(BytesOf(x), 1, 8) \o Decode(blocks) = BytesOf(x)
<1>1. PICK count \in Nat : count = Len(PackOf(x))
  BY PackOfIs, Zenon
<1>2. BytesOf(x) \in Seq(Byte) /\ Len(BytesOf(x)) = 4 * count /\ PackOf(x) = Encode(BytesOf(x)) /\ count >= 3
  BY <1>1, PackOfIs, Zenon
<1>3. PICK l \in Nat : l = Len(blocks)
  BY SMT
<1>4. 2 + l = count /\ 2 + l <= count
  <2>1. l = count - 2
    BY <1>1, <1>3
  <2> QED
    BY SMT, <1>2, <2>1
<1>5. Decode(blocks) = SubSeq(BytesOf(x), 4 * 2 + 1, 4 * 2 + 4 * Len(blocks))
  <2>1. 2 \in Nat
    OBVIOUS
  <2>2. \A j \in 1..Len(blocks) : blocks[j] = Encode(BytesOf(x))[2 + j]
    BY <1>2, Zenon
  <2>3. 2 + Len(blocks) <= count
    BY <1>3, <1>4, Zenon
  <2> QED
    BY <1>2, <2>1, <2>2, <2>3, DecodeIs, Zenon
<1>6. 4 * 2 + 1 = 8 + 1 /\ 4 * 2 + 4 * l = 4 * count
  BY SMT, <1>4
<1>7. PICK bytes \in Seq(Byte) : bytes = BytesOf(x)
  BY <1>2
<1>8. Len(bytes) = 4 * count
  BY <1>2, <1>7
<1>9. SubSeq(bytes, 1, 8) \o SubSeq(bytes, 8 + 1, 4 * count) = bytes
  <2>1. /\ 1 \in 1..4 * count + 1 /\ 8 \in (1 - 1)..4 * count
        /\ 4 * count \in 8..4 * count
    BY SMT, <1>2
  <2>2. SubSeq(bytes, 1, 8) \o SubSeq(bytes, 8 + 1, 4 * count) = SubSeq(bytes, 1, 4 * count)
    BY <1>8, <2>1, ConcatAdjacentSubSeq, Zenon
  <2>3. SubSeq(bytes, 1, 4 * count) = bytes
    BY <1>8, SubSeqFull, Zenon
  <2> QED
    BY <2>2, <2>3
<1> QED
  BY <1>3, <1>5, <1>6, <1>7, <1>9, Zenon

(* The block is number i of message k.                                     *)
At(s, k, i, block) ==
    /\ k \in 1..Len(s)
    /\ i \in 1..Len(PackOf(s[k]))
    /\ block = PackOf(s[k])[i]

(* The place of the block that follows number i of message k.              *)
NextMessage(s, k, i) == IF i < Len(PackOf(s[k])) THEN k ELSE k + 1
NextBlock(s, k, i) == IF i < Len(PackOf(s[k])) THEN i + 1 ELSE 1

(* The blocks w have the places c and d, each the one that follows the     *)
(* place before it.                                                        *)
Stretch(s, w, c, d) ==
    /\ c \in [1..Len(w) + 1 -> Nat]
    /\ d \in [1..Len(w) + 1 -> Nat]
    /\ \A j \in 1..Len(w) :
          /\ At(s, c[j], d[j], w[j])
          /\ c[j + 1] = NextMessage(s, c[j], d[j])
          /\ d[j + 1] = NextBlock(s, c[j], d[j])

(* The blocks w are those of the messages s from block i of message k up   *)
(* to, and without, block n of message l.                                  *)
Leads(s, w, k, i, l, n) ==
    \E c, d : /\ Stretch(s, w, c, d)
              /\ c[1] = k /\ d[1] = i
              /\ c[Len(w) + 1] = l /\ d[Len(w) + 1] = n

(* No blocks lead from a place to itself.                                  *)
LEMMA LeadsNowhere ==
    ASSUME NEW s, NEW k \in Nat, NEW i \in Nat
    PROVE  Leads(s, <<>>, k, i, k, i)
<1> DEFINE c == [j \in 1..1 |-> k]
           d == [j \in 1..1 |-> i]
<1>1. Len(<<>>) = 0 /\ Len(<<>>) + 1 = 1 /\ 1 \in 1..1 /\ 1..0 = {}
  BY SMT
<1>2. c \in [1..1 -> Nat] /\ d \in [1..1 -> Nat] /\ c[1] = k /\ d[1] = i
  BY <1>1, Zenon
<1> HIDE DEF c, d
<1>3. Stretch(s, <<>>, c, d)
  BY <1>1, <1>2, Zenon DEF Stretch
<1> QED
  BY <1>1, <1>2, <1>3, Zenon DEF Leads

(* What arrives of the blocks when the connection breaks leads somewhere.  *)
LEMMA LeadsPrefix ==
    ASSUME NEW s, NEW w \in Seq(Block), NEW k, NEW i, NEW l, NEW n, Leads(s, w, k, i, l, n),
           NEW x \in 0..Len(w)
    PROVE  \E l2, n2 \in Nat : Leads(s, SubSeq(w, 1, x), k, i, l2, n2)
<1>1. PICK c, d : Stretch(s, w, c, d) /\ c[1] = k /\ d[1] = i
  BY Zenon DEF Leads
<1>2. PICK m \in Nat : m = Len(w)
  BY SMT
<1>3. x \in Nat /\ x <= m /\ x + 1 \in 1..m + 1 /\ 1 \in 1..x + 1
  BY SMT, <1>2
<1> DEFINE v == SubSeq(w, 1, x)
           e == [j \in 1..x + 1 |-> c[j]]
           f == [j \in 1..x + 1 |-> d[j]]
<1>4. Len(v) = x /\ \A j \in 1..x : v[j] = w[j]
  BY SMT, <1>2, <1>3
<1>5. \A j \in 1..x : j \in 1..m /\ j \in 1..x + 1 /\ j + 1 \in 1..x + 1
  BY SMT, <1>3
<1>6. \A j \in 1..x + 1 : e[j] = c[j] /\ f[j] = d[j]
  BY Zenon
<1>7. e \in [1..x + 1 -> Nat] /\ f \in [1..x + 1 -> Nat]
  <2>1. c \in [1..m + 1 -> Nat] /\ d \in [1..m + 1 -> Nat]
    BY <1>1, <1>2, Zenon DEF Stretch
  <2>2. \A j \in 1..x + 1 : j \in 1..m + 1
    BY SMT, <1>3
  <2> QED
    BY <2>1, <2>2, Zenon
<1> HIDE DEF v, e, f
<1>8. Stretch(s, v, e, f)
  BY <1>1, <1>2, <1>4, <1>5, <1>6, <1>7, Zenon DEF Stretch
<1>9. e[1] = k /\ f[1] = i /\ e[x + 1] \in Nat /\ f[x + 1] \in Nat
  <2>1. x + 1 \in 1..x + 1
    BY SMT, <1>3
  <2> QED
    BY <1>1, <1>3, <1>6, <1>7, <2>1, Zenon
<1>10. Leads(s, v, k, i, e[x + 1], f[x + 1])
  BY <1>4, <1>8, <1>9, Zenon DEF Leads
<1> QED
  BY <1>9, <1>10, Zenon DEF v

(* The place of the next block is one.                                     *)
LEMMA NextIs ==
    ASSUME NEW s, NEW k \in Nat, NEW i \in Nat
    PROVE  NextMessage(s, k, i) \in Nat /\ NextBlock(s, k, i) \in Nat
BY SMT DEF NextMessage, NextBlock

(* One more block at the end: what Dispatch does to the wire.              *)
LEMMA LeadsOn ==
    ASSUME NEW s, NEW w \in Seq(Block), NEW k, NEW i, NEW l \in Nat, NEW n \in Nat, Leads(s, w, k, i, l, n),
           NEW b \in Block, At(s, l, n, b)
    PROVE  Leads(s, Append(w, b), k, i, NextMessage(s, l, n), NextBlock(s, l, n))
<1>1. PICK c, d : Stretch(s, w, c, d) /\ c[1] = k /\ d[1] = i /\ c[Len(w) + 1] = l /\ d[Len(w) + 1] = n
  BY Zenon DEF Leads
<1>2. PICK m \in Nat : m = Len(w)
  BY SMT
<1> DEFINE v == Append(w, b)
           e == [j \in 1..m + 2 |-> IF j = m + 2 THEN NextMessage(s, l, n) ELSE c[j]]
           f == [j \in 1..m + 2 |-> IF j = m + 2 THEN NextBlock(s, l, n) ELSE d[j]]
<1>3. Len(v) = m + 1 /\ v[m + 1] = b /\ \A j \in 1..m : v[j] = w[j]
  BY <1>2, SMT
<1>4. c \in [1..m + 1 -> Nat] /\ d \in [1..m + 1 -> Nat]
  BY <1>1, <1>2, Zenon DEF Stretch
<1>5. (m + 1) + 1 = m + 2 /\ m + 2 \in 1..m + 2 /\ 1 \in 1..m + 2 /\ 1 # m + 2 /\ m + 1 # m + 2
      /\ m + 1 \in 1..m + 2
      /\ (\A j \in 1..m + 2 : j # m + 2 => j \in 1..m + 1)
      /\ (\A j \in 1..m + 1 :
             j # m + 1 => /\ j \in 1..m /\ j + 1 # m + 2 /\ j # m + 2
                          /\ j \in 1..m + 2 /\ j + 1 \in 1..m + 2)
  BY SMT
<1>6. e \in [1..m + 2 -> Nat] /\ f \in [1..m + 2 -> Nat]
  <2>1. NextMessage(s, l, n) \in Nat /\ NextBlock(s, l, n) \in Nat
    BY NextIs, Zenon
  <2> QED
    BY <1>4, <1>5, <2>1, Zenon
<1>7. /\ e[m + 2] = NextMessage(s, l, n) /\ f[m + 2] = NextBlock(s, l, n)
      /\ \A j \in 1..m + 2 : j # m + 2 => e[j] = c[j] /\ f[j] = d[j]
  BY <1>5, Zenon
<1> HIDE DEF v, e, f
<1>8. ASSUME NEW j \in 1..m + 1
      PROVE  /\ At(s, e[j], f[j], v[j])
             /\ e[j + 1] = NextMessage(s, e[j], f[j]) /\ f[j + 1] = NextBlock(s, e[j], f[j])
  <2>1. CASE j = m + 1
    BY <1>1, <1>2, <1>3, <1>5, <1>7, <2>1, Zenon
  <2>2. CASE j # m + 1
    <3>1. j \in 1..m /\ e[j] = c[j] /\ f[j] = d[j] /\ e[j + 1] = c[j + 1] /\ f[j + 1] = d[j + 1]
      BY <1>5, <1>7, <1>8, <2>2, Zenon
    <3> QED
      BY <1>1, <1>2, <1>3, <3>1, Zenon DEF Stretch
  <2> QED
    BY <2>1, <2>2
<1>9. Stretch(s, v, e, f)
  BY <1>3, <1>5, <1>6, <1>8, Zenon DEF Stretch
<1>10. e[1] = k /\ f[1] = i
  BY <1>1, <1>5, <1>7, Zenon
<1>11. e[Len(v) + 1] = NextMessage(s, l, n) /\ f[Len(v) + 1] = NextBlock(s, l, n)
  BY <1>3, <1>5, <1>7, Zenon
<1>12. Leads(s, v, k, i, NextMessage(s, l, n), NextBlock(s, l, n))
  BY <1>9, <1>10, <1>11, Zenon DEF Leads
<1> QED
  BY <1>12, Zenon DEF v

(* The first block and those after it: what Read takes from the wire, and  *)
(* leaves.                                                                 *)
LEMMA LeadsAfter ==
    ASSUME NEW s, NEW w \in Seq(Block), w # <<>>, NEW k, NEW i, NEW l, NEW n, Leads(s, w, k, i, l, n)
    PROVE  /\ At(s, k, i, Head(w))
           /\ Leads(s, Tail(w), NextMessage(s, k, i), NextBlock(s, k, i), l, n)
<1>1. PICK c, d : Stretch(s, w, c, d) /\ c[1] = k /\ d[1] = i /\ c[Len(w) + 1] = l /\ d[Len(w) + 1] = n
  BY Zenon DEF Leads
<1>2. PICK m \in Nat : m + 1 = Len(w)
  <2>1. Len(w) - 1 \in Nat /\ (Len(w) - 1) + 1 = Len(w)
    BY SMT
  <2> QED
    BY <2>1, Zenon
<1> DEFINE v == Tail(w)
           e == [j \in 1..m + 1 |-> c[j + 1]]
           f == [j \in 1..m + 1 |-> d[j + 1]]
<1>3. Len(v) = m /\ (\A j \in 1..m : v[j] = w[j + 1]) /\ Head(w) = w[1]
  BY SMT, <1>2
<1>4. c \in [1..(m + 1) + 1 -> Nat] /\ d \in [1..(m + 1) + 1 -> Nat]
  BY <1>1, <1>2, Zenon DEF Stretch
<1>5. (\A j \in 1..m + 1 : j + 1 \in 1..(m + 1) + 1) /\ 1 \in 1..m + 1 /\ m + 1 \in 1..m + 1
      /\ (\A j \in 1..m : j + 1 \in 1..m + 1 /\ j \in 1..m + 1)
  BY SMT
<1>6. e \in [1..m + 1 -> Nat] /\ f \in [1..m + 1 -> Nat]
  BY <1>4, <1>5, Zenon
<1>7. \A j \in 1..m + 1 : e[j] = c[j + 1] /\ f[j] = d[j + 1]
  BY Zenon
<1> HIDE DEF v, e, f
<1>8. \A j \in 1..m + 1 : At(s, c[j], d[j], w[j]) /\ c[j + 1] = NextMessage(s, c[j], d[j])
                          /\ d[j + 1] = NextBlock(s, c[j], d[j])
  BY <1>1, <1>2, Zenon DEF Stretch
<1>9. Stretch(s, v, e, f)
  <2>1. ASSUME NEW j \in 1..m
        PROVE  /\ At(s, e[j], f[j], v[j])
             /\ e[j + 1] = NextMessage(s, e[j], f[j]) /\ f[j + 1] = NextBlock(s, e[j], f[j])
    <3>1. e[j] = c[j + 1] /\ f[j] = d[j + 1] /\ e[j + 1] = c[(j + 1) + 1] /\ f[j + 1] = d[(j + 1) + 1]
      BY <1>5, <1>7, Zenon
    <3> QED
      BY <1>3, <1>5, <1>8, <3>1, Zenon
  <2> QED
    BY <1>3, <1>6, <2>1, Zenon DEF Stretch
<1>10. At(s, k, i, Head(w)) /\ e[1] = NextMessage(s, k, i) /\ f[1] = NextBlock(s, k, i)
  BY <1>1, <1>3, <1>5, <1>7, <1>8, Zenon
<1>11. e[m + 1] = l /\ f[m + 1] = n
  <2>1. c[(m + 1) + 1] = l /\ d[(m + 1) + 1] = n
    BY <1>1, <1>2, Zenon
  <2> QED
    BY <1>5, <1>7, <2>1, Zenon
<1> QED
  BY <1>3, <1>9, <1>10, <1>11, Zenon DEF Leads, v

(* Another message that is sent moves no block.                            *)
LEMMA LeadsStill ==
    ASSUME NEW s \in Seq(Item), NEW x \in Item, NEW w, NEW k, NEW i, NEW l, NEW n,
           Leads(s, w, k, i, l, n)
    PROVE  Leads(Append(s, x), w, k, i, l, n)
<1>1. PICK c, d : Stretch(s, w, c, d) /\ c[1] = k /\ d[1] = i /\ c[Len(w) + 1] = l /\ d[Len(w) + 1] = n
  BY Zenon DEF Leads
<1>2. \A j \in 1..Len(s) : Append(s, x)[j] = s[j] /\ j \in 1..Len(Append(s, x))
  BY SMT
<1>3. \A j \in 1..Len(w) : c[j] \in 1..Len(s)
  BY <1>1, Zenon DEF Stretch, At
<1>4. \A j \in 1..Len(w) : Append(s, x)[c[j]] = s[c[j]] /\ c[j] \in 1..Len(Append(s, x))
  BY <1>2, <1>3, Zenon
<1>5. Stretch(Append(s, x), w, c, d)
  BY <1>1, <1>4, Zenon DEF Stretch, At, NextMessage, NextBlock
<1> QED
  BY <1>1, <1>5, Zenon DEF Leads

-------------------------------------------------------------------------------
(*****************************************************************************)
(* The session.                                                            *)
(*****************************************************************************)

(* The message whose turn it is at the Receiver.                           *)
Turn == Len(received) + 1

(* The Receiver has not ended.                                             *)
Active == phase \in {"header", "message", "decoded"}

(* The blocks b are the first of message k.                                *)
Cut(s, b, k) ==
    /\ k \in 1..Len(s)
    /\ Len(b) <= Len(PackOf(s[k]))
    /\ \A j \in 1..Len(b) : b[j] = PackOf(s[k])[j]

(* No block of the message is left on the wire.                            *)
AllRead(s, b, k) == phase = "decoded" \/ (phase = "message" /\ Len(b) >= Len(PackOf(s[k])))

(* The place of the block that the Receiver reads next.                    *)
ReadMessage == IF AllRead(sent, buffer, Turn) THEN Turn + 1 ELSE Turn
ReadBlock == IF AllRead(sent, buffer, Turn) THEN 1 ELSE Len(buffer) + 1

(* What was sent could be.                                                 *)
SentOK == sent \in Seq(Item) /\ \A k \in 1..Len(sent) : Sendable(sent[k])

(* The queue holds the packs of the last messages sent, and its front is   *)
(* not written to its end.                                                 *)
OutgoingOK ==
    /\ outgoing \in Seq(Seq(Block))
    /\ Len(outgoing) <= Len(sent)
    /\ \A j \in 1..Len(outgoing) : outgoing[j] = PackOf(sent[(Len(sent) - Len(outgoing)) + j])
    /\ written \in Nat
    /\ outgoing = <<>> => written = 0
    /\ outgoing # <<>> => written < Len(outgoing[1])

(* What is on the wire leads from the place that is read next to the place *)
(* that is written next, if the connection is not lost.                    *)
WireOK ==
    /\ wire \in Seq(Block)
    /\ Active => \E l, n \in Nat :
          /\ Leads(sent, wire, ReadMessage, ReadBlock, l, n)
          /\ connected => l = (Len(sent) - Len(outgoing)) + 1 /\ n = written + 1

(* What the Receiver has of a message is the beginning of the one whose    *)
(* turn it is.                                                             *)
ReceiverOK ==
    /\ phase \in {"header", "message", "decoded", "failed", "ended"}
    /\ connected \in BOOLEAN
    /\ phase \in {"failed", "ended"} => ~connected
    /\ buffer \in Seq(Block)
    /\ message \in Seq(Byte)
    /\ phase = "header" => /\ Len(buffer) <= 2 /\ message = <<>>
                           /\ buffer # <<>> => Cut(sent, buffer, Turn)
    /\ phase = "message" => /\ Len(buffer) >= 2
                            /\ Cut(sent, buffer, Turn)
                            /\ message = SubSeq(BytesOf(sent[Turn]), 1, 8)
    /\ phase = "decoded" => buffer = <<>> /\ Turn \in 1..Len(sent) /\ message = BytesOf(sent[Turn])

(* What was received was unpacked from bytes, in order.                    *)
ReceivedOK == received \in Seq({Unpack(b) : b \in Seq(Byte)}) /\ ReceivedInOrder

(* The inductive invariant: order and failures on the receiving side       *)
(* follow from what the queue, the wire and the buffers have in common.    *)
IInv == SentOK /\ OutgoingOK /\ WireOK /\ ReceiverOK /\ ReceivedOK /\ FailsOnlyAtOnes

(* Another message is sent: those before it keep their places.             *)
LEMMA Kept ==
    ASSUME NEW s \in Seq(Item), NEW x \in Item
    PROVE  /\ Append(s, x) \in Seq(Item) /\ Len(Append(s, x)) = Len(s) + 1 /\ Append(s, x)[Len(s) + 1] = x
           /\ \A k \in 1..Len(s) : Append(s, x)[k] = s[k] /\ k \in 1..Len(Append(s, x))
           /\ \A b, k : Cut(s, b, k) => Cut(Append(s, x), b, k)
<1>1. /\ Append(s, x) \in Seq(Item) /\ Len(Append(s, x)) = Len(s) + 1 /\ Append(s, x)[Len(s) + 1] = x
      /\ \A k \in 1..Len(s) : Append(s, x)[k] = s[k] /\ k \in 1..Len(Append(s, x))
  BY SMT
<1> QED
  BY <1>1, Zenon DEF Cut

(* A new session satisfies the invariant.                                  *)
LEMMA InitHolds == Init => IInv
<1> SUFFICES ASSUME Init PROVE IInv
  OBVIOUS
<1> USE DEF Init
<1>1. Len(<<>>) = 0 /\ 1..0 = {} /\ 0 + 1 = 1 /\ (0 - 0) + 1 = 1 /\ 1 \in Nat /\ 0 \in Nat /\ (\A T : <<>> \in Seq(T))
  BY SMT
<1>2. SentOK
  BY <1>1, Zenon DEF SentOK
<1>3. OutgoingOK
  <2>1. 0 <= 0 /\ ~(<<>> # <<>>)
    BY SMT
  <2> QED
    BY <1>1, <2>1, Zenon DEF OutgoingOK
<1>4. WireOK
  <2>1. Turn = 1
    BY <1>1, Zenon DEF Turn
  <2>2. "header" # "decoded" /\ "header" # "message"
    OBVIOUS
  <2>3. ReadMessage = 1 /\ ReadBlock = 1
    BY <1>1, <2>1, <2>2, Zenon DEF ReadMessage, ReadBlock, AllRead
  <2>4. Leads(sent, wire, 1, 1, 1, 1)
    BY <1>1, LeadsNowhere, Zenon
  <2> QED
    BY <1>1, <2>3, <2>4, Zenon DEF WireOK
<1>5. ReceiverOK
  BY SMT DEF ReceiverOK
<1>6. ReceivedOK
  <2>1. DOMAIN <<>> = {} /\ 0 <= 0
    BY SMT
  <2> QED
    BY <1>1, <2>1, Zenon DEF ReceivedOK, ReceivedInOrder
<1>7. FailsOnlyAtOnes
  <2>1. "header" # "failed"
    OBVIOUS
  <2> QED
    BY <2>1, Zenon DEF FailsOnlyAtOnes
<1> QED
  BY <1>2, <1>3, <1>4, <1>5, <1>6, <1>7 DEF IInv

(* ScheduleSend puts a pack at the end of the queue.                       *)
LEMMA ScheduleSendHolds ==
    ASSUME IInv, NEW m \in Message, NEW signature \in IF m.protocol = Application THEN Signature ELSE {<<>>},
           ScheduleSend(m, signature)
    PROVE  IInv'
<1> USE DEF IInv
<1>1. PICK x : x = [message |-> m, signature |-> signature]
  OBVIOUS
<1>2. x.message = m /\ x.signature = signature
  BY <1>1
<1>3. signature \in Seq(Byte) /\ Len(signature) = SignedSize(m)
  <2>1. CASE m.protocol = Application
    BY <2>1, StreamAssumption, Zenon DEF SignedSize
  <2>2. CASE m.protocol # Application
    <3>1. signature = <<>> /\ SignedSize(m) = 0
      BY <2>2, Zenon DEF SignedSize
    <3> QED
      BY <3>1, SMT
  <2> QED
    BY <2>1, <2>2
<1>4. x \in Item /\ Sendable(x)
  <2>1. x \in Item
    BY <1>1, <1>3 DEF Item
  <2> QED
    BY <1>2, <1>3, <2>1, Zenon DEF Sendable, ScheduleSend
<1>5. /\ connected /\ sent' = Append(sent, x) /\ outgoing' = Append(outgoing, PackOf(x))
      /\ UNCHANGED <<written, wire, connected, phase, buffer, message, received>>
  BY <1>1, <1>2, Zenon DEF ScheduleSend, PackOf
<1>6. sent \in Seq(Item) /\ outgoing \in Seq(Seq(Block)) /\ Len(outgoing) <= Len(sent)
  BY DEF SentOK, OutgoingOK
<1>7. PackOf(x) \in Seq(Block) /\ Len(PackOf(x)) \in Nat /\ Len(PackOf(x)) >= 3
  BY <1>4, PackOfIs, Zenon
<1>8. /\ sent' \in Seq(Item) /\ Len(sent') = Len(sent) + 1 /\ sent'[Len(sent) + 1] = x
      /\ \A k \in 1..Len(sent) : sent'[k] = sent[k] /\ k \in 1..Len(sent')
      /\ \A b, k : Cut(sent, b, k) => Cut(sent', b, k)
  BY <1>4, <1>5, <1>6, Kept, Zenon
<1>9. /\ outgoing' \in Seq(Seq(Block)) /\ Len(outgoing') = Len(outgoing) + 1
      /\ outgoing'[Len(outgoing) + 1] = PackOf(x)
      /\ \A k \in 1..Len(outgoing) : outgoing'[k] = outgoing[k]
  BY SMT, <1>5, <1>6, <1>7
<1>10. PICK a \in Nat, o \in Nat : a = Len(sent) /\ o = Len(outgoing) /\ o <= a
  BY <1>6, LenProperties
<1>11. Len(sent') - Len(outgoing') = Len(sent) - Len(outgoing)
  <2>1. (a + 1) - (o + 1) = a - o
    BY SMT
  <2> QED
    BY <1>8, <1>9, <1>10, <2>1, Zenon
<1>12. SentOK'
  <2>1. \A k \in 1..a + 1 : k \in 1..a \/ k = a + 1
    BY SMT
  <2> QED
    BY <1>4, <1>8, <1>10, <2>1, Zenon DEF SentOK
<1>13. OutgoingOK'
  <2>1. ASSUME NEW j \in 1..Len(outgoing')
        PROVE  outgoing'[j] = PackOf(sent'[(Len(sent') - Len(outgoing')) + j])
    <3>1. CASE j = o + 1
      <4>1. (a - o) + j = a + 1
        BY SMT, <3>1
      <4> QED
        BY <1>8, <1>9, <1>10, <1>11, <3>1, <4>1, Zenon
    <3>2. CASE j # o + 1
      <4>1. j \in 1..o + 1
        BY <1>9, <1>10
      <4>2. j \in 1..o /\ (a - o) + j \in 1..a
        BY SMT, <1>10, <3>2, <4>1
      <4>3. outgoing[j] = PackOf(sent[(Len(sent) - Len(outgoing)) + j])
        BY <1>10, <4>2, Zenon DEF OutgoingOK
      <4> QED
        BY <1>8, <1>9, <1>10, <1>11, <4>2, <4>3, Zenon
    <3> QED
      BY <3>1, <3>2
  <2>2. Len(outgoing') <= Len(sent')
    BY SMT, <1>8, <1>9, <1>10
  <2>3. outgoing' # <<>>
    <3>1. Len(outgoing') # 0
      BY SMT, <1>9, <1>10
    <3> QED
      BY <3>1, <1>9
  <2>4. written' < Len(outgoing'[1])
    <3>1. CASE outgoing = <<>>
      <4>1. Len(outgoing) = 0 /\ 0 + 1 = 1
        BY <3>1
      <4>2. outgoing'[1] = PackOf(x) /\ written' = 0
        BY <1>5, <1>9, <3>1, <4>1, Zenon DEF OutgoingOK
      <4> QED
        BY SMT, <1>7, <4>2
    <3>2. CASE outgoing # <<>>
      <4>1. 1 \in 1..Len(outgoing)
        BY <1>6, <3>2
      <4> QED
        BY <1>5, <1>9, <3>2, <4>1, Zenon DEF OutgoingOK
    <3> QED
      BY <3>1, <3>2
  <2>5. written' \in Nat
    BY <1>5 DEF OutgoingOK
  <2> QED
    BY <1>9, <2>1, <2>2, <2>3, <2>4, <2>5, Zenon DEF OutgoingOK
<1>14. Turn' = Turn /\ (Active' <=> Active)
  BY <1>5, Zenon DEF Turn, Active
<1>15. phase = "message" => sent'[Turn] = sent[Turn]
  BY <1>8, Zenon DEF ReceiverOK, Cut
<1>16. ReadMessage' = ReadMessage /\ ReadBlock' = ReadBlock
  BY <1>5, <1>14, <1>15, Zenon DEF ReadMessage, ReadBlock, AllRead
<1>17. WireOK'
  <2>1. ASSUME NEW l, NEW n, Leads(sent, wire, ReadMessage, ReadBlock, l, n)
        PROVE  Leads(sent', wire', ReadMessage', ReadBlock', l, n)
    BY <1>4, <1>5, <1>6, <1>16, <2>1, LeadsStill, Zenon
  <2> QED
    BY <1>5, <1>11, <1>14, <2>1, Zenon DEF WireOK
<1>18. ReceiverOK'
  <2>1. phase = "decoded" => Turn \in 1..Len(sent') /\ sent'[Turn] = sent[Turn]
    BY <1>8, Zenon DEF ReceiverOK
  <2> QED
    BY <1>5, <1>8, <1>14, <1>15, <2>1, Zenon DEF ReceiverOK
<1>19. ReceivedOK'
  <2>1. received \in Seq({Unpack(b) : b \in Seq(Byte)}) /\ Len(received) <= a
    BY <1>10 DEF ReceivedOK, ReceivedInOrder
  <2>2. PICK r \in Nat : r = Len(received) /\ DOMAIN received = 1..r /\ r <= a
    BY <2>1, LenProperties, Zenon
  <2>3. \A k \in DOMAIN received : k \in 1..a
    BY SMT, <2>2
  <2>4. \A k \in DOMAIN received : sent'[k] = sent[k]
    BY <1>8, <1>10, <2>3, Zenon
  <2>5. Len(received') <= Len(sent')
    BY SMT, <1>5, <1>8, <1>10, <2>2
  <2> QED
    BY <1>5, <2>1, <2>4, <2>5, Zenon DEF ReceivedOK, ReceivedInOrder
<1>20. FailsOnlyAtOnes'
  <2>1. phase' # "failed"
    BY <1>5 DEF ReceiverOK
  <2> QED
    BY <2>1, Zenon DEF FailsOnlyAtOnes
<1> QED
  BY <1>12, <1>13, <1>17, <1>18, <1>19, <1>20, Zenon

(* A step that neither sends nor receives keeps the histories, and what    *)
(* they promise.                                                           *)
LEMMA SameSession ==
    ASSUME IInv, UNCHANGED <<sent, received>>
    PROVE  /\ SentOK' /\ ReceivedOK' /\ Turn' = Turn
           /\ UNCHANGED phase => FailsOnlyAtOnes'
           /\ phase' # "failed" => FailsOnlyAtOnes'
BY Zenon DEF IInv, SentOK, ReceivedOK, ReceivedInOrder, FailsOnlyAtOnes, Turn

(* Dispatch writes the block that the wire lacks.                          *)
LEMMA DispatchHolds ==
    ASSUME IInv, Dispatch
    PROVE  IInv'
<1> USE DEF IInv
<1>1. /\ connected /\ outgoing # <<>> /\ wire' = Append(wire, Head(outgoing)[written + 1])
      /\ UNCHANGED <<connected, phase, buffer, message, sent, received>>
  BY DEF Dispatch
<1>2. outgoing \in Seq(Seq(Block)) /\ written \in Nat /\ Len(outgoing) <= Len(sent) /\ sent \in Seq(Item)
      /\ wire \in Seq(Block) /\ written < Len(outgoing[1])
  BY <1>1 DEF OutgoingOK, SentOK, WireOK
<1>3. PICK a \in Nat, o \in Nat : a = Len(sent) /\ o = Len(outgoing) /\ o <= a
  BY <1>2, LenProperties
<1>4. Head(outgoing) = outgoing[1] /\ o >= 1 /\ outgoing[1] \in Seq(Block)
  BY SMT, <1>1, <1>2, <1>3
<1>5. PICK pack \in Seq(Block) : pack = Head(outgoing)
  BY <1>4
<1>6. PICK k \in Nat : k = (a - o) + 1 /\ k \in 1..a
  <2>1. (a - o) + 1 \in Nat /\ (a - o) + 1 \in 1..a
    BY SMT, <1>3, <1>4
  <2> QED
    BY <2>1, Zenon
<1>7. pack = PackOf(sent[k])
  <2>1. 1 \in 1..o
    BY SMT, <1>4
  <2> QED
    BY <1>3, <1>4, <1>5, <1>6, <2>1, Zenon DEF OutgoingOK
<1>8. PICK size \in Nat : size = Len(pack)
  BY SMT
<1>9. written < size /\ written + 1 \in 1..size /\ written + 1 \in Nat
  <2>1. written < size
    BY <1>2, <1>4, <1>5, <1>8, Zenon
  <2> QED
    BY SMT, <1>2, <2>1
<1> DEFINE b == pack[written + 1]
<1>10. b \in Block
  BY <1>8, <1>9, ElementOfSeq, Zenon
<1>11. wire' = Append(wire, b) /\ At(sent, k, written + 1, b)
  BY <1>1, <1>3, <1>5, <1>6, <1>7, <1>8, <1>9, Zenon DEF At
<1> HIDE DEF b
<1>12. wire' \in Seq(Block)
  BY SMT, <1>2, <1>10, <1>11
<1>13. ReadMessage' = ReadMessage /\ ReadBlock' = ReadBlock /\ (Active' <=> Active) /\ Turn' = Turn
  BY <1>1, Zenon DEF ReadMessage, ReadBlock, AllRead, Active, Turn
<1>14. ASSUME Active
       PROVE  Leads(sent', wire', ReadMessage', ReadBlock',
                    NextMessage(sent, k, written + 1), NextBlock(sent, k, written + 1))
  <2>1. Leads(sent, wire, ReadMessage, ReadBlock, k, written + 1)
    <3>1. PICK l \in Nat, n \in Nat : /\ Leads(sent, wire, ReadMessage, ReadBlock, l, n)
                                      /\ l = (Len(sent) - Len(outgoing)) + 1 /\ n = written + 1
      BY <1>1, <1>14, Zenon DEF WireOK
    <3> QED
      BY <1>3, <1>6, <3>1, Zenon
  <2> QED
    BY <1>1, <1>2, <1>9, <1>10, <1>11, <1>13, <2>1, LeadsOn, Zenon
<1>15. OutgoingOK' /\ NextMessage(sent, k, written + 1) = (Len(sent') - Len(outgoing')) + 1
       /\ NextBlock(sent, k, written + 1) = written' + 1
  <2>1. CASE written + 1 = size
    <3>1. outgoing' = Tail(outgoing) /\ written' = 0
      BY <1>5, <1>8, <2>1 DEF Dispatch
    <3>2. /\ outgoing' \in Seq(Seq(Block)) /\ Len(outgoing') = o - 1
          /\ \A j \in 1..(o - 1) : outgoing'[j] = outgoing[1 + j]
      BY SMT, <1>1, <1>2, <1>3, <3>1
    <3>3. (a - (o - 1)) = (a - o) + 1 /\ o - 1 <= a /\ o - 1 \in Nat
      BY SMT, <1>3, <1>4
    <3>4. ASSUME NEW j \in 1..Len(outgoing')
          PROVE  outgoing'[j] = PackOf(sent'[(Len(sent') - Len(outgoing')) + j])
      <4>1. j \in 1..(o - 1)
        BY <3>2
      <4>2. 1 + j \in 1..o /\ ((a - o) + 1) + j = (a - o) + (1 + j)
        BY SMT, <1>3, <4>1
      <4>3. outgoing[1 + j] = PackOf(sent[(a - o) + (1 + j)])
        BY <1>3, <4>2, Zenon DEF OutgoingOK
      <4> QED
        BY <1>1, <1>3, <3>2, <3>3, <4>1, <4>2, <4>3, Zenon
    <3>5. outgoing' # <<>> => written' < Len(outgoing'[1])
      <4> SUFFICES ASSUME outgoing' # <<>> PROVE written' < Len(outgoing'[1])
        OBVIOUS
      <4>1. 1 \in 1..Len(outgoing')
        BY SMT, <3>2
      <4>2. outgoing'[1] = PackOf(sent[((a - o) + 1) + 1])
        <5>1. Len(sent') - Len(outgoing') = (a - o) + 1
          BY <1>1, <1>3, <3>2, <3>3, Zenon
        <5>2. outgoing'[1] = PackOf(sent'[(Len(sent') - Len(outgoing')) + 1])
          BY <3>4, <4>1, Zenon
        <5> QED
          BY <1>1, <5>1, <5>2, Zenon
      <4>3. ((a - o) + 1) + 1 \in 1..a
        BY SMT, <1>3, <3>2, <4>1
      <4>4. Len(outgoing'[1]) \in Nat /\ Len(outgoing'[1]) >= 3
        BY <1>3, <4>2, <4>3, PackOfIs, Zenon DEF SentOK
      <4> QED
        BY SMT, <3>1, <4>4
    <3>6. OutgoingOK'
      <4>1. Len(outgoing') <= Len(sent') /\ written' \in Nat /\ (outgoing' = <<>> => written' = 0)
        BY <1>1, <1>3, <3>1, <3>2, <3>3
      <4> QED
        BY <3>2, <3>4, <3>5, <4>1, Zenon DEF OutgoingOK
    <3>7. NextMessage(sent, k, written + 1) = k + 1 /\ NextBlock(sent, k, written + 1) = 1
      <4>1. ~(size < size)
        BY SMT
      <4> QED
        BY <1>7, <1>8, <2>1, <4>1, Zenon DEF NextMessage, NextBlock
    <3>8. 0 + 1 = 1
      BY SMT
    <3> QED
      BY <1>1, <1>3, <1>6, <3>1, <3>2, <3>3, <3>6, <3>7, <3>8, Zenon
  <2>2. CASE written + 1 # size
    <3>1. outgoing' = outgoing /\ written' = written + 1
      BY <1>5, <1>8, <2>2 DEF Dispatch
    <3>2. written + 1 < size
      BY SMT, <1>2, <1>9, <2>2
    <3>3. OutgoingOK'
      BY <1>1, <1>2, <1>4, <1>5, <1>8, <1>9, <3>1, <3>2, Zenon DEF OutgoingOK
    <3>4. NextMessage(sent, k, written + 1) = k /\ NextBlock(sent, k, written + 1) = (written + 1) + 1
      BY <1>7, <1>8, <3>2, Zenon DEF NextMessage, NextBlock
    <3> QED
      BY <1>1, <1>3, <1>6, <3>1, <3>3, <3>4, Zenon
  <2> QED
    BY <2>1, <2>2
<1>16. WireOK'
  <2>1. NextMessage(sent, k, written + 1) \in Nat /\ NextBlock(sent, k, written + 1) \in Nat
    BY <1>9, NextIs, Zenon
  <2> QED
    BY <1>12, <1>13, <1>14, <1>15, <2>1, Zenon DEF WireOK
<1>17. ReceiverOK'
  BY <1>1, <1>13, Zenon DEF ReceiverOK
<1> QED
  BY <1>1, <1>15, <1>16, <1>17, SameSession, Zenon

(* A lost connection leaves a beginning of what was on the wire.           *)
LEMMA DisconnectHolds ==
    ASSUME IInv, Disconnect
    PROVE  IInv'
<1> USE DEF IInv
<1>1. /\ connected /\ connected' = FALSE
      /\ UNCHANGED <<outgoing, written, phase, buffer, message, sent, received>>
  BY DEF Disconnect
<1>2. PICK x \in 0..Len(wire) : wire' = SubSeq(wire, 1, x)
  BY DEF Disconnect
<1>3. wire \in Seq(Block) /\ wire' \in Seq(Block)
  <2>1. wire \in Seq(Block)
    BY DEF WireOK
  <2> QED
    BY <1>2, <2>1, SMT
<1>4. ReadMessage' = ReadMessage /\ ReadBlock' = ReadBlock /\ (Active' <=> Active) /\ Turn' = Turn
  BY <1>1, Zenon DEF ReadMessage, ReadBlock, AllRead, Active, Turn
<1>5. WireOK'
  <2>1. ASSUME Active PROVE \E l, n \in Nat : Leads(sent, wire', ReadMessage, ReadBlock, l, n)
    <3>1. PICK l \in Nat, n \in Nat : Leads(sent, wire, ReadMessage, ReadBlock, l, n)
      BY <2>1, Zenon DEF WireOK
    <3> QED
      BY <1>2, <1>3, <3>1, LeadsPrefix, Zenon
  <2> QED
    BY <1>1, <1>3, <1>4, <2>1, Zenon DEF WireOK
<1>6. OutgoingOK'
  BY <1>1, Zenon DEF OutgoingOK
<1>7. ReceiverOK'
  BY <1>1, <1>4, Zenon DEF ReceiverOK
<1> QED
  BY <1>1, <1>5, <1>6, <1>7, SameSession, Zenon

(* The size announced to the Receiver is that of the pack whose header it  *)
(* has decoded, so that it stops reading at that pack's end.               *)
LEMMA Announced ==
    ASSUME IInv, phase = "message"
    PROVE  /\ Sendable(sent[Turn])
           /\ PeekSize(message) = 5 * Len(PackOf(sent[Turn]))
           /\ Filled <=> Len(buffer) >= Len(PackOf(sent[Turn]))
<1>1. Cut(sent, buffer, Turn) /\ message = SubSeq(BytesOf(sent[Turn]), 1, 8) /\ buffer \in Seq(Block)
  BY DEF IInv, ReceiverOK
<1>2. Sendable(sent[Turn])
  BY <1>1, Zenon DEF IInv, SentOK, Cut
<1>3. PICK count \in Nat : count = Len(PackOf(sent[Turn])) /\ count >= 3
  BY <1>2, PackOfIs, Zenon
<1>4. PICK bytes \in Seq(Byte) : bytes = BytesOf(sent[Turn]) /\ Len(bytes) = 4 * count
  BY <1>2, <1>3, PackOfIs, Zenon
<1>5. PeekSize(bytes) = 5 * count
  BY <1>2, <1>3, <1>4, PackOfIs, Zenon
<1>6. /\ SubSeq(bytes, 1, 8) \in Seq(Byte) /\ Len(SubSeq(bytes, 1, 8)) = 8
      /\ \A k \in 1..8 : SubSeq(bytes, 1, 8)[k] = bytes[k]
      /\ Len(bytes) >= 8
  BY SMT, <1>3, <1>4
<1>7. PeekSize(message) = 5 * count
  <2>1. 8 >= 8
    OBVIOUS
  <2>2. PeekSize(SubSeq(bytes, 1, 8)) = PeekSize(bytes)
    BY <1>6, <2>1, PeekSame, Zenon
  <2> QED
    BY <1>1, <1>4, <1>5, <2>2, Zenon
<1>8. PICK b \in Nat : b = Len(buffer)
  BY <1>1, LenProperties, Zenon
<1>9. (5 * b >= 5 * count) <=> b >= count
  BY SMT
<1>10. "message" # "header"
  OBVIOUS
<1> QED
  BY <1>2, <1>3, <1>7, <1>8, <1>9, <1>10, Zenon DEF Filled, EncodedBlockSize

(* Read takes the block that the buffer lacks.                             *)
LEMMA ReadHolds ==
    ASSUME IInv, Read
    PROVE  IInv'
<1> USE DEF IInv
<1>1. /\ phase \in {"header", "message"} /\ ~Filled /\ wire # <<>>
      /\ buffer' = Append(buffer, Head(wire)) /\ wire' = Tail(wire)
      /\ UNCHANGED <<outgoing, written, connected, phase, message, sent, received>>
  BY DEF Read
<1>2. wire \in Seq(Block) /\ buffer \in Seq(Block) /\ Active
  BY <1>1 DEF WireOK, ReceiverOK, Active
<1>3. PICK b \in Nat : b = Len(buffer)
  BY <1>2, LenProperties, Zenon
<1>4. Head(wire) \in Block /\ wire' \in Seq(Block) /\ buffer' \in Seq(Block) /\ Len(buffer') = b + 1
      /\ buffer'[b + 1] = Head(wire) /\ \A j \in 1..b : buffer'[j] = buffer[j]
  BY SMT, <1>1, <1>2, <1>3
<1>5. ~AllRead(sent, buffer, Turn) /\ (phase = "header" => b < 2)
  <2>1. CASE phase = "header"
    <3>1. b # 2 /\ b <= 2
      BY <1>1, <1>3, <2>1, HeaderBlocksIs DEF Filled, ReceiverOK
    <3>2. b < 2
      BY SMT, <3>1
    <3> QED
      BY <2>1, <3>2 DEF AllRead
  <2>2. CASE phase = "message"
    <3>1. ~(Len(buffer) >= Len(PackOf(sent[Turn])))
      BY <1>1, <2>2, Announced, Zenon
    <3>2. phase # "decoded" /\ phase # "header"
      BY <2>2
    <3> QED
      BY <3>1, <3>2, Zenon DEF AllRead
  <2> QED
    BY <1>1, <2>1, <2>2
<1>6. ReadMessage = Turn /\ ReadBlock = b + 1
  BY <1>3, <1>5, Zenon DEF ReadMessage, ReadBlock
<1>7. PICK l \in Nat, n \in Nat : /\ Leads(sent, wire, Turn, b + 1, l, n)
                                  /\ connected => l = (Len(sent) - Len(outgoing)) + 1 /\ n = written + 1
  BY <1>2, <1>6, Zenon DEF WireOK
<1>8. At(sent, Turn, b + 1, Head(wire))
      /\ Leads(sent, wire', NextMessage(sent, Turn, b + 1), NextBlock(sent, Turn, b + 1), l, n)
  BY <1>1, <1>2, <1>7, LeadsAfter, Zenon
<1>9. Turn \in 1..Len(sent) /\ Sendable(sent[Turn])
  BY <1>8, Zenon DEF At, SentOK
<1>10. PICK count \in Nat : count = Len(PackOf(sent[Turn])) /\ count >= 3
  BY <1>9, PackOfIs, Zenon
<1>11. b + 1 <= count /\ Head(wire) = PackOf(sent[Turn])[b + 1]
  BY <1>3, <1>8, <1>10 DEF At
<1>12. Turn' = Turn /\ (Active' <=> Active)
  BY <1>1, Zenon DEF Turn, Active
<1>13. \A j \in 1..b : buffer[j] = PackOf(sent[Turn])[j]
  <2>1. CASE buffer = <<>>
    <3>1. b = 0
      BY <1>3, <2>1
    <3> QED
      BY <3>1
  <2>2. CASE buffer # <<>>
    <3>1. Cut(sent, buffer, Turn)
      BY <1>1, <2>2 DEF ReceiverOK
    <3> QED
      BY <1>3, <3>1, Zenon DEF Cut
  <2> QED
    BY <2>1, <2>2
<1>14. Cut(sent', buffer', Turn')
  <2>1. ASSUME NEW j \in 1..Len(buffer') PROVE buffer'[j] = PackOf(sent[Turn])[j]
    <3>1. j \in 1..b \/ j = b + 1
      BY SMT, <1>4
    <3> QED
      BY <1>4, <1>11, <1>13, <3>1, Zenon
  <2>2. Len(buffer') <= Len(PackOf(sent[Turn]))
    BY <1>4, <1>10, <1>11
  <2> QED
    BY <1>1, <1>9, <1>12, <2>1, <2>2, Zenon DEF Cut
<1>15. ReadMessage' = NextMessage(sent, Turn, b + 1) /\ ReadBlock' = NextBlock(sent, Turn, b + 1)
  <2>1. CASE b + 1 < count
    <3>1. ~(b + 1 >= count)
      BY SMT, <2>1
    <3>2. phase' # "decoded"
      BY <1>1
    <3>3. ~AllRead(sent, buffer, Turn)'
      BY <1>1, <1>4, <1>10, <1>12, <3>1, <3>2, Zenon DEF AllRead
    <3>4. ReadMessage' = Turn /\ ReadBlock' = (b + 1) + 1
      BY <1>4, <1>12, <3>3, Zenon DEF ReadMessage, ReadBlock
    <3> QED
      BY <1>10, <2>1, <3>4, Zenon DEF NextMessage, NextBlock
  <2>2. CASE ~(b + 1 < count)
    <3>1. b + 1 >= count /\ b >= 2
      BY SMT, <1>10, <2>2
    <3>2. phase' = "message"
      <4>1. ~(b < 2)
        BY SMT, <3>1
      <4> QED
        BY <1>1, <1>5, <4>1
    <3>3. AllRead(sent, buffer, Turn)'
      BY <1>1, <1>4, <1>10, <1>12, <3>1, <3>2, Zenon DEF AllRead
    <3>4. ReadMessage' = Turn + 1 /\ ReadBlock' = 1
      BY <1>12, <3>3, Zenon DEF ReadMessage, ReadBlock
    <3> QED
      BY <1>10, <2>2, <3>4, Zenon DEF NextMessage, NextBlock
  <2> QED
    BY <2>1, <2>2
<1>16. WireOK'
  BY <1>1, <1>4, <1>7, <1>8, <1>15, Zenon DEF WireOK
<1>17. OutgoingOK'
  BY <1>1, Zenon DEF OutgoingOK
<1>18. ReceiverOK'
  <2>1. phase = "header" => Len(buffer') <= 2
    BY SMT, <1>4, <1>5
  <2>2. phase = "message" => Len(buffer') >= 2
    <3> SUFFICES ASSUME phase = "message" PROVE Len(buffer') >= 2
      OBVIOUS
    <3>1. b >= 2
      BY <1>3 DEF ReceiverOK
    <3> QED
      BY SMT, <1>4, <3>1
  <2>3. phase # "decoded"
    BY <1>1
  <2> QED
    BY <1>1, <1>4, <1>12, <1>14, <2>1, <2>2, <2>3, Zenon DEF ReceiverOK
<1> QED
  BY <1>1, <1>16, <1>17, <1>18, SameSession, Zenon

(* ReceiveFixedHeaderData decodes the first eight bytes.                   *)
LEMMA ReceiveFixedHeaderDataHolds ==
    ASSUME IInv, ReceiveFixedHeaderData
    PROVE  IInv'
<1> USE DEF IInv
<1>1. /\ phase = "header" /\ Filled /\ message' = Decode(buffer) /\ phase' = "message"
      /\ UNCHANGED <<outgoing, written, wire, connected, buffer, sent, received>>
  BY DEF ReceiveFixedHeaderData
<1>2. buffer \in Seq(Block) /\ Len(buffer) = 2
  BY <1>1, HeaderBlocksIs DEF ReceiverOK, Filled
<1>3. Cut(sent, buffer, Turn) /\ Sendable(sent[Turn])
  <2>1. buffer # <<>>
    BY <1>2
  <2> QED
    BY <1>1, <2>1, Zenon DEF ReceiverOK, SentOK, Cut
<1>4. PICK count \in Nat : count = Len(PackOf(sent[Turn])) /\ count >= 3
  BY <1>3, PackOfIs, Zenon
<1>5. PICK bytes \in Seq(Byte) : bytes = BytesOf(sent[Turn])
  BY <1>3, PackOfIs, Zenon
<1>6. message' = SubSeq(BytesOf(sent[Turn]), 1, 8)
  <2>1. \A j \in 1..2 : buffer[j] = PackOf(sent[Turn])[j]
    BY <1>2, <1>3, Zenon DEF Cut
  <2> QED
    BY <1>1, <1>2, <1>3, <2>1, HeaderIsDecoded, Zenon
<1>7. message' \in Seq(Byte)
  <2>1. Len(bytes) >= 8
    <3>1. Len(bytes) = 4 * count
      BY <1>3, <1>4, <1>5, PackOfIs, Zenon
    <3> QED
      BY SMT, <1>4, <3>1
  <2>2. SubSeq(bytes, 1, 8) \in Seq(Byte)
    BY SMT, <2>1
  <2> QED
    BY <1>5, <1>6, <2>2, Zenon
<1>8. Turn' = Turn /\ Active
  BY <1>1, Zenon DEF Turn, Active
<1>9. ~AllRead(sent, buffer, Turn) /\ ~AllRead(sent, buffer, Turn)'
  <2>1. ~(2 >= count)
    BY SMT, <1>4
  <2>2. phase' # "decoded" /\ phase # "decoded" /\ phase # "message"
    BY <1>1
  <2> QED
    BY <1>1, <1>2, <1>4, <1>8, <2>1, <2>2, Zenon DEF AllRead
<1>10. ReadMessage' = ReadMessage /\ ReadBlock' = ReadBlock
  BY <1>1, <1>8, <1>9, Zenon DEF ReadMessage, ReadBlock
<1>11. WireOK'
  BY <1>1, <1>8, <1>10, Zenon DEF WireOK
<1>12. OutgoingOK'
  BY <1>1, Zenon DEF OutgoingOK
<1>13. ReceiverOK'
  <2>1. 2 >= 2 /\ "message" # "header" /\ "message" # "decoded" /\ "message" # "failed" /\ "message" # "ended"
    BY SMT
  <2>2. Cut(sent', buffer', Turn')
    BY <1>1, <1>3, <1>8, Zenon
  <2>3. phase' \in {"header", "message", "decoded", "failed", "ended"} /\ phase' \notin {"failed", "ended"}
    BY <1>1
  <2> QED
    BY <1>1, <1>2, <1>6, <1>7, <1>8, <2>1, <2>2, <2>3, Zenon DEF ReceiverOK
<1>14. phase' # "failed"
  BY <1>1
<1> QED
  BY <1>1, <1>11, <1>12, <1>13, <1>14, SameSession, Zenon

(* What is left of a buffer that holds all of a message.                   *)
LEMMA RestIs ==
    ASSUME IInv, phase = "message", Filled
    PROVE  /\ Cut(sent, buffer, Turn) /\ Sendable(sent[Turn])
           /\ Len(buffer) = Len(PackOf(sent[Turn]))
           /\ Rest \in Seq(Block) /\ Len(Rest) = Len(PackOf(sent[Turn])) - 2 /\ Rest # <<>>
           /\ \A j \in 1..Len(Rest) :
                 Rest[j] = PackOf(sent[Turn])[2 + j] /\ 2 + j \in 1..Len(PackOf(sent[Turn]))
<1>1. Cut(sent, buffer, Turn) /\ Sendable(sent[Turn]) /\ buffer \in Seq(Block)
  BY Announced, Zenon DEF IInv, ReceiverOK
<1>2. PICK count \in Nat : count = Len(PackOf(sent[Turn])) /\ count >= 3
  BY <1>1, PackOfIs, Zenon
<1>3. PICK b \in Nat : b = Len(buffer)
  BY <1>1, LenProperties, Zenon
<1>4. b >= count /\ b <= count
  BY <1>1, <1>2, <1>3, Announced, Zenon DEF Cut
<1>5. b = count
  BY SMT, <1>4
<1>6. Rest = SubSeq(buffer, 2 + 1, b)
  BY <1>3, HeaderBlocksIs DEF Rest
<1>7. /\ Rest \in Seq(Block) /\ Len(Rest) = b - 2 /\ \A j \in 1..b - 2 : Rest[j] = buffer[2 + j]
  <2>1. PICK v \in Seq(Block) : v = buffer
    BY <1>1
  <2>2. Len(v) = b /\ b >= 3
    BY <1>2, <1>3, <1>5, <2>1
  <2>3. 3 \in 1..b /\ b \in 1..b /\ 2 + 1 = 3
    BY SMT, <2>2
  <2>4. \A i \in 3..b : v[i] \in Block
    BY SMT, <2>2
  <2>5. /\ SubSeq(v, 3, b) \in Seq(Block) /\ Len(SubSeq(v, 3, b)) = IF 3 <= b THEN b - 3 + 1 ELSE 0
        /\ \A j \in 1..b - 3 + 1 : SubSeq(v, 3, b)[j] = v[3 + j - 1]
    <3>1. 3 \in Int /\ b \in Int
      OBVIOUS
    <3> QED
      BY <2>2, <2>4, <3>1, SMT
  <2>6. (b - 3) + 1 = b - 2 /\ b - 3 + 1 = b - 2 /\ \A j \in 1..b - 2 : 3 + j - 1 = 2 + j
    BY SMT
  <2> QED
    BY <1>6, <2>1, <2>2, <2>3, <2>5, <2>6, SMT
<1>8. \A j \in 1..b - 2 : 2 + j \in 1..b
  BY SMT
<1>9. Rest # <<>>
  BY SMT, <1>2, <1>5, <1>7
<1> QED
  BY <1>1, <1>2, <1>3, <1>5, <1>7, <1>8, <1>9, Zenon DEF Cut

(* ReceiveMessage decodes the rest of the message.                         *)
LEMMA ReceiveMessageHolds ==
    ASSUME IInv, ReceiveMessage
    PROVE  IInv'
<1> USE DEF IInv
<1>1. /\ phase = "message" /\ Filled /\ message' = message \o Decode(Rest)
      /\ buffer' = <<>> /\ phase' = "decoded"
      /\ UNCHANGED <<outgoing, written, wire, connected, sent, received>>
  BY DEF ReceiveMessage
<1>2. /\ Cut(sent, buffer, Turn) /\ Sendable(sent[Turn])
      /\ Len(buffer) = Len(PackOf(sent[Turn]))
      /\ Rest \in Seq(Block) /\ Len(Rest) = Len(PackOf(sent[Turn])) - 2
      /\ \A j \in 1..Len(Rest) : Rest[j] = PackOf(sent[Turn])[2 + j]
  BY <1>1, RestIs, Zenon
<1>3. message = SubSeq(BytesOf(sent[Turn]), 1, 8)
  BY <1>1 DEF ReceiverOK
<1>4. message' = BytesOf(sent[Turn])
  BY <1>1, <1>2, <1>3, RestIsDecoded, Zenon
<1>5. BytesOf(sent[Turn]) \in Seq(Byte)
  BY <1>2, PackOfIs, Zenon
<1>6. Turn' = Turn /\ Active
  BY <1>1, Zenon DEF Turn, Active
<1>7. AllRead(sent, buffer, Turn) /\ AllRead(sent, buffer, Turn)'
  <2>1. Len(PackOf(sent[Turn])) >= Len(PackOf(sent[Turn]))
    <3>1. Len(PackOf(sent[Turn])) \in Nat
      BY <1>2, PackOfIs, Zenon
    <3> QED
      BY SMT, <3>1
  <2> QED
    BY <1>1, <1>2, <2>1, Zenon DEF AllRead
<1>8. ReadMessage' = ReadMessage /\ ReadBlock' = ReadBlock
  BY <1>6, <1>7, Zenon DEF ReadMessage, ReadBlock
<1>9. WireOK'
  BY <1>1, <1>6, <1>8, Zenon DEF WireOK
<1>10. OutgoingOK'
  BY <1>1, Zenon DEF OutgoingOK
<1>11. ReceiverOK'
  <2>1. phase' \in {"header", "message", "decoded", "failed", "ended"} /\ phase' \notin {"failed", "ended"}
        /\ phase' # "header" /\ phase' # "message" /\ buffer' \in Seq(Block)
    BY <1>1
  <2> QED
    BY <1>1, <1>2, <1>4, <1>5, <1>6, <2>1, Zenon DEF ReceiverOK, Cut
<1>12. phase' # "failed"
  BY <1>1
<1> QED
  BY <1>1, <1>9, <1>10, <1>11, <1>12, SameSession, Zenon

(* A message that has been decoded is always accepted, and unpacked as it  *)
(* was sent.                                                               *)
LEMMA Accepted ==
    ASSUME IInv, phase = "decoded"
    PROVE  /\ Turn \in 1..Len(sent)
           /\ ValidatedBuild = {Unpack(message)} /\ message \in Seq(Byte)
           /\ \/ Unpack(message) = sent[Turn].message
              \/ /\ Overrun(sent[Turn])
                 /\ [Unpack(message) EXCEPT !.tracker = sent[Turn].message.tracker] = sent[Turn].message
<1>1. Turn \in 1..Len(sent) /\ message = BytesOf(sent[Turn]) /\ message \in Seq(Byte)
  BY DEF IInv, ReceiverOK
<1>2. sent \in Seq(Item) /\ Sendable(sent[Turn])
  BY <1>1, Zenon DEF IInv, SentOK
<1>3. PICK x : x = sent[Turn]
  OBVIOUS
<1>4. x.message \in Message /\ x.signature \in Seq(Byte) /\ Valid(x.message)
      /\ Len(x.signature) = SignedSize(x.message)
  BY SMT, <1>2, <1>3 DEF Sendable, Item
<1>5. message = PackedBytes(x.message, x.signature)
  BY <1>1, <1>3 DEF BytesOf
<1>6. /\ PeekSource(message) /\ ParseBuffer(message).parsed /\ ParseBuffer(message).next <= Len(message)
      /\ Valid(Unpack(message))
      /\ \/ Unpack(message) = x.message
         \/ /\ x.message.protocol = Application /\ x.message.tracker # NoTracker
            /\ PaddingBytes(Len(PackFields(x.message))) = 0 /\ x.signature[1] = AwaitTracker
            /\ [Unpack(message) EXCEPT !.tracker = x.message.tracker] = x.message
  <2>1. PICK m \in Message : m = x.message
    BY <1>4
  <2>2. PICK g \in Seq(Byte) : g = x.signature
    BY <1>4
  <2>3. PICK y : y = message
    OBVIOUS
  <2>4. Valid(m) /\ Len(g) = SignedSize(m) /\ y = PackedBytes(m, g)
    BY <1>4, <1>5, <2>1, <2>2, <2>3
  <2>5. PeekSource(y) /\ ParseBuffer(y).parsed /\ ParseBuffer(y).next <= Len(y) /\ Valid(Unpack(y))
    BY <2>4, UnpackedIs, Zenon
  <2>6. \/ Unpack(y) = m
        \/ /\ m.protocol = Application /\ m.tracker # NoTracker
           /\ PaddingBytes(Len(PackFields(m))) = 0 /\ g[1] = AwaitTracker
           /\ [Unpack(y) EXCEPT !.tracker = m.tracker] = m
    BY <2>4, UnpackedIs, SMT
  <2> QED
    BY <2>1, <2>2, <2>3, <2>5, <2>6
<1>7. Verify
  <2>1. Turn \in DOMAIN sent
    BY <1>1, <1>2, LenProperties, Zenon
  <2> QED
    BY <1>3, <1>5, <2>1, Zenon DEF Verify
<1>8. ValidatedBuild = {Unpack(message)}
  BY <1>6, <1>7, Zenon DEF ValidatedBuild
<1> QED
  BY <1>1, <1>3, <1>6, <1>8, Zenon DEF Overrun

(* OnMessageReceived adds the message whose turn it is.                    *)
LEMMA OnMessageReceivedHolds ==
    ASSUME IInv, OnMessageReceived
    PROVE  IInv'
<1> USE DEF IInv
<1>1. /\ phase = "decoded" /\ received' = Append(received, Unpack(message))
      /\ message' = <<>> /\ phase' = "header"
      /\ UNCHANGED <<outgoing, written, wire, connected, buffer, sent>>
  <2>1. /\ phase = "decoded" /\ message' = <<>> /\ phase' = "header"
        /\ UNCHANGED <<outgoing, written, wire, connected, buffer, sent>>
    BY DEF OnMessageReceived
  <2>2. received' = Append(received, Unpack(message))
    BY <2>1, Accepted, Zenon DEF OnMessageReceived
  <2> QED
    BY <2>1, <2>2
<1>2. buffer = <<>> /\ Turn \in 1..Len(sent)
  BY <1>1 DEF ReceiverOK
<1> DEFINE Unpacked == {Unpack(b) : b \in Seq(Byte)}
<1>3. received \in Seq(Unpacked) /\ Unpack(message) \in Unpacked
  BY <1>1, Accepted, Zenon DEF ReceivedOK
<1> HIDE DEF Unpacked
<1>4. PICK r \in Nat : r = Len(received) /\ DOMAIN received = 1..r
  BY <1>3, LenProperties, Zenon
<1>5. PICK m \in Unpacked : m = Unpack(message)
  BY <1>3
<1>6. received' \in Seq(Unpacked) /\ Len(received') = r + 1 /\ received'[r + 1] = Unpack(message)
      /\ DOMAIN received' = 1..r + 1 /\ \A k \in 1..r : received'[k] = received[k]
  BY SMT, <1>1, <1>3, <1>4, <1>5
<1>7. Turn = r + 1 /\ Turn' = (r + 1) + 1
  BY <1>4, <1>6 DEF Turn
<1>8. SentOK'
  BY <1>1, Zenon DEF SentOK
<1>9. ReceivedOK'
  <2>1. Len(received') <= Len(sent')
    <3>1. PICK a \in Nat : a = Len(sent)
      BY LenProperties, Zenon DEF SentOK
    <3>2. r + 1 <= a
      BY <1>2, <1>7, <3>1
    <3> QED
      BY <1>1, <1>6, <3>1, <3>2
  <2>2. ASSUME NEW k \in DOMAIN received'
        PROVE  \/ received'[k] = sent'[k].message
               \/ /\ Overrun(sent'[k])
                  /\ [received'[k] EXCEPT !.tracker = sent'[k].message.tracker] = sent'[k].message
    <3>1. CASE k = r + 1
      BY <1>1, <1>6, <1>7, <3>1, Accepted, Zenon
    <3>2. CASE k # r + 1
      <4>1. k \in 1..r
        BY SMT, <1>6, <3>2
      <4> QED
        BY <1>1, <1>4, <1>6, <4>1, Zenon DEF ReceivedOK, ReceivedInOrder
    <3> QED
      BY <3>1, <3>2
  <2> QED
    BY <1>6, <2>1, <2>2, Zenon DEF ReceivedOK, ReceivedInOrder, Unpacked
<1>10. Len(buffer) = 0 /\ 0 + 1 = 1
  BY <1>2
<1>11. ReadMessage = Turn + 1 /\ ReadBlock = 1
  BY <1>1, Zenon DEF ReadMessage, ReadBlock, AllRead
<1>12. ReadMessage' = Turn + 1 /\ ReadBlock' = 1
  <2>1. phase' # "decoded" /\ phase' # "message"
    BY <1>1
  <2>2. ~AllRead(sent, buffer, Turn)'
    BY <2>1, Zenon DEF AllRead
  <2> QED
    BY <1>1, <1>7, <1>10, <2>2, Zenon DEF ReadMessage, ReadBlock
<1>13. WireOK'
  BY <1>1, <1>11, <1>12, Zenon DEF WireOK, Active
<1>14. OutgoingOK'
  BY <1>1, Zenon DEF OutgoingOK
<1>15. ReceiverOK'
  <2>1. phase' \in {"header", "message", "decoded", "failed", "ended"} /\ phase' \notin {"failed", "ended"}
        /\ phase' # "decoded" /\ phase' # "message" /\ Len(buffer') <= 2 /\ message' \in Seq(Byte)
    BY <1>1, <1>10
  <2> QED
    BY <1>1, <1>2, <2>1, Zenon DEF ReceiverOK
<1>16. FailsOnlyAtOnes'
  <2>1. phase' # "failed"
    BY <1>1
  <2> QED
    BY <2>1, Zenon DEF FailsOnlyAtOnes
<1> QED
  BY <1>8, <1>9, <1>13, <1>14, <1>15, <1>16, Zenon

(* OnSessionError happens only where a block could not be decoded.         *)
LEMMA OnSessionErrorHolds ==
    ASSUME IInv, OnSessionError
    PROVE  IInv'
<1> USE DEF IInv
<1>1. /\ phase \in {"header", "message", "decoded"} /\ (Filled \/ phase = "decoded") /\ ~Receivable
      /\ phase' = "failed" /\ connected' = FALSE
      /\ UNCHANGED <<outgoing, written, wire, buffer, message, sent, received>>
  BY DEF OnSessionError
<1>2. \E k \in 1..Len(BytesOf(sent[Turn])) \div DecodedBlockSize :
         SubSeq(BytesOf(sent[Turn]), 4 * k - 3, 4 * k) = Ones
  <2>1. CASE phase = "header"
    <3>1. Filled /\ ~CanDecode(buffer)
      BY <1>1, <2>1 DEF Receivable
    <3>2. Len(buffer) = 2 /\ buffer \in Seq(Block)
      BY <2>1, <3>1, HeaderBlocksIs DEF Filled, ReceiverOK
    <3>3. buffer # <<>>
      BY <3>2
    <3>4. Cut(sent, buffer, Turn) /\ Sendable(sent[Turn])
      BY <2>1, <3>3, Zenon DEF ReceiverOK, SentOK, Cut
    <3>5. PICK j \in 1..Len(buffer) : ~Decodable(buffer[j])
      <4>1. DOMAIN buffer = 1..Len(buffer)
        BY <3>2, LenProperties, Zenon
      <4> QED
        BY <3>1, <3>3, <4>1, Zenon DEF CanDecode
    <3>6. j \in 1..Len(PackOf(sent[Turn]))
      <4>1. PICK count \in Nat : count = Len(PackOf(sent[Turn])) /\ count >= 3
        BY <3>4, PackOfIs, Zenon
      <4>2. j \in 1..count
        BY SMT, <3>2, <4>1
      <4> QED
        BY <4>1, <4>2, Zenon
    <3>7. ~Decodable(PackOf(sent[Turn])[j])
      BY <3>4, <3>5, Zenon DEF Cut
    <3> QED
      BY <3>4, <3>6, <3>7, AtOnes, Zenon
  <2>2. CASE phase = "message"
    <3>1. Filled
      BY <1>1, <2>2
    <3>2. /\ Sendable(sent[Turn]) /\ Rest \in Seq(Block) /\ Rest # <<>>
          /\ \A j \in 1..Len(Rest) :
                 Rest[j] = PackOf(sent[Turn])[2 + j] /\ 2 + j \in 1..Len(PackOf(sent[Turn]))
      BY <2>2, <3>1, RestIs, Zenon
    <3>3. PICK count \in Nat : count = Len(PackOf(sent[Turn])) /\ count >= 3
      BY <3>2, PackOfIs, Zenon
    <3>4. PeekSize(message) = 5 * count
      BY <2>2, <3>3, Announced, Zenon
    <3>5. 5 * count >= 5 * 2
      BY SMT, <3>3
    <3>6. PeekSize(message) >= EncodedBlockSize * HeaderBlocks
      BY <3>4, <3>5, HeaderBlocksIs, Zenon DEF EncodedBlockSize
    <3>7. Receivable <=> (PeekSize(message) >= EncodedBlockSize * HeaderBlocks /\ CanDecode(Rest))
      BY <2>2 DEF Receivable
    <3>8. PICK j \in 1..Len(Rest) : ~Decodable(Rest[j])
      <4>1. DOMAIN Rest = 1..Len(Rest)
        BY <3>2, LenProperties, Zenon
      <4> QED
        BY <1>1, <3>2, <3>6, <3>7, <4>1, Zenon DEF CanDecode
    <3>9. 2 + j \in 1..Len(PackOf(sent[Turn])) /\ ~Decodable(PackOf(sent[Turn])[2 + j])
      BY <3>2, <3>8, Zenon
    <3> QED
      BY <3>2, <3>9, AtOnes, Zenon
  <2>3. CASE phase = "decoded"
    <3>1. ValidatedBuild # {}
      BY <2>3, Accepted, Zenon
    <3>2. Receivable <=> ValidatedBuild # {}
      BY <2>3 DEF Receivable
    <3> QED
      BY <1>1, <3>1, <3>2
  <2> QED
    BY <1>1, <2>1, <2>2, <2>3
<1>3. SentOK' /\ ReceivedOK' /\ Turn' = Turn
  BY <1>1, SameSession, Zenon
<1>4. FailsOnlyAtOnes'
  BY <1>1, <1>2, Zenon DEF FailsOnlyAtOnes, BytesOf, Turn
<1>5. phase' \in {"header", "message", "decoded", "failed", "ended"}
      /\ phase' # "header" /\ phase' # "message" /\ phase' # "decoded"
  BY <1>1
<1>6. WireOK' /\ OutgoingOK' /\ ReceiverOK'
  <2>1. ~Active'
    BY <1>5 DEF Active
  <2> QED
    BY <1>1, <1>5, <2>1, Zenon DEF WireOK, OutgoingOK, ReceiverOK
<1> QED
  BY <1>3, <1>4, <1>6, Zenon

(* EndOfStream happens only after the connection was closed.               *)
LEMMA EndOfStreamHolds ==
    ASSUME IInv, EndOfStream
    PROVE  IInv'
<1> USE DEF IInv
<1>1. /\ ~connected /\ phase' = "ended"
      /\ UNCHANGED <<outgoing, written, wire, connected, buffer, message, sent, received>>
  BY DEF EndOfStream
<1>2. phase' \in {"header", "message", "decoded", "failed", "ended"}
      /\ phase' # "header" /\ phase' # "message" /\ phase' # "decoded" /\ phase' # "failed"
  BY <1>1
<1>3. WireOK' /\ OutgoingOK' /\ ReceiverOK'
  <2>1. ~Active'
    BY <1>2 DEF Active
  <2> QED
    BY <1>1, <1>2, <2>1, Zenon DEF WireOK, OutgoingOK, ReceiverOK
<1> QED
  BY <1>1, <1>2, <1>3, SameSession, Zenon

(* Nothing happens.                                                        *)
LEMMA StutterHolds ==
    ASSUME IInv, UNCHANGED vars
    PROVE  IInv'
<1> USE DEF IInv
<1>1. UNCHANGED <<outgoing, written, wire, connected, phase, buffer, message, sent, received>>
  BY DEF vars
<1>2. WireOK' /\ OutgoingOK' /\ ReceiverOK'
  <2>1. Turn' = Turn /\ ReadMessage' = ReadMessage /\ ReadBlock' = ReadBlock /\ (Active' <=> Active)
    BY <1>1, Zenon DEF Turn, ReadMessage, ReadBlock, AllRead, Active
  <2> QED
    BY <1>1, <2>1, Zenon DEF WireOK, OutgoingOK, ReceiverOK
<1> QED
  BY <1>1, <1>2, SameSession, Zenon

(* The invariant holds in every state of a session, for any messages that  *)
(* satisfy MessageAssumption, any signatures, room on the connection and   *)
(* number of messages.                                                     *)
THEOREM IInvHolds == Spec => []IInv
<1>1. Init => IInv
  BY InitHolds
<1>2. IInv /\ [Next]_vars => IInv'
  <2> SUFFICES ASSUME IInv, [Next]_vars PROVE IInv'
    OBVIOUS
  <2>1. CASE \E m \in Message : \E signature \in IF m.protocol = Application THEN Signature ELSE {<<>>} :
                ScheduleSend(m, signature)
    BY <2>1, ScheduleSendHolds, Zenon
  <2>2. CASE Dispatch
    BY <2>2, DispatchHolds
  <2>3. CASE Disconnect
    BY <2>3, DisconnectHolds
  <2>4. CASE Read
    BY <2>4, ReadHolds
  <2>5. CASE ReceiveFixedHeaderData
    BY <2>5, ReceiveFixedHeaderDataHolds
  <2>6. CASE ReceiveMessage
    BY <2>6, ReceiveMessageHolds
  <2>7. CASE OnMessageReceived
    BY <2>7, OnMessageReceivedHolds
  <2>8. CASE OnSessionError
    BY <2>8, OnSessionErrorHolds
  <2>9. CASE EndOfStream
    BY <2>9, EndOfStreamHolds
  <2>10. CASE UNCHANGED vars
    BY <2>10, StutterHolds
  <2> QED
    BY <2>1, <2>2, <2>3, <2>4, <2>5, <2>6, <2>7, <2>8, <2>9, <2>10, Zenon DEF Next, Receiver
<1> QED
  BY <1>1, <1>2, PTL DEF Spec

(* Messages arrive in the order they were sent, each once and unchanged    *)
(* but for the tracker that a signature replaces, however blocks are       *)
(* batched and wherever the connection breaks: the session's queue,        *)
(* Dispatcher and Receiver.                                                *)
THEOREM SpecReceivedInOrder == Spec => []ReceivedInOrder
<1>1. IInv => ReceivedInOrder
  BY DEF IInv, ReceivedOK
<1> QED
  BY <1>1, IInvHolds, PTL

(* A session that both sides keep up fails only at a message of which a    *)
(* block has all its bits set: OnSessionError is no consequence of         *)
(* batching, of sizes, of padding or of a message that is accepted when it *)
(* is sent.                                                                *)
THEOREM SpecFailsOnlyAtOnes == Spec => []FailsOnlyAtOnes
<1>1. IInv => FailsOnlyAtOnes
  BY DEF IInv
<1> QED
  BY <1>1, IInvHolds, PTL

(* The types of the session's state, and what is between its queue and its *)
(* count of written blocks.                                                *)
THEOREM SpecTypeOK == Spec => []TypeOK
<1>1. IInv => TypeOK
  <2> SUFFICES ASSUME IInv PROVE TypeOK
    OBVIOUS
  <2> USE DEF IInv
  <2>1. outgoing \in Seq(Seq(Block)) /\ sent \in Seq(Item) /\ Len(outgoing) <= Len(sent) /\ written \in Nat
    BY DEF OutgoingOK, SentOK
  <2>2. PICK a \in Nat, o \in Nat : /\ a = Len(sent) /\ o = Len(outgoing) /\ o <= a
                                    /\ DOMAIN outgoing = 1..o /\ DOMAIN sent = 1..a
    BY <2>1, LenProperties
  <2>3. ASSUME NEW k \in DOMAIN outgoing PROVE outgoing[k] \in Seq(Block) /\ outgoing[k] # <<>>
    <3>1. k \in 1..o
      BY <2>2
    <3>2. (a - o) + k \in 1..a /\ outgoing[k] \in Seq(Block)
      BY SMT, <2>1, <2>2, <3>1
    <3>3. outgoing[k] = PackOf(sent[(a - o) + k]) /\ Sendable(sent[(a - o) + k])
      BY <2>2, <3>1, <3>2, Zenon DEF OutgoingOK, SentOK
    <3>4. PICK count \in Nat : count = Len(outgoing[k]) /\ count >= 3
      BY <3>3, PackOfIs, Zenon
    <3> QED
      BY SMT, <3>2, <3>4
  <2>4. written > 0 => outgoing # <<>> /\ written < Len(Head(outgoing))
    <3> SUFFICES ASSUME written > 0 PROVE outgoing # <<>> /\ written < Len(Head(outgoing))
      OBVIOUS
    <3>1. written # 0
      BY SMT, <2>1
    <3>2. outgoing # <<>> /\ written < Len(outgoing[1])
      BY <3>1, Zenon DEF OutgoingOK
    <3>3. Head(outgoing) = outgoing[1]
      BY SMT, <2>1, <3>2
    <3> QED
      BY <3>2, <3>3, Zenon
  <2>5. \A k \in DOMAIN sent : sent[k].message \in Message
    BY <2>2, Zenon DEF SentOK, Sendable, Item
  <2> QED
    BY <2>1, <2>3, <2>4, <2>5, Zenon DEF TypeOK, WireOK, ReceiverOK
<1> QED
  BY <1>1, IInvHolds, PTL

===============================================================================
