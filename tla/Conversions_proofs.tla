-------------------------- MODULE Conversions_proofs --------------------------
(* What the conversions of Conversions do to every sequence of digits: packed *)
(* into bytes they are read back as they were.                                *)
EXTENDS Conversions, FiniteSetTheorems, SequenceTheorems, TLAPS

Nibble == 0 .. 15
Byte == 0 .. 255

LEMMA FillType ==
    ASSUME NEW n \in Nat, NEW S, NEW nibble \in S
    PROVE  Fill(n, nibble) \in Seq(S) /\ Len(Fill(n, nibble)) = n
BY DEF Fill

(* A byte is its two nibbles. *)
LEMMA ByteOfNibbles ==
    ASSUME NEW a \in Nibble, NEW b \in Nibble
    PROVE  /\ 16 * a + b \in Byte
           /\ (16 * a + b) \div 16 = a /\ (16 * a + b) % 16 = b
BY DEF Nibble, Byte

LEMMA PackedType ==
    ASSUME NEW n \in Nat, NEW s \in Seq(Nibble), Len(s) = 2 * n
    PROVE  Packed(s) \in Seq(Byte) /\ Len(Packed(s)) = n
<1>1. Len(s) \div 2 = n
  OBVIOUS
<1>2. \A i \in 1 .. n : s[2 * i - 1] \in Nibble /\ s[2 * i] \in Nibble
  OBVIOUS
<1>3. \A i \in 1 .. n : 16 * s[2 * i - 1] + s[2 * i] \in Byte
  BY <1>2, ByteOfNibbles
<1> QED
  BY <1>1, <1>3 DEF Packed

(* Packing loses nothing. *)
LEMMA NibblesOfPacked ==
    ASSUME NEW n \in Nat, NEW s \in Seq(Nibble), Len(s) = 2 * n
    PROVE  Nibbles(Packed(s)) = s
<1>1. Len(Packed(s)) = n /\ Len(s) \div 2 = n
  BY PackedType
<1>2. ASSUME NEW i \in 1 .. 2 * n
      PROVE  Nibbles(Packed(s))[i] = s[i]
  <2> DEFINE k == (i + 1) \div 2
  <2>1. k \in 1 .. n /\ (i % 2 = 1 => 2 * k - 1 = i) /\ (i % 2 # 1 => 2 * k = i)
    OBVIOUS
  <2>2. s[2 * k - 1] \in Nibble /\ s[2 * k] \in Nibble
    <3>1. 2 * k - 1 \in 1 .. Len(s) /\ 2 * k \in 1 .. Len(s)
      BY <2>1
    <3> HIDE DEF k
    <3> QED
      BY <3>1
  <2> HIDE DEF k
  <2>3. Packed(s)[k] = 16 * s[2 * k - 1] + s[2 * k]
    BY <1>1, <2>1 DEF Packed
  <2>4. Packed(s)[k] \div 16 = s[2 * k - 1] /\ Packed(s)[k] % 16 = s[2 * k]
    BY <2>2, <2>3, ByteOfNibbles
  <2>5. Nibbles(Packed(s))[i]
           = IF i % 2 = 1 THEN Packed(s)[k] \div 16 ELSE Packed(s)[k] % 16
    BY <1>1 DEF Nibbles, k
  <2> QED
    BY <2>1, <2>4, <2>5
<1>3. Nibbles(Packed(s)) = [i \in 1 .. 2 * n |-> s[i]]
  <2>1. DOMAIN Nibbles(Packed(s)) = 1 .. 2 * n
        /\ Nibbles(Packed(s)) = [i \in 1 .. 2 * n |-> Nibbles(Packed(s))[i]]
    BY <1>1 DEF Nibbles
  <2> QED
    BY <1>2, <2>1
<1>4. s = [i \in 1 .. 2 * n |-> s[i]]
  OBVIOUS
<1> QED
  BY <1>3, <1>4

----------------------------------------------------------------------------
(* Bytes of digits alone: there is no F to leave out. *)

LEMMA NoFiller ==
    ASSUME NEW a \in Digits, NEW b \in Digits
    PROVE  16 * a + b # 255
BY DEF Digits

(* The n-th place of a sequence has n - 1 before it. *)
LEMMA PlacesBefore ==
    ASSUME NEW m \in Nat, NEW i \in 1 .. m
    PROVE  Cardinality({j \in 1 .. m : j < i}) = i - 1
<1>1. {j \in 1 .. m : j < i} = 1 .. i - 1
  OBVIOUS
<1>2. Cardinality(1 .. i - 1) = IF 1 > i - 1 THEN 0 ELSE (i - 1) - 1 + 1
  BY FS_Interval, 1 \in Int, i - 1 \in Int
<1>3. Cardinality(1 .. i - 1) = i - 1
  BY <1>2
<1> QED
  BY <1>1, <1>3

LEMMA ReadDigits ==
    ASSUME NEW n \in Nat, NEW s \in Seq(Digits), Len(s) = 2 * n
    PROVE  bcd_to_ascii(Packed(s)) = s
<1> DEFINE bytes == Packed(s)
           end == CHOOSE i \in 1 .. Len(bytes) + 1 :
                      /\ i \in DOMAIN bytes => bytes[i] = 255
                      /\ \A j \in 1 .. i - 1 : bytes[j] # 255
           nibbles == Nibbles(SubSeq(bytes, 1, end - 1))
           kept == {i \in DOMAIN nibbles : nibbles[i] # 15}
           place(k) == CHOOSE i \in kept : Cardinality({j \in kept : j < i}) = k - 1
<1>1. s \in Seq(Nibble)
  <2>1. Digits \subseteq Nibble
    BY DEF Digits, Nibble
  <2> QED
    BY <2>1
<1>2. bytes \in Seq(Byte) /\ Len(bytes) = n
  BY <1>1, PackedType
<1>3. \A i \in 1 .. n : bytes[i] # 255
  <2> TAKE i \in 1 .. n
  <2>1. Len(s) \div 2 = n
    OBVIOUS
  <2>2. bytes[i] = 16 * s[2 * i - 1] + s[2 * i]
    BY <2>1 DEF Packed
  <2>3. s[2 * i - 1] \in Digits /\ s[2 * i] \in Digits
    OBVIOUS
  <2> QED
    BY <2>2, <2>3, NoFiller
<1> HIDE DEF bytes
<1>4. end = n + 1
  <2>1. /\ n + 1 \in 1 .. Len(bytes) + 1
        /\ n + 1 \in DOMAIN bytes => bytes[n + 1] = 255
        /\ \A j \in 1 .. (n + 1) - 1 : bytes[j] # 255
    BY <1>2, <1>3
  <2>2. \A i \in 1 .. Len(bytes) + 1 :
           (i \in DOMAIN bytes => bytes[i] = 255) => i = n + 1
    BY <1>2, <1>3
  <2> QED
    BY <2>1, <2>2
<1> HIDE DEF end
<1>5. nibbles = s
  <2>1. SubSeq(bytes, 1, end - 1) = bytes
    <3>1. end - 1 = Len(bytes)
      BY <1>2, <1>4
    <3> HIDE DEF end
    <3> QED
      BY <1>2, <3>1, SubSeqFull
  <2> QED
    BY <1>1, <2>1, NibblesOfPacked DEF bytes
<1> HIDE DEF nibbles
<1>6. kept = 1 .. 2 * n
  <2>1. \A i \in 1 .. 2 * n : s[i] \in Digits
    OBVIOUS
  <2>2. \A d \in Digits : d # 15
    BY DEF Digits
  <2> QED
    BY <1>5, <2>1, <2>2
<1> HIDE DEF kept
<1>7. \A k \in 1 .. 2 * n : place(k) = k
  <2> TAKE k \in 1 .. 2 * n
  <2>1. \A i \in kept : Cardinality({j \in kept : j < i}) = i - 1
    BY <1>6, PlacesBefore
  <2> DEFINE count(i) == Cardinality({j \in kept : j < i})
  <2>2. \A i \in kept : (count(i) = k - 1) <=> (i = k)
    BY <1>6, <2>1
  <2>3. k \in kept
    BY <1>6
  <2> HIDE DEF count
  <2>4. (CHOOSE i \in kept : count(i) = k - 1) = k
    BY <2>2, <2>3
  <2> QED
    BY <2>4 DEF count
<1>8. Cardinality(kept) = 2 * n
  BY <1>6, FS_Interval
<1>9. \A i \in DOMAIN nibbles : nibbles[i] \in Digits \/ (i % 2 = 0 /\ nibbles[i] = 15)
  BY <1>5
<1>10. bcd_to_ascii(bytes) = [k \in 1 .. Cardinality(kept) |-> nibbles[place(k)]]
  BY <1>9 DEF bcd_to_ascii, nibbles, end, kept
<1> HIDE DEF place
<1>11. bcd_to_ascii(bytes) = [k \in 1 .. 2 * n |-> s[k]]
  BY <1>5, <1>7, <1>8, <1>10
<1>12. s = [k \in 1 .. 2 * n |-> s[k]]
  OBVIOUS
<1> QED
  BY <1>11, <1>12 DEF bytes

----------------------------------------------------------------------------
(* An amount of at most twelve digits, as the six bytes of tag 9F02, is read  *)
(* back with zeros before it. *)
THEOREM AmountKept ==
    ASSUME NEW digits \in Seq(Digits), Len(digits) <= 12
    PROVE  /\ ascii_to_bcd_n(digits, 6) \in Seq(Byte)
           /\ Len(ascii_to_bcd_n(digits, 6)) = 6
           /\ bcd_to_ascii(ascii_to_bcd_n(digits, 6))
                 = Fill(12 - Len(digits), 0) \o digits
           /\ Nibbles(ascii_to_bcd_n(digits, 6)) = Fill(12 - Len(digits), 0) \o digits
<1> DEFINE m == 12 - Len(digits)
           s == Fill(m, 0) \o digits
<1>1. m \in Nat
  OBVIOUS
<1>2. Fill(m, 0) \in Seq(Digits) /\ Len(Fill(m, 0)) = m
  <2>1. 0 \in Digits
    BY DEF Digits
  <2> HIDE DEF m
  <2> QED
    BY <1>1, <2>1, FillType
<1>3. s \in Seq(Digits) /\ Len(s) = m + Len(digits)
  BY <1>2
<1>4. Len(s) = 2 * 6
  BY <1>3
<1>5. Convertible(digits, 6)
  BY DEF Convertible
<1>6. ascii_to_bcd_n(digits, 6) = Packed(s)
  <2>1. 2 * 6 - Len(digits) = m
    OBVIOUS
  <2> QED
    BY <1>5, <2>1 DEF ascii_to_bcd_n
<1> HIDE DEF s
<1>7. s \in Seq(Nibble)
  BY <1>3 DEF Digits, Nibble
<1>8. Packed(s) \in Seq(Byte) /\ Len(Packed(s)) = 6 /\ Nibbles(Packed(s)) = s
  BY <1>4, <1>7, PackedType, NibblesOfPacked
<1>9. bcd_to_ascii(Packed(s)) = s
  BY <1>3, <1>4, ReadDigits
<1> QED
  BY <1>6, <1>8, <1>9 DEF s

----------------------------------------------------------------------------
(* The terminal verification results. *)

LEMMA BitsOfByte ==
    ASSUME NEW b1 \in {0, 128}, NEW b2 \in {0, 64}, NEW b3 \in {0, 32},
           NEW b4 \in {0, 16}, NEW b5 \in {0, 8}, NEW b6 \in {0, 4}
    PROVE  LET byte == b1 + b2 + b3 + b4 + b5 + b6
           IN  /\ (byte \div 128) % 2 = 1 <=> b1 = 128
               /\ (byte \div 64) % 2 = 1 <=> b2 = 64
               /\ (byte \div 32) % 2 = 1 <=> b3 = 32
               /\ (byte \div 16) % 2 = 1 <=> b4 = 16
               /\ (byte \div 8) % 2 = 1 <=> b5 = 8
               /\ (byte \div 4) % 2 = 1 <=> b6 = 4
OBVIOUS

(* The k-th bit of a byte says whether its field is set. *)
LEMMA TvrBitRead ==
    ASSUME NEW tvr, NEW i \in 1 .. 5, NEW k \in DOMAIN TvrLayout[i]
    PROVE  (TvrBytes(tvr)[i] \div BitValue[k]) % 2 = 1 <=> TvrLayout[i][k] \in tvr
<1> DEFINE bit(n) == IF n \in DOMAIN TvrLayout[i] /\ TvrLayout[i][n] \in tvr
                     THEN BitValue[n] ELSE 0
<1>1. TvrBytes(tvr)[i] = bit(1) + bit(2) + bit(3) + bit(4) + bit(5) + bit(6)
  BY DEF TvrBytes
<1>2. DOMAIN TvrLayout[i] \subseteq 1 .. 6
  BY DEF TvrLayout
<1>3. /\ BitValue[1] = 128 /\ BitValue[2] = 64 /\ BitValue[3] = 32
      /\ BitValue[4] = 16 /\ BitValue[5] = 8 /\ BitValue[6] = 4
  BY DEF BitValue
<1>4. /\ bit(1) \in {0, 128} /\ bit(2) \in {0, 64} /\ bit(3) \in {0, 32}
      /\ bit(4) \in {0, 16} /\ bit(5) \in {0, 8} /\ bit(6) \in {0, 4}
  BY <1>3
<1>5. /\ bit(k) = BitValue[k] <=> TvrLayout[i][k] \in tvr
      /\ k \in 1 .. 6
  <2>1. k \in 1 .. 6
    BY <1>2
  <2>2. BitValue[k] # 0
    BY <1>3, <2>1
  <2> QED
    BY <2>1, <2>2
<1> HIDE DEF bit
<1>6. (TvrBytes(tvr)[i] \div BitValue[k]) % 2 = 1 <=> bit(k) = BitValue[k]
  <2>1. CASE k = 1
    BY <1>1, <1>3, <1>4, <2>1, BitsOfByte
  <2>2. CASE k = 2
    BY <1>1, <1>3, <1>4, <2>2, BitsOfByte
  <2>3. CASE k = 3
    BY <1>1, <1>3, <1>4, <2>3, BitsOfByte
  <2>4. CASE k = 4
    BY <1>1, <1>3, <1>4, <2>4, BitsOfByte
  <2>5. CASE k = 5
    BY <1>1, <1>3, <1>4, <2>5, BitsOfByte
  <2>6. CASE k = 6
    BY <1>1, <1>3, <1>4, <2>6, BitsOfByte
  <2> QED
    BY <1>5, <2>1, <2>2, <2>3, <2>4, <2>5, <2>6
<1> QED
  BY <1>5, <1>6

LEMMA TvrType ==
    ASSUME NEW tvr
    PROVE  TvrBytes(tvr) \in Seq(Byte) /\ Len(TvrBytes(tvr)) = 5
<1>1. ASSUME NEW i \in 1 .. 5
      PROVE  TvrBytes(tvr)[i] \in Byte
  <2> DEFINE bit(n) == IF n \in DOMAIN TvrLayout[i] /\ TvrLayout[i][n] \in tvr
                       THEN BitValue[n] ELSE 0
  <2>1. TvrBytes(tvr)[i] = bit(1) + bit(2) + bit(3) + bit(4) + bit(5) + bit(6)
    BY DEF TvrBytes
  <2>2. /\ bit(1) \in {0, 128} /\ bit(2) \in {0, 64} /\ bit(3) \in {0, 32}
        /\ bit(4) \in {0, 16} /\ bit(5) \in {0, 8} /\ bit(6) \in {0, 4}
    BY DEF BitValue
  <2> HIDE DEF bit
  <2> QED
    BY <2>1, <2>2 DEF Byte
<1>2. TvrBytes(tvr) = [i \in 1 .. 5 |-> TvrBytes(tvr)[i]]
  BY DEF TvrBytes
<1> DEFINE bytes == TvrBytes(tvr)
<1> HIDE DEF bytes
<1>3. bytes = [i \in 1 .. 5 |-> bytes[i]] /\ \A i \in 1 .. 5 : bytes[i] \in Byte
  BY <1>1, <1>2 DEF bytes
<1>4. bytes \in Seq(Byte) /\ Len(bytes) = 5
  BY <1>3
<1> QED
  BY <1>4 DEF bytes

(* The five bytes of the TVR are read back as the fields that were set. *)
THEOREM TvrKept ==
    ASSUME NEW tvr \in SUBSET TvrFields
    PROVE  TvrFrom(TvrBytes(tvr)) = tvr
<1>1. ASSUME NEW field \in TvrFrom(TvrBytes(tvr))
      PROVE  field \in tvr
  <2>1. PICK i \in 1 .. 5 : \E k \in DOMAIN TvrLayout[i] :
           field = TvrLayout[i][k] /\ (TvrBytes(tvr)[i] \div BitValue[k]) % 2 = 1
    BY Zenon DEF TvrFrom
  <2> QED
    BY <2>1, TvrBitRead
<1>2. ASSUME NEW field \in tvr
      PROVE  field \in TvrFrom(TvrBytes(tvr))
  <2>1. PICK i \in 1 .. 5 : \E k \in DOMAIN TvrLayout[i] : field = TvrLayout[i][k]
    BY Zenon DEF TvrFields
  <2>2. PICK k \in DOMAIN TvrLayout[i] : field = TvrLayout[i][k]
    BY <2>1
  <2>3. (TvrBytes(tvr)[i] \div BitValue[k]) % 2 = 1
    BY <2>2, TvrBitRead
  <2> DEFINE set(n) == {TvrLayout[n][j] : j \in {m \in DOMAIN TvrLayout[n] :
                              (TvrBytes(tvr)[n] \div BitValue[m]) % 2 = 1}}
  <2>4. field \in set(i)
    BY <2>2, <2>3
  <2>5. TvrFrom(TvrBytes(tvr)) = UNION {set(n) : n \in 1 .. 5}
    BY DEF TvrFrom
  <2> HIDE DEF set
  <2> QED
    BY <2>4, <2>5
<1> QED
  BY <1>1, <1>2

----------------------------------------------------------------------------
(* The PIN block. *)

LEMMA UpTo ==
    ASSUME NEW n \in Nat, NEW m \in Nat, n <= m
    PROVE  n \in 0 .. m /\ m - n \in Nat
OBVIOUS

LEMMA PinBlockIs ==
    ASSUME NEW pin \in Seq(Digits), Len(pin) <= 12
    PROVE  LET s == pin \o Fill(12 - Len(pin), 15)
           IN  /\ s \in Seq(Nibble) /\ Len(s) = 12
               /\ \A k \in 1 .. Len(pin) : s[k] = pin[k]
               /\ PinBlock(pin) = <<32 + Len(pin)>> \o Packed(s) \o <<255>>
<1> DEFINE n == Len(pin)
           s == pin \o Fill(12 - n, 15)
<1>1. n \in 0 .. 12 /\ 12 - n \in Nat
  <2>1. n \in Nat
    OBVIOUS
  <2> QED
    BY <2>1, UpTo
<1>2. s \in Seq(Nibble) /\ Len(s) = 12 /\ \A k \in 1 .. n : s[k] = pin[k]
  <2>1. pin \in Seq(Nibble) /\ 15 \in Nibble
    BY DEF Digits, Nibble
  <2>2. Fill(12 - n, 15) \in Seq(Nibble) /\ Len(Fill(12 - n, 15)) = 12 - n
    BY <1>1, <2>1, FillType
  <2> QED
    BY <1>1, <2>1, <2>2
<1>3. PinBlock(pin) = <<32 + n>> \o Packed(s) \o <<255>>
  <2>1. Convertible(pin, 6)
    BY DEF Convertible
  <2>2. 2 * 6 - Len(pin) = 12 - n
    OBVIOUS
  <2> HIDE DEF n
  <2>3. ascii_to_bcd_cn(pin, 6) = Packed(s)
    BY <2>1, <2>2 DEF ascii_to_bcd_cn
  <2> QED
    BY <2>3 DEF PinBlock, n
<1> QED
  BY <1>2, <1>3

LEMMA BlockPlaces ==
    ASSUME NEW first \in Nat, NEW packed \in Seq(Nat), Len(packed) = 6
    PROVE  LET block == <<first>> \o packed \o <<255>>
           IN  /\ Len(block) = 8 /\ block[1] = first
               /\ \A i \in 2 .. 7 : block[i] = packed[i - 1]
<1> DEFINE begin == <<first>> \o packed
           block == begin \o <<255>>
<1>1. <<first>> \in Seq(Nat) /\ Len(<<first>>) = 1 /\ <<first>>[1] = first
      /\ <<255>> \in Seq(Nat) /\ Len(<<255>>) = 1
  OBVIOUS
<1>2. /\ begin \in Seq(Nat) /\ Len(begin) = 7
      /\ \A i \in 1 .. 7 : begin[i] = IF i <= 1 THEN <<first>>[i] ELSE packed[i - 1]
  <2> DEFINE head == <<first>>
  <2> HIDE DEF head
  <2>1. head \in Seq(Nat) /\ Len(head) = 1
    BY <1>1 DEF head
  <2>2. /\ head \o packed \in Seq(Nat) /\ Len(head \o packed) = Len(head) + Len(packed)
        /\ \A i \in 1 .. Len(head) + Len(packed) :
              (head \o packed)[i] = IF i <= Len(head) THEN head[i] ELSE packed[i - Len(head)]
    BY <2>1, ConcatProperties
  <2>3. Len(head) + Len(packed) = 7
    BY <2>1
  <2> QED
    BY <2>1, <2>2, <2>3 DEF head
<1> HIDE DEF begin
<1>3. Len(block) = 8 /\ \A i \in 1 .. 7 : block[i] = begin[i]
  <2> DEFINE last == <<255>>
  <2> HIDE DEF last
  <2>1. last \in Seq(Nat) /\ Len(last) = 1
    BY <1>1 DEF last
  <2>2. /\ Len(begin \o last) = Len(begin) + Len(last)
        /\ \A i \in 1 .. Len(begin) + Len(last) :
              (begin \o last)[i] = IF i <= Len(begin) THEN begin[i] ELSE last[i - Len(begin)]
    BY <1>2, <2>1, ConcatProperties
  <2>3. Len(begin) + Len(last) = 8
    BY <1>2, <2>1
  <2> QED
    BY <1>2, <2>2, <2>3 DEF last
<1> HIDE DEF block
<1>4. block[1] = first
  BY <1>1, <1>2, <1>3
<1>5. \A i \in 2 .. 7 : block[i] = packed[i - 1]
  BY <1>2, <1>3
<1> QED
  BY <1>3, <1>4, <1>5 DEF block, begin

LEMMA PinBlockLength ==
    ASSUME NEW pin \in Seq(Digits), Len(pin) <= 12
    PROVE  Len(PinBlock(pin)) = 8
<1> DEFINE s == pin \o Fill(12 - Len(pin), 15)
           packed == Packed(s)
<1>1. s \in Seq(Nibble) /\ Len(s) = 12 /\ PinBlock(pin) = <<32 + Len(pin)>> \o packed \o <<255>>
  BY PinBlockIs
<1> HIDE DEF s
<1>2. Len(s) = 2 * 6
  BY <1>1
<1>3. packed \in Seq(Byte) /\ Len(packed) = 6
  BY <1>1, <1>2, PackedType
<1> HIDE DEF packed
<1>4. packed \in Seq(Nat) /\ 32 + Len(pin) \in Nat
  <2>1. Byte \subseteq Nat
    BY DEF Byte
  <2>2. Len(pin) \in Nat
    BY LenProperties
  <2>3. \A m \in Nat : 32 + m \in Nat
    OBVIOUS
  <2>4. packed \in Seq(Nat)
    BY <1>3, <2>1, SeqMonotonic
  <2> QED
    BY <2>2, <2>3, <2>4
<1> QED
  BY <1>1, <1>3, <1>4, BlockPlaces

(* A PIN of at most twelve digits is read back from the block by its length,  *)
(* whatever the block's last byte has become. *)
THEOREM PinKept ==
    ASSUME NEW pin \in Seq(Digits), Len(pin) <= 12,
           NEW body \in Seq(Nat), Len(body) = 8,
           \A i \in 1 .. 7 : body[i] = PinBlock(pin)[i]
    PROVE  SubSeq(Nibbles(body), 3, 2 + (body[1] % 16)) = pin
<1> DEFINE n == Len(pin)
           s == pin \o Fill(12 - n, 15)
           packed == Packed(s)
<1>1. n \in 0 .. 12
  <2>1. n \in Nat
    OBVIOUS
  <2> QED
    BY <2>1, UpTo
<1>2. /\ s \in Seq(Nibble) /\ Len(s) = 12 /\ \A k \in 1 .. n : s[k] = pin[k]
      /\ PinBlock(pin) = <<32 + n>> \o packed \o <<255>>
  BY PinBlockIs
<1> HIDE DEF s
<1>4. packed \in Seq(Byte) /\ Len(packed) = 6 /\ Nibbles(packed) = s
  <2>1. Len(s) = 2 * 6
    BY <1>2
  <2> QED
    BY <1>2, <2>1, PackedType, NibblesOfPacked
<1> HIDE DEF packed
<1>5. packed \in Seq(Nat)
  <2>1. Byte \subseteq Nat
    BY DEF Byte
  <2> QED
    BY <1>4, <2>1, SeqMonotonic
<1>7. /\ PinBlock(pin)[1] = 32 + n
      /\ \A i \in 2 .. 7 : PinBlock(pin)[i] = packed[i - 1]
  <2>1. 32 + n \in Nat
    BY <1>1
  <2> QED
    BY <1>2, <1>4, <1>5, <2>1, BlockPlaces
<1> HIDE DEF n
<1>8. /\ body[1] = 32 + n
      /\ \A i \in 2 .. 7 : body[i] = packed[i - 1]
  BY <1>7
<1>9. body[1] % 16 = n
  BY <1>1, <1>8
<1>10. \A k \in 1 .. 12 : Nibbles(body)[k + 2] = s[k]
  <2> TAKE k \in 1 .. 12
  <2> DEFINE i == (k + 1) \div 2
  <2>1. i \in 1 .. 6 /\ ((k + 2) + 1) \div 2 = i + 1 /\ (k + 2) % 2 = k % 2
    OBVIOUS
  <2> HIDE DEF i
  <2>2. body[i + 1] = packed[i]
    <3>1. i + 1 \in 2 .. 7 /\ (i + 1) - 1 = i
      BY <2>1
    <3> QED
      BY <1>8, <3>1
  <2>3. Nibbles(body)[k + 2] = IF k % 2 = 1 THEN body[i + 1] \div 16 ELSE body[i + 1] % 16
    <3>1. k + 2 \in 1 .. 2 * Len(body)
      OBVIOUS
    <3> QED
      BY <2>1, <3>1 DEF Nibbles
  <2>4. Nibbles(packed)[k] = IF k % 2 = 1 THEN packed[i] \div 16 ELSE packed[i] % 16
    BY <1>4 DEF Nibbles, i
  <2>5. Nibbles(packed)[k] = s[k]
    BY <1>4
  <2> QED
    BY <2>2, <2>3, <2>4, <2>5
<1>11. SubSeq(Nibbles(body), 3, 2 + n) = [k \in 1 .. n |-> Nibbles(body)[k + 2]]
  BY <1>1
<1>12. SubSeq(Nibbles(body), 3, 2 + n) = [k \in 1 .. n |-> pin[k]]
  <2>1. \A k \in 1 .. n : k \in 1 .. 12
    BY <1>1
  <2>2. \A k \in 1 .. n : Nibbles(body)[k + 2] = pin[k]
    BY <1>2, <1>10, <2>1
  <2>3. [k \in 1 .. n |-> Nibbles(body)[k + 2]] = [k \in 1 .. n |-> pin[k]]
    BY <2>2
  <2> QED
    BY <1>11, <2>3
<1>13. pin = [k \in 1 .. n |-> pin[k]]
  BY DEF n
<1> QED
  BY <1>9, <1>12, <1>13
=============================================================================
