--------------------------- MODULE DpLoader_proofs ---------------------------
(***************************************************************************)
(* For messages of any length over any bytes: the byte stuffing of the     *)
(* boot loader's protocol is undone, and the checksum is the remainder of  *)
(* the message by its polynomial.                                          *)
(***************************************************************************)
EXTENDS DpLoader, SequenceTheorems, Recursion_proofs

Byte == SUBSET Bits

-----------------------------------------------------------------------------
(* Types. *)

LEMMA SpecialBytes ==
    /\ {SOH, EOT, DLE} \subseteq Byte
    /\ SOH # DLE /\ EOT # DLE
    /\ Bytes \subseteq Byte
<1>1. {0} \subseteq 0 .. 7 /\ {2} \subseteq 0 .. 7 /\ {4} \subseteq 0 .. 7
  OBVIOUS
<1>2. {0} # {4} /\ {2} # {4}
  OBVIOUS
<1> QED
  BY <1>1, <1>2, LoaderConstants DEF SOH, EOT, DLE, Byte, Bits

(* What escape() gives for one byte. *)
LEMMA EscapedByte ==
    ASSUME NEW b \in Byte
    PROVE  /\ EscapeByte(b) \in Seq(Byte)
           /\ b \in Special => /\ Len(EscapeByte(b)) = 2
                               /\ EscapeByte(b)[1] = DLE
                               /\ EscapeByte(b)[2] = b
           /\ b \notin Special => /\ Len(EscapeByte(b)) = 1
                                  /\ EscapeByte(b)[1] = b
<1>1. DLE \in Byte
  BY SpecialBytes
<1> HIDE DEF DLE, Byte, Special
<1>2. CASE b \in Special
  BY <1>1, <1>2 DEF EscapeByte
<1>3. CASE b \notin Special
  BY <1>1, <1>3 DEF EscapeByte
<1> QED
  BY <1>2, <1>3

(* Shifts and exclusive ors stay within 16 bits. *)
LEMMA CrcBitType ==
    ASSUME NEW c \in SUBSET (0 .. 15)
    PROVE  CrcBit(c) \in SUBSET (0 .. 15)
<1>1. ShiftLeft(c) \in SUBSET (0 .. 15)
  BY DEF ShiftLeft
<1>2. Poly \in SUBSET (0 .. 15)
  BY DEF Poly
<1>3. ASSUME NEW a \in SUBSET (0 .. 15)
      PROVE  Xor(a, Poly) \in SUBSET (0 .. 15)
  <2> HIDE DEF Poly
  <2> QED
    BY <1>2, <1>3, Zenon DEF Xor
<1> QED
  BY <1>1, <1>3, Zenon DEF CrcBit

LEMMA CrcByteType ==
    ASSUME NEW c \in SUBSET (0 .. 15), NEW b \in Byte
    PROVE  CrcByte(c, b) \in SUBSET (0 .. 15)
<1> DEFINE two(x) == CrcBit(CrcBit(x))
           four(x) == two(two(x))
           first == Xor(c, { i + 8 : i \in b })
<1>1. { i + 8 : i \in b } \in SUBSET (0 .. 15)
  BY DEF Byte, Bits
<1>2. first \in SUBSET (0 .. 15)
  BY <1>1 DEF Xor
<1>3. ASSUME NEW x \in SUBSET (0 .. 15)
      PROVE  four(x) \in SUBSET (0 .. 15)
  BY <1>3, CrcBitType
<1>4. CrcByte(c, b) = four(four(first))
  BY DEF CrcByte
<1> HIDE DEF four, first
<1> QED
  BY <1>2, <1>3, <1>4

LEMMA Lengths ==
    ASSUME TypeOK
    PROVE  /\ data \in Seq(Byte) /\ Len(data) \in Nat
           /\ escaped \in Seq(Byte) /\ Len(escaped) \in Nat
           /\ unescaped \in Seq(Byte) /\ Len(unescaped) \in Nat
           /\ starts \in Seq(Nat \ {0}) /\ Len(starts) \in Nat
  BY LenProperties DEF TypeOK, Byte

LEMMA TypeStep ==
    ASSUME TypeOK, [Next]_vars
    PROVE  TypeOK'
<1> USE DEF TypeOK
<1>1. ASSUME NEW b \in Bytes, Escape(b)
      PROVE  TypeOK'
  <2>1. b \in Byte
    BY SpecialBytes
  <2>2. data' \in Seq(Byte)
    BY <1>1, <2>1, Lengths, AppendProperties DEF Escape
  <2>3. escaped' \in Seq(Byte)
    BY <1>1, <2>1, Lengths, EscapedByte, ConcatProperties DEF Escape
  <2>4. starts' \in Seq(Nat \ {0})
    <3>1. Len(escaped') + 1 \in Nat \ {0}
      BY <2>3, LenProperties
    <3> QED
      BY <1>1, <3>1, Lengths, AppendProperties DEF Escape
  <2>5. crc' \subseteq 0 .. 15
    BY <1>1, <2>1, CrcByteType DEF Escape
  <2> QED
    BY <1>1, <2>2, <2>3, <2>4, <2>5 DEF Escape, Byte
<1>2. ASSUME NEW n \in 0 .. Len(escaped), Receive(n)
      PROVE  TypeOK'
  <2>1. escaped' \in Seq(Byte)
    BY <1>2, Lengths, SubSeqProperties, ElementOfSeq DEF Receive
  <2> QED
    BY <1>2, <2>1 DEF Receive, Byte
<1>3. CASE UnescapeByte
  <2>1. ReadAt \in 1 .. Len(escaped)
    BY <1>3, Lengths DEF UnescapeByte, ReadAt
  <2>2. unescaped' \in Seq(Byte)
    BY <1>3, <2>1, Lengths, ElementOfSeq, AppendProperties DEF UnescapeByte
  <2> QED
    BY <1>3, <2>1, <2>2, Lengths DEF UnescapeByte, Byte
<1>4. CASE Overrun \/ Finish
  BY <1>4 DEF Overrun, Finish
<1>5. CASE UNCHANGED vars
  BY <1>5 DEF vars
<1> QED
  BY <1>1, <1>2, <1>3, <1>4, <1>5 DEF Next

LEMMA InitType == Init => TypeOK
<1>1. Init => {data, escaped, unescaped} \subseteq Seq(SUBSET Bits)
  BY EmptySeq DEF Init
<1>2. Init => starts \in Seq(Nat \ {0})
  <2>1. <<1>> \in Seq(Nat \ {0})
    OBVIOUS
  <2> QED
    BY <2>1 DEF Init
<1>3. Init => /\ phase \in {"escape", "unescape", "undefined", "done"}
              /\ cut \in BOOLEAN /\ it \in Nat \ {0}
  <2>1. 1 \in Nat \ {0}
    OBVIOUS
  <2> QED
    BY <2>1, Zenon DEF Init
<1>4. Init => crc \subseteq 0 .. 15
  BY DEF Init
<1> QED
  BY <1>1, <1>2, <1>3, <1>4, Zenon DEF TypeOK

(* The bytes stay bytes and the checksum stays in 16 bits. *)
THEOREM TypeCorrect == Spec => []TypeOK
  BY InitType, TypeStep, PTL DEF Spec

-----------------------------------------------------------------------------
(* Where the bytes are. *)

Size(b) == IF b \in Special THEN 2 ELSE 1

(* Each byte of the message begins where the one before it ends. *)
Consecutive ==
    /\ Len(starts) = Len(data) + 1
    /\ starts[1] = 1
    /\ \A k \in 1 .. Len(data) : starts[k + 1] = starts[k] + Size(data[k])

(* What is there, as far as it arrived. *)
Placed ==
    \A k \in 1 .. Len(data) :
        /\ starts[k] <= Len(escaped) =>
               escaped[starts[k]] = IF data[k] \in Special THEN DLE ELSE data[k]
        /\ data[k] \in Special /\ starts[k] + 1 <= Len(escaped) =>
               escaped[starts[k] + 1] = data[k]

(* It ends with the last byte, or before that if it was cut. *)
Extent ==
    /\ starts[Len(data) + 1] >= Len(escaped) + 1
    /\ ~cut => \A k \in 1 .. Len(data) + 1 : starts[k] <= Len(escaped) + 1
    /\ phase = "escape" => ~cut

(* unescape() stands between two bytes and has pushed those before it. *)
Undone ==
    /\ Len(unescaped) <= Len(data)
    /\ it = starts[Len(unescaped) + 1]
    /\ \A k \in 1 .. Len(unescaped) : unescaped[k] = data[k]
    /\ phase = "escape" => unescaped = <<>>

(* How the two other phases were reached. *)
Ended ==
    /\ phase = "undefined" => cut
    /\ phase = "done" => Len(unescaped) = Len(data) \/ cut

Layout == Consecutive /\ Placed /\ Extent /\ Undone /\ Ended

LEMMA LayoutInit == Init => Layout
<1> SUFFICES ASSUME Init PROVE Layout
  OBVIOUS
<1>1. /\ Len(data) = 0 /\ Len(escaped) = 0 /\ Len(unescaped) = 0
      /\ Len(starts) = 1 /\ starts[1] = 1
      /\ it = 1 /\ phase = "escape" /\ cut = FALSE /\ unescaped = <<>>
  BY DEF Init
<1> QED
  BY <1>1 DEF Layout, Consecutive, Placed, Extent, Undone, Ended

LEMMA LayoutEscape ==
    ASSUME TypeOK, Layout, NEW b \in Bytes, Escape(b)
    PROVE  Layout'
<1> DEFINE n == Len(data)
           e == EscapeByte(b)
<1>1. b \in Byte
  BY SpecialBytes
<1>2. /\ n \in Nat /\ Len(data') = n + 1
      /\ data'[n + 1] = b
      /\ \A k \in 1 .. n : data'[k] = data[k]
  BY <1>1, Lengths, AppendProperties DEF Escape
<1>3. /\ Len(e) = Size(b)
      /\ e[1] = IF b \in Special THEN DLE ELSE b
      /\ b \in Special => e[2] = b
      /\ e \in Seq(Byte)
  BY <1>1, EscapedByte DEF Size
<1>4. Size(b) \in {1, 2} /\ (b \in Special <=> Size(b) = 2)
  BY DEF Size
<1> HIDE DEF e
<1>5. /\ Len(escaped) \in Nat
      /\ Len(escaped') = Len(escaped) + Size(b)
      /\ \A i \in 1 .. Len(escaped) : escaped'[i] = escaped[i]
      /\ escaped'[Len(escaped) + 1] = e[1]
      /\ b \in Special => escaped'[Len(escaped) + 2] = e[2]
  <2>1. escaped' = escaped \o e
    BY DEF Escape, e
  <2>2. /\ escaped \in Seq(Byte) /\ Len(escaped) \in Nat
    BY Lengths
  <2>3. /\ Len(escaped') = Len(escaped) + Size(b)
        /\ \A i \in 1 .. Len(escaped) + Size(b) :
               escaped'[i] = IF i <= Len(escaped) THEN escaped[i]
                             ELSE e[i - Len(escaped)]
    <3>1. /\ Len(escaped \o e) = Len(escaped) + Len(e)
          /\ \A i \in 1 .. Len(escaped) + Len(e) :
                 (escaped \o e)[i] = IF i <= Len(escaped) THEN escaped[i]
                                     ELSE e[i - Len(escaped)]
      BY <1>3, <2>2, ConcatProperties
    <3> QED
      BY <1>3, <2>1, <3>1
  <2>4. \A i \in 1 .. Len(escaped) : escaped'[i] = escaped[i]
    <3>1. 1 .. Len(escaped) \subseteq 1 .. Len(escaped) + Size(b)
      BY <1>4, <2>2
    <3> QED
      BY <2>2, <2>3, <3>1
  <2>5. escaped'[Len(escaped) + 1] = e[1]
    <3>1. /\ Len(escaped) + 1 \in 1 .. Len(escaped) + Size(b)
          /\ ~(Len(escaped) + 1 <= Len(escaped))
          /\ (Len(escaped) + 1) - Len(escaped) = 1
      BY <1>4, <2>2
    <3> QED
      BY <2>3, <3>1
  <2>6. b \in Special => escaped'[Len(escaped) + 2] = e[2]
    <3>1. b \in Special =>
              /\ Len(escaped) + 2 \in 1 .. Len(escaped) + Size(b)
              /\ ~(Len(escaped) + 2 <= Len(escaped))
              /\ (Len(escaped) + 2) - Len(escaped) = 2
      BY <1>4, <2>2
    <3> QED
      BY <2>3, <3>1
  <2> QED
    BY <2>2, <2>3, <2>4, <2>5, <2>6
<1>6. /\ Len(starts) = n + 1
      /\ Len(starts') = n + 2
      /\ starts'[n + 2] = Len(escaped) + Size(b) + 1
      /\ \A k \in 1 .. n + 1 : starts'[k] = starts[k] /\ starts[k] \in Nat \ {0}
  <2> DEFINE x == Len(escaped') + 1
  <2>1. Len(starts) = n + 1 /\ starts \in Seq(Nat \ {0})
    BY Lengths DEF Layout, Consecutive
  <2>2. x \in Nat \ {0} /\ x = Len(escaped) + Size(b) + 1
    BY <1>4, <1>5
  <2>3. starts' = Append(starts, x)
    BY DEF Escape
  <2> HIDE DEF x
  <2>4. /\ Len(starts') = Len(starts) + 1 /\ starts'[Len(starts) + 1] = x
        /\ \A k \in 1 .. Len(starts) : starts'[k] = starts[k]
    BY <2>1, <2>2, <2>3, AppendProperties
  <2>5. \A k \in 1 .. Len(starts) : starts[k] \in Nat \ {0}
    BY <2>1, ElementOfSeq
  <2>6. n \in Nat /\ (n + 1) + 1 = n + 2
    BY Lengths
  <2> QED
    BY <2>1, <2>2, <2>4, <2>5, <2>6
<1>7. starts[n + 1] = Len(escaped) + 1
  <2>1. /\ starts[n + 1] >= Len(escaped) + 1
        /\ \A k \in 1 .. n + 1 : starts[k] <= Len(escaped) + 1
    BY DEF Layout, Extent, Escape
  <2>2. n + 1 \in 1 .. n + 1 /\ starts[n + 1] \in Nat
    BY <1>2, <1>6
  <2>3. starts[n + 1] <= Len(escaped) + 1
    BY <2>1, <2>2
  <2> QED
    BY <1>5, <2>1, <2>2, <2>3
<1> HIDE DEF n
<1>8. Consecutive'
  <2>1. \A k \in 1 .. n + 1 : starts'[k + 1] = starts'[k] + Size(data'[k])
    <3> TAKE k \in 1 .. n + 1
    <3>1. CASE k = n + 1
      <4>1. n + 1 \in 1 .. n + 1 /\ (n + 1) + 1 = n + 2
        BY <1>2
      <4>2. /\ starts'[n + 1] = Len(escaped) + 1
            /\ Size(data'[n + 1]) = Size(b)
        BY <1>2, <1>6, <1>7, <4>1
      <4>3. starts'[n + 2] = (Len(escaped) + 1) + Size(b)
        BY <1>4, <1>5, <1>6
      <4> QED
        BY <3>1, <4>1, <4>2, <4>3
    <3>2. CASE k \in 1 .. n
      BY <1>2, <1>6, <3>2 DEF Layout, Consecutive, n
    <3> QED
      BY <1>2, <3>1, <3>2
  <2>2. starts'[1] = 1
    BY <1>2, <1>6 DEF Layout, Consecutive
  <2> QED
    BY <1>2, <1>6, <2>1, <2>2 DEF Consecutive, Size
<1>9. Placed'
  <2> SUFFICES ASSUME NEW k \in 1 .. n + 1
      PROVE  /\ starts'[k] <= Len(escaped') =>
                   escaped'[starts'[k]] =
                       IF data'[k] \in Special THEN DLE ELSE data'[k]
             /\ data'[k] \in Special /\ starts'[k] + 1 <= Len(escaped') =>
                   escaped'[starts'[k] + 1] = data'[k]
    BY <1>2 DEF Placed
  <2>1. CASE k = n + 1
    BY <1>2, <1>3, <1>5, <1>6, <1>7, <2>1
  <2>2. CASE k \in 1 .. n
    <3>1. /\ starts[k] \in Nat \ {0} /\ starts[k + 1] \in Nat
          /\ starts[k + 1] = starts[k] + Size(data[k])
          /\ starts[k + 1] <= Len(escaped) + 1
      <4>1. k \in 1 .. n + 1 /\ k + 1 \in 1 .. n + 1
        BY <1>2, <2>2
      <4>2. starts[k + 1] = starts[k] + Size(data[k])
        BY <2>2 DEF Layout, Consecutive, n
      <4>3. starts[k + 1] <= Len(escaped) + 1
        BY <4>1 DEF Layout, Extent, Escape, n
      <4> QED
        BY <1>6, <4>1, <4>2, <4>3
    <3>2. /\ starts[k] <= Len(escaped)
          /\ data[k] \in Special => starts[k] + 1 <= Len(escaped)
      BY <1>5, <3>1 DEF Size
    <3>3. /\ escaped[starts[k]] = IF data[k] \in Special THEN DLE ELSE data[k]
          /\ data[k] \in Special => escaped[starts[k] + 1] = data[k]
      BY <2>2, <3>2 DEF Layout, Placed, n
    <3>4. starts'[k] = starts[k] /\ data'[k] = data[k]
      BY <1>2, <1>6, <2>2
    <3>5. /\ escaped'[starts[k]] = escaped[starts[k]]
          /\ data[k] \in Special => escaped'[starts[k] + 1] = escaped[starts[k] + 1]
      <4>1. /\ starts[k] \in 1 .. Len(escaped)
            /\ data[k] \in Special => starts[k] + 1 \in 1 .. Len(escaped)
        BY <1>5, <3>1, <3>2
      <4> QED
        BY <1>5, <4>1
    <3> QED
      BY <3>3, <3>4, <3>5
  <2> QED
    BY <1>2, <2>1, <2>2
<1>10. Extent'
  <2>1. ~cut /\ cut' = cut
    BY DEF Layout, Extent, Escape
  <2>2. \A k \in 1 .. n + 1 : starts[k] <= Len(escaped) + 1
    BY <2>1 DEF Layout, Extent, n
  <2>3. \A k \in 1 .. n + 2 : starts'[k] <= Len(escaped') + 1
    BY <1>2, <1>4, <1>5, <1>6, <2>2
  <2> QED
    BY <1>2, <1>4, <1>5, <1>6, <2>1, <2>3 DEF Extent
<1>11. Undone'
  <2>1. unescaped = <<>> /\ Len(unescaped) = 0 /\ it = starts[1]
    BY DEF Layout, Undone, Escape
  <2>2. unescaped' = unescaped /\ it' = it
    BY DEF Escape
  <2> QED
    BY <1>2, <1>6, <2>1, <2>2 DEF Undone
<1>12. Ended'
  BY DEF Escape, Ended
<1> QED
  BY <1>8, <1>9, <1>10, <1>11, <1>12 DEF Layout

LEMMA LayoutReceive ==
    ASSUME TypeOK, Layout, NEW n \in 0 .. Len(escaped), Receive(n)
    PROVE  Layout'
<1>1. /\ Len(escaped) \in Nat
      /\ Len(escaped') = n
      /\ \A i \in 1 .. n : escaped'[i] = escaped[i]
  BY Lengths, SubSeqProperties, ElementOfSeq DEF Receive
<1>2. /\ UNCHANGED <<data, starts, it, unescaped>>
      /\ ~cut' => n = Len(escaped)
      /\ phase' = "unescape" /\ ~cut
  <2>1. cut' = (n < Len(escaped)) /\ phase = "escape" /\ phase' = "unescape"
    BY DEF Receive
  <2>2. ~(n < Len(escaped)) => n = Len(escaped)
    BY <1>1
  <2>3. ~cut' => n = Len(escaped)
    BY <2>1, <2>2, Zenon
  <2>4. ~cut
    BY <2>1 DEF Layout, Extent
  <2> QED
    BY <2>1, <2>3, <2>4 DEF Receive
<1>3. /\ Len(data) \in Nat
      /\ \A k \in 1 .. Len(data) + 1 : starts[k] \in Nat \ {0}
  BY Lengths, ElementOfSeq DEF Layout, Consecutive
<1>4. Consecutive'
  BY <1>2 DEF Layout, Consecutive, Size
<1>5. Placed'
  <2> SUFFICES ASSUME NEW k \in 1 .. Len(data)
      PROVE  /\ starts[k] <= n =>
                   escaped'[starts[k]] =
                       IF data[k] \in Special THEN DLE ELSE data[k]
             /\ data[k] \in Special /\ starts[k] + 1 <= n =>
                   escaped'[starts[k] + 1] = data[k]
    BY <1>1, <1>2 DEF Placed
  <2> DEFINE p == starts[k]
  <2>1. p \in Nat \ {0}
    BY <1>3
  <2>2. /\ p <= Len(escaped) =>
               escaped[p] = IF data[k] \in Special THEN DLE ELSE data[k]
        /\ data[k] \in Special /\ p + 1 <= Len(escaped) => escaped[p + 1] = data[k]
    BY DEF Layout, Placed
  <2> HIDE DEF p
  <2>3. /\ p <= n => p <= Len(escaped) /\ escaped'[p] = escaped[p]
        /\ p + 1 <= n => p + 1 <= Len(escaped) /\ escaped'[p + 1] = escaped[p + 1]
    BY <1>1, <2>1
  <2> HIDE DEF Special
  <2>4. /\ p <= n => escaped'[p] = IF data[k] \in Special THEN DLE ELSE data[k]
        /\ data[k] \in Special /\ p + 1 <= n => escaped'[p + 1] = data[k]
    BY <2>2, <2>3
  <2> QED
    BY <2>4 DEF p
<1>6. Extent'
  <2>1. Len(data) + 1 \in 1 .. Len(data) + 1
    BY <1>3
  <2>2. starts[Len(data) + 1] >= n + 1
    BY <1>1, <1>3, <2>1 DEF Layout, Extent
  <2> QED
    BY <1>1, <1>2, <2>2 DEF Layout, Extent
<1>7. Undone' /\ Ended'
  BY <1>2 DEF Layout, Undone, Ended
<1> QED
  BY <1>4, <1>5, <1>6, <1>7 DEF Layout

(* Where unescape() stands while there is something left: at the start of a
   byte, with its escape character if it has one. *)
LEMMA AtByte ==
    ASSUME TypeOK, Layout, it <= Len(escaped)
    PROVE  LET k == Len(unescaped) + 1
           IN  /\ k \in 1 .. Len(data)
               /\ starts[k + 1] = it + Size(data[k])
               /\ ReadAt = it + Size(data[k]) - 1
               /\ ReadAt <= Len(escaped) => escaped[ReadAt] = data[k]
<1> DEFINE k == Len(unescaped) + 1
<1>1. /\ Len(data) \in Nat /\ Len(unescaped) \in Nat /\ Len(escaped) \in Nat
      /\ it \in Nat \ {0} /\ Len(unescaped) <= Len(data) /\ it = starts[k]
  BY Lengths DEF TypeOK, Layout, Undone
<1>2. k # Len(data) + 1
  BY <1>1 DEF Layout, Extent
<1>3. k \in 1 .. Len(data)
  BY <1>1, <1>2
<1> HIDE DEF k
<1>4. starts[k + 1] = it + Size(data[k])
  BY <1>1, <1>3 DEF Layout, Consecutive
<1>5. /\ escaped[it] = IF data[k] \in Special THEN DLE ELSE data[k]
      /\ data[k] \in Special /\ it + 1 <= Len(escaped) =>
             escaped[it + 1] = data[k]
  BY <1>1, <1>3 DEF Layout, Placed
<1>6. escaped[it] = DLE <=> data[k] \in Special
  BY <1>5 DEF Special
<1>7. ReadAt = it + Size(data[k]) - 1
  BY <1>1, <1>6 DEF ReadAt, Size
<1>8. ReadAt <= Len(escaped) => escaped[ReadAt] = data[k]
  BY <1>5, <1>6 DEF ReadAt
<1> QED
  BY <1>3, <1>4, <1>7, <1>8 DEF k

LEMMA LayoutUnescape ==
    ASSUME TypeOK, Layout, UnescapeByte
    PROVE  Layout'
<1> DEFINE k == Len(unescaped) + 1
<1>1. /\ k \in 1 .. Len(data) /\ Len(data) \in Nat /\ Len(unescaped) \in Nat
      /\ starts[k + 1] = ReadAt + 1
      /\ escaped[ReadAt] = data[k]
      /\ ReadAt \in 1 .. Len(escaped)
  <2>1. Size(data[k]) \in {1, 2} /\ it \in Nat \ {0}
    BY DEF Size, TypeOK
  <2> QED
    BY <2>1, AtByte, Lengths DEF UnescapeByte
<1>2. escaped[ReadAt] \in Byte
  BY <1>1, Lengths, ElementOfSeq
<1>3. /\ Len(unescaped') = k
      /\ unescaped'[k] = data[k]
      /\ \A j \in 1 .. Len(unescaped) : unescaped'[j] = unescaped[j]
  BY <1>1, <1>2, Lengths, AppendProperties DEF UnescapeByte
<1>4. UNCHANGED <<phase, data, escaped, starts, cut>> /\ it' = starts[k + 1]
  BY <1>1 DEF UnescapeByte
<1>5. \A j \in 1 .. k : unescaped'[j] = data[j]
  BY <1>1, <1>3 DEF Layout, Undone
<1>6. Undone'
  BY <1>1, <1>3, <1>4, <1>5 DEF Undone, UnescapeByte
<1>7. Consecutive' /\ Placed' /\ Extent'
  BY <1>4 DEF Layout, Consecutive, Placed, Extent, Size
<1>8. Ended'
  BY <1>4 DEF UnescapeByte, Ended
<1> QED
  BY <1>6, <1>7, <1>8 DEF Layout

LEMMA LayoutEnds ==
    ASSUME TypeOK, Layout, Overrun \/ Finish
    PROVE  Layout'
<1>1. /\ UNCHANGED <<data, escaped, starts, cut, it, unescaped>>
      /\ phase' # "escape"
  BY DEF Overrun, Finish
<1>2. Consecutive' /\ Placed' /\ Extent' /\ Undone'
  BY <1>1 DEF Layout, Consecutive, Placed, Extent, Undone, Size
<1>3. /\ Len(data) \in Nat /\ Len(unescaped) \in Nat /\ Len(escaped) \in Nat
      /\ it \in Nat
      /\ \A k \in 1 .. Len(data) + 1 : starts[k] \in Nat
  BY Lengths, ElementOfSeq DEF TypeOK, Layout, Consecutive
<1> DEFINE k == Len(unescaped) + 1
<1>4. CASE Overrun
  <2>1. /\ k \in 1 .. Len(data)
        /\ starts[k + 1] = ReadAt + 1
        /\ ReadAt > Len(escaped) /\ ReadAt \in Nat
    <3>1. Size(data[k]) \in {1, 2}
      BY DEF Size
    <3> QED
      BY <1>3, <1>4, <3>1, AtByte DEF Overrun
  <2>2. k + 1 \in 1 .. Len(data) + 1
    BY <1>3, <2>1
  <2>3. cut
    BY <1>3, <2>1, <2>2 DEF Layout, Extent
  <2> QED
    BY <1>1, <1>2, <1>4, <2>3 DEF Overrun, Layout, Ended
<1>5. CASE Finish
  <2>1. ASSUME ~cut, Len(unescaped) # Len(data)
        PROVE  FALSE
    <3>1. k \in 1 .. Len(data) /\ k + 1 \in 1 .. Len(data) + 1
      BY <1>3, <2>1 DEF Layout, Undone
    <3>2. starts[k] = it /\ starts[k + 1] = it + Size(data[k])
      BY <3>1 DEF Layout, Undone, Consecutive
    <3>3. Size(data[k]) \in {1, 2}
      BY DEF Size
    <3>4. starts[k + 1] <= Len(escaped) + 1
      BY <2>1, <3>1 DEF Layout, Extent
    <3> QED
      BY <1>3, <1>5, <3>2, <3>3, <3>4 DEF Finish
  <2> QED
    BY <1>1, <1>2, <1>5, <2>1 DEF Finish, Layout, Ended
<1> QED
  BY <1>4, <1>5

LEMMA LayoutInvariance == Spec => [](TypeOK /\ Layout)
<1>1. Init => TypeOK /\ Layout
  BY InitType, LayoutInit
<1>2. TypeOK /\ Layout /\ [Next]_vars => (TypeOK /\ Layout)'
  <2> SUFFICES ASSUME TypeOK, Layout, [Next]_vars PROVE Layout'
    BY TypeStep
  <2>1. CASE UNCHANGED vars
    BY <2>1 DEF vars, Layout, Consecutive, Placed, Extent, Undone, Ended, Size
  <2> QED
    BY <2>1, LayoutEscape, LayoutReceive, LayoutUnescape, LayoutEnds DEF Next
<1> QED
  BY <1>1, <1>2, PTL DEF Spec

(* unescape() undoes escape(). *)
THEOREM UnescapeInvertsEscape == Spec => []UnescapeUndoesEscape
<1>1. TypeOK /\ Layout => UnescapeUndoesEscape
  <2> SUFFICES ASSUME TypeOK, Layout PROVE UnescapeUndoesEscape
    OBVIOUS
  <2> DEFINE n == Len(unescaped)
             s == SubSeq(unescaped, 1, n)
             t == SubSeq(data, 1, n)
  <2>1. /\ n \in Nat /\ Len(data) \in Nat /\ n <= Len(data)
        /\ \A k \in 1 .. n : unescaped[k] = data[k]
    BY Lengths DEF Layout, Undone
  <2>2. \A k \in 1 .. n : unescaped[k] \in Byte /\ data[k] \in Byte
    BY <2>1, Lengths, ElementOfSeq
  <2>3. /\ s \in Seq(Byte) /\ Len(s) = n
        /\ \A k \in 1 .. n : s[k] = unescaped[k]
    BY <2>1, <2>2, SubSeqProperties
  <2>4. /\ t \in Seq(Byte) /\ Len(t) = n
        /\ \A k \in 1 .. n : t[k] = data[k]
    BY <2>1, <2>2, SubSeqProperties
  <2>5. s = t
    <3> HIDE DEF s, t
    <3> QED
      BY <2>1, <2>3, <2>4, SeqEqual
  <2> QED
    BY <2>1, <2>5 DEF UnescapeUndoesEscape, IsPrefix, Layout, Ended
<1> QED
  BY <1>1, LayoutInvariance, PTL

(* Data that arrived whole is never read behind its end. *)
THEOREM NoOverrun == Spec => []WholeNeverOverruns
<1>1. Layout => WholeNeverOverruns
  BY DEF Layout, Ended, WholeNeverOverruns
<1> QED
  BY <1>1, LayoutInvariance, PTL

(* No bare delimiter in the middle of escaped data. *)
THEOREM DelimitersStayMarked == Spec => []DelimitersAreMarked
<1>1. Init => DelimitersAreMarked
  <2>1. Init => Len(escaped) = 0
    BY DEF Init
  <2> QED
    BY <2>1 DEF DelimitersAreMarked
<1>2. TypeOK /\ DelimitersAreMarked /\ [Next]_vars => DelimitersAreMarked'
  <2> SUFFICES ASSUME TypeOK, DelimitersAreMarked, [Next]_vars
               PROVE  DelimitersAreMarked'
    OBVIOUS
  <2>1. ASSUME NEW b \in Bytes, Escape(b)
        PROVE  DelimitersAreMarked'
    <3> DEFINE e == EscapeByte(b)
    <3>1. /\ e \in Seq(Byte)
          /\ b \in Special => Len(e) = 2 /\ e[1] = DLE /\ e[2] = b
          /\ b \notin Special => Len(e) = 1 /\ e[1] = b
      BY EscapedByte, SpecialBytes
    <3> HIDE DEF e
    <3>2. /\ Len(escaped) \in Nat
          /\ Len(escaped') = Len(escaped) + Len(e)
          /\ \A i \in 1 .. Len(escaped) + Len(e) :
                 escaped'[i] = IF i <= Len(escaped) THEN escaped[i]
                               ELSE e[i - Len(escaped)]
      <4>1. escaped' = escaped \o e
        BY <2>1 DEF Escape, e
      <4> QED
        BY <3>1, <4>1, Lengths, ConcatProperties
    <3>3. DLE \notin {SOH, EOT} /\ (b \in {SOH, EOT} => b \in Special)
      BY SpecialBytes DEF Special
    <3> SUFFICES ASSUME NEW i \in 1 .. Len(escaped) + Len(e),
                        escaped'[i] \in {SOH, EOT}
                 PROVE  i > 1 /\ escaped'[i - 1] = DLE
      BY <3>2 DEF DelimitersAreMarked
    <3>4. CASE i <= Len(escaped)
      <4>1. i > 1 /\ escaped[i - 1] = DLE
        BY <3>2, <3>4 DEF DelimitersAreMarked
      <4> QED
        BY <3>2, <3>4, <4>1
    <3>5. CASE i > Len(escaped)
      <4>1. escaped'[i] = e[i - Len(escaped)]
        BY <3>2, <3>5
      <4>2. b \in Special /\ i - Len(escaped) = 2
        <5> DEFINE j == i - Len(escaped)
        <5>0. j \in Nat /\ 1 <= j /\ j <= Len(e)
          <6>1. Len(e) \in Nat
            BY <3>1
          <6> QED
            BY <3>2, <3>5, <6>1
        <5>1. e[j] \in {SOH, EOT}
          BY <4>1
        <5> HIDE DEF j
        <5>2. b \in Special
          <6>1. b \notin Special => Len(e) = 1 /\ e[1] = b
            BY <3>1
          <6>2. Len(e) = 1 => j = 1
            BY <5>0
          <6> QED
            BY <3>3, <5>1, <6>1, <6>2
        <5>3. j = 1 \/ j = 2
          <6>1. Len(e) = 2
            BY <3>1, <5>2
          <6> QED
            BY <5>0, <6>1
        <5> QED
          BY <3>1, <3>3, <5>1, <5>2, <5>3 DEF j
      <4>3. escaped'[i - 1] = e[1] /\ i > 1
        BY <3>1, <3>2, <3>5, <4>2
      <4> QED
        BY <3>1, <4>2, <4>3
    <3> QED
      BY <3>2, <3>4, <3>5
  <2>2. ASSUME NEW n \in 0 .. Len(escaped), Receive(n)
        PROVE  DelimitersAreMarked'
    <3>1. /\ Len(escaped) \in Nat
          /\ Len(escaped') = n
          /\ \A i \in 1 .. n : escaped'[i] = escaped[i]
      BY <2>2, Lengths, SubSeqProperties, ElementOfSeq DEF Receive
    <3> QED
      BY <3>1 DEF DelimitersAreMarked
  <2>3. CASE UNCHANGED escaped
    BY <2>3 DEF DelimitersAreMarked
  <2> QED
    BY <2>1, <2>2, <2>3 DEF Next, UnescapeByte, Overrun, Finish, vars
<1> QED
  BY <1>1, <1>2, TypeCorrect, PTL DEF Spec

-----------------------------------------------------------------------------
(* Polynomials. *)

Up(p, j) == { i + j : i \in p }

(* One round of the long division. *)
Divide(k, p) == IF k \in p THEN Xor(p, {k, k - 4, k - 11, k - 16}) ELSE p

LEMMA XorMember ==
    ASSUME NEW a, NEW b, NEW x
    PROVE  x \in Xor(a, b) <=> (x \in a /\ x \notin b) \/ (x \notin a /\ x \in b)
  BY DEF Xor

LEMMA UpMember ==
    ASSUME NEW p \in SUBSET Int, NEW j \in Int, NEW x \in Int
    PROVE  x \in Up(p, j) <=> x - j \in p
<1>1. ASSUME x \in Up(p, j) PROVE x - j \in p
  <2>1. PICK i \in p : x = i + j
    BY <1>1 DEF Up
  <2>2. i \in Int /\ x - j = i
    BY <2>1
  <2> QED
    BY <2>2
<1>2. ASSUME x - j \in p PROVE x \in Up(p, j)
  <2>1. x = (x - j) + j
    OBVIOUS
  <2> QED
    BY <1>2, <2>1 DEF Up
<1> QED
  BY <1>1, <1>2

LEMMA UpType ==
    ASSUME NEW p \in SUBSET Int, NEW j \in Int
    PROVE  Up(p, j) \in SUBSET Int
  BY DEF Up

LEMMA XorType ==
    ASSUME NEW S, NEW a \in SUBSET S, NEW b \in SUBSET S
    PROVE  Xor(a, b) \in SUBSET S
  BY DEF Xor

(* Two sets of integers with the same members. *)
LEMMA SameMembers ==
    ASSUME NEW a \in SUBSET Int, NEW b \in SUBSET Int,
           \A x \in Int : x \in a <=> x \in b
    PROVE  a = b
  OBVIOUS

LEMMA UpXor ==
    ASSUME NEW a \in SUBSET Int, NEW b \in SUBSET Int, NEW j \in Int
    PROVE  Up(Xor(a, b), j) = Xor(Up(a, j), Up(b, j))
<1>1. Xor(a, b) \in SUBSET Int /\ Up(a, j) \in SUBSET Int /\ Up(b, j) \in SUBSET Int
  BY XorType, UpType
<1>2. /\ Up(Xor(a, b), j) \in SUBSET Int
      /\ Xor(Up(a, j), Up(b, j)) \in SUBSET Int
  BY <1>1, XorType, UpType
<1>3. ASSUME NEW x \in Int
      PROVE  x \in Up(Xor(a, b), j) <=> x \in Xor(Up(a, j), Up(b, j))
  <2>1. x \in Up(Xor(a, b), j) <=> x - j \in Xor(a, b)
    BY <1>1, UpMember
  <2>2. /\ x \in Up(a, j) <=> x - j \in a
        /\ x \in Up(b, j) <=> x - j \in b
    BY UpMember
  <2> QED
    BY <2>1, <2>2, XorMember
<1> QED
  BY <1>2, <1>3, SameMembers

LEMMA UpUp ==
    ASSUME NEW a \in SUBSET Int, NEW j \in Int, NEW l \in Int
    PROVE  Up(Up(a, j), l) = Up(a, j + l)
<1>1. Up(a, j) \in SUBSET Int /\ j + l \in Int
  BY UpType
<1>2. Up(Up(a, j), l) \in SUBSET Int /\ Up(a, j + l) \in SUBSET Int
  BY <1>1, UpType
<1>3. ASSUME NEW x \in Int
      PROVE  x \in Up(Up(a, j), l) <=> x \in Up(a, j + l)
  <2>1. x \in Up(Up(a, j), l) <=> (x - l) - j \in a
    BY <1>1, UpMember
  <2>2. x \in Up(a, j + l) <=> x - (j + l) \in a
    BY <1>1, UpMember
  <2>3. (x - l) - j = x - (j + l)
    OBVIOUS
  <2> QED
    BY <2>1, <2>2, <2>3
<1> QED
  BY <1>2, <1>3, SameMembers

LEMMA DivideType ==
    ASSUME NEW k \in Int, NEW p \in SUBSET Int
    PROVE  Divide(k, p) \in SUBSET Int
<1> DEFINE g == {k, k - 4, k - 11, k - 16}
<1>1. g \in SUBSET Int
  OBVIOUS
<1> HIDE DEF g
<1>2. Xor(p, g) \in SUBSET Int
  BY <1>1, XorType
<1> QED
  BY <1>2 DEF Divide, g

(* Division commutes with a shift, *)
LEMMA DivideShifted ==
    ASSUME NEW k \in Int, NEW p \in SUBSET Int, NEW j \in Int
    PROVE  Divide(k + j, Up(p, j)) = Up(Divide(k, p), j)
<1> DEFINE g == {k, k - 4, k - 11, k - 16}
<1>1. g \in SUBSET Int
  OBVIOUS
<1>2. Up(g, j) = {k + j, k + j - 4, k + j - 11, k + j - 16}
  BY DEF Up
<1>3. k + j \in Up(p, j) <=> k \in p
  <2>1. k + j \in Int /\ (k + j) - j = k
    OBVIOUS
  <2> QED
    BY <2>1, UpMember
<1> HIDE DEF g
<1>4. Up(Xor(p, g), j) = Xor(Up(p, j), Up(g, j))
  BY <1>1, UpXor
<1>5. Divide(k, p) = IF k \in p THEN Xor(p, g) ELSE p
  BY DEF Divide, g
<1>6. Divide(k + j, Up(p, j)) =
          IF k + j \in Up(p, j) THEN Xor(Up(p, j), Up(g, j)) ELSE Up(p, j)
  BY <1>2 DEF Divide
<1> QED
  BY <1>3, <1>4, <1>5, <1>6

(* and with adding what has no such term. *)
LEMMA DivideSum ==
    ASSUME NEW k, NEW p, NEW q, k \notin q
    PROVE  Divide(k, Xor(p, q)) = Xor(Divide(k, p), q)
<1> DEFINE g == {k, k - 4, k - 11, k - 16}
<1>1. k \in Xor(p, q) <=> k \in p
  BY XorMember
<1> HIDE DEF g
<1>2. Xor(Xor(p, q), g) = Xor(Xor(p, g), q)
  BY Zenon DEF Xor
<1>3. /\ Divide(k, p) = IF k \in p THEN Xor(p, g) ELSE p
      /\ Divide(k, Xor(p, q)) =
             IF k \in Xor(p, q) THEN Xor(Xor(p, q), g) ELSE Xor(p, q)
  BY DEF Divide, g
<1> QED
  BY <1>1, <1>2, <1>3

(* The loop over the bits divides: a bit that leaves the checksum is a term
   of the dividend. *)
LEMMA CrcBitDivides ==
    ASSUME NEW c \in SUBSET (0 .. 15), NEW j \in 0 .. 7
    PROVE  Divide(16 + j, Up(c, j + 1)) = Up(CrcBit(c), j)
<1> DEFINE wide == Up(c, 1)
           g == {16, 12, 5, 0}
<1>1. c \in SUBSET Int /\ g \in SUBSET Int /\ j \in Int
  OBVIOUS
<1>2. wide \in SUBSET Int
  BY <1>1, UpType
<1>3. Up(c, j + 1) = Up(wide, j)
  <2>1. 1 + j = j + 1
    OBVIOUS
  <2> QED
    BY <1>1, <2>1, UpUp
<1>4. Divide(16 + j, Up(wide, j)) = Up(Divide(16, wide), j)
  BY <1>1, <1>2, DivideShifted
<1>5. Divide(16, wide) = CrcBit(c)
  <2>1. 16 \in wide <=> 15 \in c
    <3>1. 16 - 1 = 15
      OBVIOUS
    <3> QED
      BY <1>1, <3>1, UpMember
  <2>2. ShiftLeft(c) = wide \ {16}
    BY DEF ShiftLeft, Up
  <2>3. g = Poly \union {16} /\ 16 \notin Poly
    BY DEF Poly
  <2>4. Divide(16, wide) = IF 16 \in wide THEN Xor(wide, g) ELSE wide
    BY DEF Divide
  <2> HIDE DEF wide, g
  <2>5. CASE 16 \in wide
    <3>1. Xor(wide, g) = Xor(wide \ {16}, Poly)
      BY <2>3, <2>5, Zenon DEF Xor
    <3> QED
      BY <2>1, <2>2, <2>4, <2>5, <3>1 DEF CrcBit
  <2>6. CASE 16 \notin wide
    <3>1. wide \ {16} = wide
      BY <2>6
    <3> QED
      BY <2>1, <2>2, <2>4, <2>6, <3>1 DEF CrcBit
  <2> QED
    BY <2>5, <2>6
<1> QED
  BY <1>3, <1>4, <1>5

(* Where the division begins. *)
Top == 8 * MaxBytes + 15

(* What is left of m above each term. *)
Divided(m) ==
    LET top == 8 * MaxBytes + 15
        divided[k \in 16 .. top + 1] ==
            IF k = top + 1 THEN m
            ELSE LET p == divided[k + 1]
                 IN  IF k \in p THEN Xor(p, {k, k - 4, k - 11, k - 16}) ELSE p
    IN  divided

(* The recursion of the division has a solution, so Divided is one. *)
LEMMA DividedSteps ==
    ASSUME NEW m \in SUBSET Int
    PROVE  /\ Remainder(m) = Divided(m)[16]
           /\ Divided(m)[Top + 1] = m
           /\ \A k \in 16 .. Top : Divided(m)[k] = Divide(k, Divided(m)[k + 1])
           /\ \A k \in 16 .. Top + 1 : Divided(m)[k] \in SUBSET Int
<1> DEFINE V == SUBSET Int
           F == [i \in Nat |-> [p \in V |-> Divide(Top + 1 - i, p)]]
           n == 8 * MaxBytes
<1>1. n \in Nat /\ Top \in Nat /\ Top = n + 15
  BY LoaderConstants DEF Top
<1>2. \A i \in Nat : F[i] \in [V -> V]
  <2> SUFFICES ASSUME NEW i \in Nat
               PROVE  F[i] \in [V -> V]
    OBVIOUS
  <2>1. Top + 1 - i \in Int
    BY <1>1
  <2>2. \A p \in V : Divide(Top + 1 - i, p) \in V
    BY <2>1, DivideType
  <2> QED
    BY <2>2
<1>3. \A i \in Nat : \A p \in V : F[i][p] = Divide(Top + 1 - i, p)
  OBVIOUS
<1>4. m \in V
  OBVIOUS
<1> HIDE DEF V, F, n
<1>5. PICK f \in [0 .. n -> V] : f[0] = m /\ \A i \in 1 .. n : f[i] = F[i][f[i - 1]]
  <2>1. \E f \in [0 .. n -> V] : Follows(f, m, F, n)
    BY <1>1, <1>2, <1>4, RecursionExists
  <2> QED
    BY <2>1 DEF Follows
<1> DEFINE g == [k \in 16 .. Top + 1 |-> f[Top + 1 - k]]
<1>6. g[Top + 1] = m
  <2>1. Top + 1 \in 16 .. Top + 1 /\ Top + 1 - (Top + 1) = 0
    BY <1>1
  <2> QED
    BY <1>5, <2>1
<1>7. \A k \in 16 .. Top + 1 : g[k] \in V
  <2>1. \A k \in 16 .. Top + 1 : Top + 1 - k \in 0 .. n
    BY <1>1
  <2> QED
    BY <1>5, <2>1
<1>8. \A k \in 16 .. Top : g[k] = Divide(k, g[k + 1])
  <2> SUFFICES ASSUME NEW k \in 16 .. Top
               PROVE  g[k] = Divide(k, g[k + 1])
    OBVIOUS
  <2> DEFINE i == Top + 1 - k
  <2>1. /\ i \in 1 .. n /\ i \in Nat
        /\ i - 1 = Top + 1 - (k + 1)
        /\ Top + 1 - i = k
        /\ k \in 16 .. Top + 1 /\ k + 1 \in 16 .. Top + 1
    BY <1>1
  <2>2. g[k] = f[i] /\ g[k + 1] = f[i - 1]
    BY <2>1
  <2>3. f[i] = F[i][f[i - 1]]
    BY <1>5, <2>1
  <2>4. f[i - 1] \in V
    BY <1>7, <2>1, <2>2
  <2>5. F[i][f[i - 1]] = Divide(Top + 1 - i, f[i - 1])
    BY <1>3, <2>1, <2>4
  <2> HIDE DEF i, g
  <2> QED
    BY <2>1, <2>2, <2>3, <2>5
<1>9. g = [k \in 16 .. Top + 1 |-> IF k = Top + 1 THEN m ELSE Divide(k, g[k + 1])]
  <2>1. \A k \in 16 .. Top + 1 :
            g[k] = IF k = Top + 1 THEN m ELSE Divide(k, g[k + 1])
    <3>1. \A k \in 16 .. Top + 1 : k # Top + 1 => k \in 16 .. Top
      BY <1>1
    <3> HIDE DEF g
    <3> QED
      BY <1>6, <1>8, <3>1
  <2>2. g = [k \in 16 .. Top + 1 |-> g[k]]
    OBVIOUS
  <2> HIDE DEF g
  <2> QED
    BY <2>1, <2>2
<1> HIDE DEF g
<1>10. Divided(m) = [k \in 16 .. Top + 1 |->
           IF k = Top + 1 THEN m ELSE Divide(k, Divided(m)[k + 1])]
  BY <1>9 DEF Divided, Divide, Top
<1>11. Remainder(m) = Divided(m)[16]
  BY DEF Remainder, Divided
<1> DEFINE d == Divided(m)
<1> HIDE DEF d
<1>12. d = [k \in 16 .. Top + 1 |-> IF k = Top + 1 THEN m ELSE Divide(k, d[k + 1])]
  BY <1>10 DEF d
<1>13. d[Top + 1] = m
  <2>1. Top + 1 \in 16 .. Top + 1
    BY <1>1
  <2> QED
    BY <1>12, <2>1
<1>14. \A k \in 16 .. Top : d[k] = Divide(k, d[k + 1])
  <2>1. \A k \in 16 .. Top : k \in 16 .. Top + 1 /\ k # Top + 1
    BY <1>1
  <2> QED
    BY <1>12, <2>1
<1>15. \A k \in 16 .. Top + 1 : d[k] \in V
  <2> DEFINE S == { i \in Nat : i <= n => d[Top + 1 - i] \in V }
  <2>1. 0 \in S
    <3>1. Top + 1 - 0 = Top + 1
      BY <1>1
    <3> QED
      BY <1>4, <1>13, <3>1
  <2>2. ASSUME NEW i \in Nat, i \in S
        PROVE  i + 1 \in S
    <3> SUFFICES ASSUME i + 1 <= n
                 PROVE  d[Top + 1 - (i + 1)] \in V
      OBVIOUS
    <3>1. /\ Top + 1 - (i + 1) \in 16 .. Top
          /\ (Top + 1 - (i + 1)) + 1 = Top + 1 - i
          /\ Top + 1 - (i + 1) \in Int
      BY <1>1
    <3>2. d[Top + 1 - i] \in V
      BY <1>1, <2>2
    <3>3. d[Top + 1 - (i + 1)] = Divide(Top + 1 - (i + 1), d[Top + 1 - i])
      BY <1>14, <3>1
    <3> QED
      BY <3>1, <3>2, <3>3, DivideType DEF V
  <2>3. \A k \in 16 .. Top + 1 :
            Top + 1 - k \in Nat /\ Top + 1 - k <= n /\ Top + 1 - (Top + 1 - k) = k
    BY <1>1
  <2> HIDE DEF S
  <2>4. Nat \subseteq S
    BY <2>1, <2>2, Induction
  <2> USE DEF S
  <2> QED
    BY <2>3, <2>4
<1> QED
  BY <1>11, <1>13, <1>14, <1>15 DEF d, V

(* Above its terms a polynomial divides to itself. *)
LEMMA DivisionSkips ==
    ASSUME NEW m \in SUBSET Int, NEW l \in 16 .. Top + 1,
           \A x \in m : x < l
    PROVE  Divided(m)[l] = m
<1> DEFINE d == Divided(m)
           S == { i \in Nat : i <= Top + 1 - l => d[Top + 1 - i] = m }
<1>1. Top \in Nat /\ Top >= 15
  BY LoaderConstants DEF Top
<1>2. d[Top + 1] = m /\ \A k \in 16 .. Top : d[k] = Divide(k, d[k + 1])
  BY DividedSteps
<1> HIDE DEF d
<1>3. 0 \in S
  <2>1. Top + 1 - 0 = Top + 1
    BY <1>1
  <2> QED
    BY <1>2, <2>1
<1>4. ASSUME NEW i \in Nat, i \in S
      PROVE  i + 1 \in S
  <2> SUFFICES ASSUME i + 1 <= Top + 1 - l
               PROVE  d[Top + 1 - (i + 1)] = m
    OBVIOUS
  <2> DEFINE k == Top - i
  <2>1. /\ k \in 16 .. Top /\ k >= l
        /\ Top + 1 - (i + 1) = k /\ Top + 1 - i = k + 1
    BY <1>1
  <2>2. d[k + 1] = m
    BY <1>1, <1>4, <2>1
  <2>3. k \notin m
    BY <1>1, <2>1
  <2>4. d[k] = Divide(k, m)
    BY <1>2, <2>1, <2>2
  <2> HIDE DEF k
  <2> QED
    BY <2>1, <2>3, <2>4 DEF Divide
<1>5. Top + 1 - l \in Nat /\ Top + 1 - (Top + 1 - l) = l
  BY <1>1
<1> HIDE DEF S
<1>6. Nat \subseteq S
  BY <1>3, <1>4, Induction
<1> USE DEF S
<1> QED
  BY <1>5, <1>6 DEF d

(* What a byte more does to the remainder: the loops of crc16(). *)
LEMMA CrcByteDivides ==
    ASSUME NEW m \in SUBSET Int, NEW b \in Byte, Top >= 23,
           \A x \in m : 16 <= x /\ x <= Top - 8,
           Remainder(m) \in SUBSET (0 .. 15)
    PROVE  Remainder(Xor(Up(m, 8), Up(b, 16))) = CrcByte(Remainder(m), b)
<1> DEFINE low == Up(b, 16)
           w == Xor(Up(m, 8), low)
           d == Divided(m)
           e == Divided(w)
           c == Remainder(m)
<1>1. Top \in Nat
  BY LoaderConstants DEF Top
<1>2. /\ b \in SUBSET (0 .. 7) /\ b \in SUBSET Int /\ low \in SUBSET Int
      /\ Up(m, 8) \in SUBSET Int
  BY UpType DEF Byte, Bits
<1>3. w \in SUBSET Int
  BY <1>2, XorType
<1>4. \A x \in low : 16 <= x /\ x < 24
  BY <1>2 DEF Up
<1>5. /\ c = d[16]
      /\ \A k \in 16 .. Top : d[k] = Divide(k, d[k + 1])
      /\ \A k \in 16 .. Top + 1 : d[k] \in SUBSET Int
  BY DividedSteps
<1>6. /\ Remainder(w) = e[16]
      /\ e[Top + 1] = w
      /\ \A k \in 16 .. Top : e[k] = Divide(k, e[k + 1])
  BY <1>3, DividedSteps
<1>7. d[Top - 7] = m
  <2>1. Top - 7 \in 16 .. Top + 1 /\ \A x \in m : x < Top - 7
    BY <1>1
  <2> QED
    BY <2>1, DivisionSkips
<1>8. Up(d[16], 8) \in SUBSET Int /\ d[16] \in SUBSET Int
  BY <1>1, <1>5, UpType
<1> HIDE DEF low, w, d, e, c
<1>9. e[24] = Xor(Up(d[16], 8), low)
  <2> DEFINE S == { i \in Nat : i <= Top - 23 =>
                        e[Top + 1 - i] = Xor(Up(d[Top - 7 - i], 8), low) }
  <2>1. 0 \in S
    <3>1. Top + 1 - 0 = Top + 1 /\ Top - 7 - 0 = Top - 7
      BY <1>1
    <3> QED
      BY <1>6, <1>7, <3>1 DEF w
  <2>2. ASSUME NEW i \in Nat, i \in S
        PROVE  i + 1 \in S
    <3> SUFFICES ASSUME i + 1 <= Top - 23
                 PROVE  e[Top + 1 - (i + 1)] = Xor(Up(d[Top - 7 - (i + 1)], 8), low)
      OBVIOUS
    <3> DEFINE k == Top - 8 - i
               p == d[k + 1]
    <3>1. /\ k \in 16 .. Top /\ k \in Int /\ k + 8 \in 16 .. Top /\ k + 8 >= 24
          /\ k + 1 \in 16 .. Top + 1
          /\ Top + 1 - (i + 1) = k + 8 /\ Top - 7 - (i + 1) = k
          /\ Top + 1 - i = (k + 8) + 1 /\ Top - 7 - i = k + 1
      BY <1>1
    <3>2. p \in SUBSET Int
      BY <1>5, <3>1
    <3>3. i <= Top - 23
      BY <1>1
    <3>4. e[(k + 8) + 1] = Xor(Up(p, 8), low)
      BY <2>2, <3>1, <3>3
    <3> HIDE DEF k
    <3>5. e[k + 8] = Divide(k + 8, e[(k + 8) + 1])
      BY <1>6, <3>1
    <3>6. d[k] = Divide(k, p)
      BY <1>5, <3>1
    <3> HIDE DEF p, S
    <3>7. k + 8 \notin low
      BY <1>4, <3>1
    <3>8. Divide(k + 8, Xor(Up(p, 8), low)) = Xor(Divide(k + 8, Up(p, 8)), low)
      BY <3>7, DivideSum
    <3>9. Divide(k + 8, Up(p, 8)) = Up(Divide(k, p), 8)
      BY <3>1, <3>2, DivideShifted
    <3> QED
      BY <3>1, <3>4, <3>5, <3>6, <3>8, <3>9
  <2>3. Top - 23 \in Nat /\ Top + 1 - (Top - 23) = 24 /\ Top - 7 - (Top - 23) = 16
    BY <1>1
  <2> HIDE DEF S
  <2>4. Nat \subseteq S
    BY <2>1, <2>2, Induction
  <2> USE DEF S
  <2> QED
    BY <2>3, <2>4
<1> DEFINE x0 == Xor(c, Up(b, 8))
<1>10. x0 \in SUBSET (0 .. 15)
  <2> DEFINE h == Up(b, 8)
  <2>1. h \in SUBSET (0 .. 15)
    BY <1>2 DEF Up
  <2>2. c \in SUBSET (0 .. 15)
    BY DEF c
  <2> HIDE DEF h
  <2>3. Xor(c, h) \in SUBSET (0 .. 15)
    BY <2>1, <2>2, Zenon DEF Xor
  <2> QED
    BY <2>3 DEF h
<1> DEFINE x1 == CrcBit(x0)  x2 == CrcBit(x1)  x3 == CrcBit(x2)  x4 == CrcBit(x3)
           x5 == CrcBit(x4)  x6 == CrcBit(x5)  x7 == CrcBit(x6)  x8 == CrcBit(x7)
<1>11. e[24] = Up(x0, 8)
  <2>1. Up(b, 8) \in SUBSET Int /\ c \in SUBSET Int
    BY <1>2, <1>5, <1>8, UpType
  <2>2. low = Up(Up(b, 8), 8)
    <3>1. 8 + 8 = 16
      OBVIOUS
    <3> QED
      BY <1>2, <3>1, UpUp DEF low
  <2> QED
    BY <1>5, <1>9, <2>1, <2>2, UpXor
<1>12. CrcByte(c, b) = x8
  BY DEF CrcByte, Up
<1> HIDE DEF x0
<1>13. ASSUME NEW j \in 0 .. 7, NEW y \in SUBSET (0 .. 15),
              e[16 + (j + 1)] = Up(y, j + 1)
       PROVE  e[16 + j] = Up(CrcBit(y), j) /\ CrcBit(y) \in SUBSET (0 .. 15)
  <2>1. 16 + j \in 16 .. Top /\ 16 + (j + 1) = (16 + j) + 1
    BY <1>1
  <2>2. e[16 + j] = Divide(16 + j, Up(y, j + 1))
    BY <1>6, <1>13, <2>1
  <2> QED
    BY <2>2, CrcBitDivides, CrcBitType
<1>14. e[23] = Up(x1, 7) /\ x1 \in SUBSET (0 .. 15)
  BY <1>10, <1>11, <1>13
<1> HIDE DEF x1
<1>15. e[22] = Up(x2, 6) /\ x2 \in SUBSET (0 .. 15)
  BY <1>13, <1>14
<1> HIDE DEF x2
<1>16. e[21] = Up(x3, 5) /\ x3 \in SUBSET (0 .. 15)
  BY <1>13, <1>15
<1> HIDE DEF x3
<1>17. e[20] = Up(x4, 4) /\ x4 \in SUBSET (0 .. 15)
  BY <1>13, <1>16
<1> HIDE DEF x4
<1>18. e[19] = Up(x5, 3) /\ x5 \in SUBSET (0 .. 15)
  BY <1>13, <1>17
<1> HIDE DEF x5
<1>19. e[18] = Up(x6, 2) /\ x6 \in SUBSET (0 .. 15)
  BY <1>13, <1>18
<1> HIDE DEF x6
<1>20. e[17] = Up(x7, 1) /\ x7 \in SUBSET (0 .. 15)
  BY <1>13, <1>19
<1> HIDE DEF x7
<1>21. e[16] = Up(x8, 0) /\ x8 \in SUBSET (0 .. 15)
  BY <1>13, <1>20
<1> HIDE DEF x8
<1>22. Up(x8, 0) = x8
  <2>1. x8 \in SUBSET Int
    BY <1>21
  <2>2. Up(x8, 0) \in SUBSET Int /\ \A x \in Int : x - 0 = x
    BY <2>1, UpType
  <2>3. \A x \in Int : x \in Up(x8, 0) <=> x \in x8
    BY <2>1, <2>2, UpMember
  <2> QED
    BY <2>1, <2>2, <2>3, SameMembers
<1> QED
  BY <1>6, <1>12, <1>21, <1>22 DEF w, c, low

(* The terms of the message. *)
LEMMA MessageTerms ==
    ASSUME TypeOK
    PROVE  /\ Message \in SUBSET Int
           /\ \A x \in Message : 16 <= x /\ x <= 8 * Len(data) + 15
<1>1. Len(data) \in Nat /\ \A i \in 1 .. Len(data) : data[i] \in SUBSET (0 .. 7)
  <2>1. data \in Seq(Byte)
    BY DEF TypeOK, Byte
  <2> QED
    BY <2>1, LenProperties, ElementOfSeq DEF Byte, Bits
<1>2. ASSUME NEW i \in 1 .. Len(data), NEW j \in data[i]
      PROVE  /\ 8 * (Len(data) - i) + j + 16 \in Int
             /\ 16 <= 8 * (Len(data) - i) + j + 16
             /\ 8 * (Len(data) - i) + j + 16 <= 8 * Len(data) + 15
  <2> DEFINE n == Len(data)
             m == 8 * (n - i)
             t == 8 * n
  <2>1. j \in Nat /\ j <= 7
    BY <1>1
  <2>2. m \in Nat /\ m <= t - 8 /\ t \in Nat
    BY <1>1
  <2> HIDE DEF m, t
  <2>3. m + j + 16 \in Int /\ 16 <= m + j + 16 /\ m + j + 16 <= t + 15
    BY <2>1, <2>2
  <2> QED
    BY <2>3 DEF m, t
<1>3. ASSUME NEW x \in Message
      PROVE  x \in Int /\ 16 <= x /\ x <= 8 * Len(data) + 15
  <2>1. PICK i \in 1 .. Len(data) : \E j \in data[i] : x = 8 * (Len(data) - i) + j + 16
    BY DEF Message
  <2> QED
    BY <1>2, <2>1
<1> QED
  BY <1>3

(* One more byte: the message is shifted, and the byte fills the gap. *)
LEMMA MessageGrows ==
    ASSUME TypeOK, NEW b \in Bytes, Escape(b)
    PROVE  Message' = Xor(Up(Message, 8), Up(b, 16))
<1> DEFINE n == Len(data)
           T(i, j) == 8 * (n - i) + j + 16
<1>1. /\ n \in Nat
      /\ \A i \in 1 .. n : data[i] \in SUBSET (0 .. 7)
      /\ b \in SUBSET (0 .. 7)
      /\ Len(data') = n + 1
      /\ \A i \in 1 .. n : data'[i] = data[i]
      /\ data'[n + 1] = b
  <2>1. data \in Seq(Byte) /\ b \in Byte /\ data' = Append(data, b)
    BY SpecialBytes DEF TypeOK, Escape, Byte
  <2> QED
    BY <2>1, LenProperties, ElementOfSeq, AppendProperties DEF Byte, Bits
<1>2. /\ Message \in SUBSET Int /\ b \in SUBSET Int
      /\ \A x \in Message : 16 <= x
  BY <1>1, MessageTerms
<1>3. /\ Up(Message, 8) \in SUBSET Int /\ Up(b, 16) \in SUBSET Int
      /\ Xor(Up(Message, 8), Up(b, 16)) \in SUBSET Int
  <2>1. Up(Message, 8) \in SUBSET Int /\ Up(b, 16) \in SUBSET Int
    BY <1>2, UpType
  <2> QED
    BY <2>1, XorType
<1>4. \A x : x \in Message <=> \E i \in 1 .. n : \E j \in data[i] : x = T(i, j)
  BY DEF Message
<1>5. \A x : x \in Message' <=>
          \E i \in 1 .. n + 1 : \E j \in data'[i] : x = 8 * (n + 1 - i) + j + 16
  <2>1. \A x : x \in Message' <=>
            \E i \in 1 .. Len(data') : \E j \in data'[i] :
                x = 8 * (Len(data') - i) + j + 16
    BY DEF Message
  <2> QED
    BY <1>1, <2>1
<1>6. \A x : x \in Message' =>
          x \in Int /\ (x - 8 \in Message \/ x - 16 \in b)
  <2> SUFFICES ASSUME NEW x, NEW i \in 1 .. n + 1, NEW j \in data'[i],
                      x = 8 * (n + 1 - i) + j + 16
               PROVE  x \in Int /\ (x - 8 \in Message \/ x - 16 \in b)
    BY <1>5
  <2>1. CASE i = n + 1
    <3>1. j \in b /\ j \in 0 .. 7
      BY <1>1, <2>1
    <3>2. x = j + 16 /\ x - 16 = j
      BY <1>1, <2>1, <3>1
    <3> QED
      BY <3>1, <3>2
  <2>2. CASE i \in 1 .. n
    <3>1. j \in data[i] /\ j \in 0 .. 7
      BY <1>1, <2>2
    <3>2. x \in Int /\ x - 8 = T(i, j)
      BY <1>1, <2>2, <3>1
    <3> QED
      BY <1>4, <2>2, <3>1, <3>2
  <2> QED
    BY <1>1, <2>1, <2>2
<1>7. ASSUME NEW x \in Int, x - 8 \in Message
      PROVE  x \in Message' /\ x - 16 \notin b
  <2>1. PICK i \in 1 .. n : \E j \in data[i] : x - 8 = T(i, j)
    BY <1>4, <1>7
  <2>2. PICK j \in data[i] : x - 8 = T(i, j)
    BY <2>1
  <2>3. j \in data'[i] /\ j \in 0 .. 7 /\ i \in 1 .. n + 1
    BY <1>1
  <2>4. x = 8 * (n + 1 - i) + j + 16
    BY <1>1, <2>2, <2>3
  <2>5. x - 16 >= 8
    BY <1>2, <1>7
  <2> QED
    BY <1>1, <1>5, <2>3, <2>4, <2>5
<1>8. ASSUME NEW x \in Int, x - 16 \in b
      PROVE  x \in Message' /\ x - 8 \notin Message
  <2>1. /\ n + 1 \in 1 .. n + 1 /\ x - 16 \in data'[n + 1] /\ x - 16 \in 0 .. 7
        /\ x = 8 * (n + 1 - (n + 1)) + (x - 16) + 16
    BY <1>1, <1>8
  <2>2. x - 8 < 16
    BY <2>1
  <2> QED
    BY <1>2, <1>5, <2>1, <2>2
<1>9. ASSUME NEW x \in Int
      PROVE  x \in Message' <=> x \in Xor(Up(Message, 8), Up(b, 16))
  <2>1. /\ x \in Up(Message, 8) <=> x - 8 \in Message
        /\ x \in Up(b, 16) <=> x - 16 \in b
    BY <1>2, UpMember
  <2> QED
    BY <1>6, <1>7, <1>8, <2>1, XorMember
<1> QED
  BY <1>3, <1>6, <1>9, SameMembers

(* crc16() divides: the checksum of a message is the remainder of its
   division by x^16 + x^12 + x^5 + 1, whatever its bytes and its length. *)
THEOREM CrcDivides == Spec => []CrcIsRemainder
<1>1. Top \in Nat /\ Top >= 15
  BY LoaderConstants DEF Top
<1>2. Init => CrcIsRemainder
  <2> SUFFICES ASSUME Init
               PROVE  CrcIsRemainder
    OBVIOUS
  <2>1. Message = {} /\ crc = {}
    BY DEF Init, Message
  <2>2. {} \in SUBSET Int /\ 16 \in 16 .. Top + 1 /\ \A x \in {} : x < 16
    BY <1>1
  <2>3. Remainder({}) = {}
    BY <2>2, DivisionSkips, DividedSteps
  <2> QED
    BY <2>1, <2>3 DEF CrcIsRemainder
<1>3. TypeOK /\ CrcIsRemainder /\ [Next]_vars => CrcIsRemainder'
  <2> SUFFICES ASSUME TypeOK, CrcIsRemainder, [Next]_vars
               PROVE  CrcIsRemainder'
    OBVIOUS
  <2>1. ASSUME NEW b \in Bytes, Escape(b)
        PROVE  CrcIsRemainder'
    <3>1. Len(data) \in Nat /\ Len(data) < MaxBytes
      <4>1. data \in Seq(Byte)
        BY DEF TypeOK, Byte
      <4> QED
        BY <2>1, <4>1, LenProperties DEF Escape
    <3>2. /\ Message \in SUBSET Int
          /\ \A x \in Message : 16 <= x /\ x <= 8 * Len(data) + 15
      BY MessageTerms
    <3>3. Top >= 23 /\ \A x \in Message : 16 <= x /\ x <= Top - 8
      <4>1. /\ 8 * Len(data) + 15 \in Int /\ 8 * Len(data) + 15 <= Top - 8
            /\ Top >= 23 /\ Top - 8 \in Int
        <5>1. MaxBytes \in Nat /\ MaxBytes >= Len(data) + 1
          BY <3>1, LoaderConstants
        <5>2. 8 * MaxBytes >= 8 * Len(data) + 8
          BY <3>1, <5>1
        <5> QED
          BY <3>1, <5>1, <5>2 DEF Top
      <4>2. \A x \in Message : x \in Int
        BY <3>2
      <4> QED
        BY <3>2, <4>1, <4>2
    <3>4. b \in Byte /\ Remainder(Message) \in SUBSET (0 .. 15)
      BY SpecialBytes DEF TypeOK, CrcIsRemainder
    <3>5. Remainder(Xor(Up(Message, 8), Up(b, 16))) = CrcByte(Remainder(Message), b)
      BY <3>2, <3>3, <3>4, CrcByteDivides
    <3>6. Remainder(Message)' = Remainder(Message')
      BY DEF Remainder
    <3> QED
      BY <2>1, <3>5, <3>6, MessageGrows DEF CrcIsRemainder, Escape
  <2>2. CASE UNCHANGED <<data, crc>>
    BY <2>2 DEF CrcIsRemainder, Message, Remainder
  <2> QED
    BY <2>1, <2>2 DEF Next, Receive, UnescapeByte, Overrun, Finish, vars
<1> QED
  BY <1>2, <1>3, TypeCorrect, PTL DEF Spec

=============================================================================
