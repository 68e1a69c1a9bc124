--------------------------- MODULE IntelHex_proofs ---------------------------
(***************************************************************************)
(* IntelHex for every radix, 16 among them: its invariants, and that it    *)
(* implements HexRecords.                                                  *)
(***************************************************************************)
EXTENDS IntelHex, SequenceTheorems, Recursion_proofs

-----------------------------------------------------------------------------
(* Bytes. *)

LEMMA ByteSizePositive == ByteSize \in Nat \ {0}
  BY HexConstants, SMT DEF HexConstants, ByteSize

(* A remainder is below the divisor, and a small number is its own. *)
LEMMA Remainder ==
    ASSUME NEW x \in Nat, NEW n \in Nat \ {0}
    PROVE  x % n \in 0 .. n - 1 /\ (x < n => x % n = x)
  BY SMT

(* b2() and the shift in HighDigit() give bytes. *)
LEMMA DigitsGiveBytes ==
    ASSUME NEW b \in Digit, m_pendingByte \in Byte
    PROVE  (b * Radix) % ByteSize \in Byte /\ b2(b) \in Byte
<1>1. b \in Nat /\ b * Radix \in Nat /\ m_pendingByte + b \in Nat
  BY HexConstants, ByteSizePositive, SMT DEF HexConstants, Digit, Byte
<1> QED
  BY <1>1, ByteSizePositive, Remainder DEF b2, Byte

-----------------------------------------------------------------------------
(* The record that is read. *)

(* How far the data has got, state by state.  After a record m_rec keeps what
   the callback left of it, and only ':' clears it. *)
Progress ==
    /\ m_rec.length \in Byte
    /\ m_pos \in Byte
    /\ m_pendingByte \in Byte
    /\ m_rec.data \in Seq(Byte)
    /\ m_rec = [type |-> m_rec.type, address |-> m_rec.address,
                length |-> m_rec.length, data |-> m_rec.data,
                checksum |-> m_rec.checksum]
    /\ m_strict \in Modes
    /\ m_strict /\ m_state = "ReadCountHigh" => started
    /\ m_state = "ReadCountHigh" /\ started => m_rec.data = <<>>
    /\ m_state \in {"ReadCountLow", "ReadAddressMsbHigh", "ReadAddressMsbLow",
                    "ReadAddressLsbHigh", "ReadAddressLsbLow",
                    "ReadRecordTypeHigh", "ReadRecordTypeLow"}
          => m_rec.data = <<>>
    /\ m_state \in {"ReadDataHigh", "ReadDataLow"}
          => Len(m_rec.data) = m_pos /\ m_pos < m_rec.length
    /\ m_state \in {"ReadChecksumHigh", "ReadChecksumLow"}
          => Len(m_rec.data) = m_rec.length

LEMMA ProgressInvariance ==
    ASSUME ~BareRecords \/ FALSE \notin Modes
    PROVE  Spec => [](Progress /\ DataMatchesLength)
<1> DEFINE Inv == Progress /\ DataMatchesLength
<1>1. Init => Inv
  BY ByteSizePositive, SMT DEF Init, clear, Invalid, Progress, DataMatchesLength, Byte
<1>2. Inv /\ [Next]_vars => Inv'
  <2> SUFFICES ASSUME Inv, [Next]_vars PROVE Inv'
    OBVIOUS
  <2>1. CASE StartCode
    BY <2>1, ByteSizePositive, SMT
       DEF StartCode, clear, Invalid, Progress, DataMatchesLength, Byte
  <2>2. CASE Skip \/ UNCHANGED vars
    BY <2>2 DEF Skip, vars, Progress, DataMatchesLength
  <2>3. ASSUME NEW b \in Digit, HighDigit(b) PROVE Inv'
    <3>1. m_pendingByte' \in Byte
      BY <2>3, DigitsGiveBytes DEF HighDigit, Progress
    <3>2. m_state = "ReadCountHigh" => m_rec.data = <<>>
      <4>1. BareRecords => m_strict = TRUE
        BY HexConstants DEF HexConstants, Progress
      <4> QED
        BY <2>3, <4>1 DEF HighDigit, Progress
    <3> QED
      BY <2>3, <3>1, <3>2 DEF HighDigit, Low, Progress, DataMatchesLength
  <2>4. ASSUME NEW b \in Digit, CountLow(b) PROVE Inv'
    <3>1. b2(b) \in Byte
      BY DigitsGiveBytes DEF Progress
    <3> QED
      BY <2>4, <3>1 DEF CountLow, Progress, DataMatchesLength
  <2>5. ASSUME NEW b \in Digit, AddressMsbLow(b) \/ AddressLsbLow(b) PROVE Inv'
    BY <2>5 DEF AddressMsbLow, AddressLsbLow, Progress, DataMatchesLength
  <2>6. ASSUME NEW b \in Digit, RecordTypeLow(b) PROVE Inv'
    BY <2>6, ByteSizePositive, SMT
       DEF RecordTypeLow, Progress, DataMatchesLength, Byte
  <2>7. ASSUME NEW b \in Digit, DataLow(b) PROVE Inv'
    <3>1. b2(b) \in Byte
      BY DigitsGiveBytes DEF Progress
    <3>2. /\ Len(m_rec.data) = m_pos /\ m_pos < m_rec.length
          /\ m_rec.length \in Byte /\ m_pos \in Byte
      BY <2>7 DEF DataLow, Progress
    <3>3. m_pos' = m_pos + 1
      <4>1. m_pos + 1 \in Nat /\ m_pos + 1 < ByteSize
        BY <3>2, ByteSizePositive, SMT DEF Byte
      <4> QED
        BY <2>7, <4>1, ByteSizePositive, Remainder DEF DataLow
    <3>4. /\ Append(m_rec.data, b2(b)) \in Seq(Byte)
          /\ Len(Append(m_rec.data, b2(b))) = m_pos + 1
      BY <3>1, <3>2, AppendProperties DEF Progress
    <3>5. m_pos + 1 \in Byte
      BY <3>2, ByteSizePositive, SMT DEF Byte
    <3>6. /\ m_rec'.length = m_rec.length
          /\ m_rec'.data = Append(m_rec.data, b2(b))
          /\ m_rec' = [type |-> m_rec'.type, address |-> m_rec'.address,
                       length |-> m_rec'.length, data |-> m_rec'.data,
                       checksum |-> m_rec'.checksum]
      BY <2>7 DEF DataLow, Progress
    <3>7. \/ m_state' = "ReadChecksumHigh" /\ m_pos + 1 = m_rec.length
          \/ m_state' = "ReadDataHigh" /\ m_pos + 1 < m_rec.length
      BY <2>7, <3>2, <3>3, SMT DEF DataLow, Byte
    <3>8. /\ DataMatchesLength'
          /\ m_pendingByte' = m_pendingByte /\ m_strict' = m_strict
      BY <2>7 DEF DataLow, DataMatchesLength
    <3> QED
      BY <3>2, <3>3, <3>4, <3>5, <3>6, <3>7, <3>8 DEF Progress
  <2>8. ASSUME NEW b \in Digit, ChecksumLow(b) PROVE Inv'
    BY <2>8, EmptySeq DEF ChecksumLow, Progress, DataMatchesLength
  <2> QED
    BY <2>1, <2>2, <2>3, <2>4, <2>5, <2>6, <2>7, <2>8 DEF Next
<1> QED
  BY <1>1, <1>2, PTL DEF Spec

(* A record that reaches the callback has as much data as it says, if every
   record has its start code or the parser insists on one. *)
THEOREM DataIsComplete ==
    ASSUME ~BareRecords \/ FALSE \notin Modes
    PROVE  Spec => []DataMatchesLength
  BY ProgressInvariance, PTL

-----------------------------------------------------------------------------
(* Types. *)

Record ==
    [type : Byte, address : 0 .. ByteSize * ByteSize - 1,
     length : Byte, data : Seq(Byte), checksum : Byte]

(* The two halves of an address: what overflows its 16 bits is cut off. *)
LEMMA AddressesFit ==
    ASSUME NEW b \in Byte, NEW address \in 0 .. ByteSize * ByteSize - 1
    PROVE  /\ b * ByteSize \in 0 .. ByteSize * ByteSize - 1
           /\ (address + b) % (ByteSize * ByteSize)
                 \in 0 .. ByteSize * ByteSize - 1
<1> DEFINE n == ByteSize
<1>1. n \in Nat /\ n >= 1 /\ b \in Nat /\ b <= n - 1
  BY ByteSizePositive, SMT DEF Byte
<1> HIDE DEF n
<1>2. b * n \in Nat /\ b * n <= (n - 1) * n
  BY <1>1, SMT
<1>3. (n - 1) * n = n * n - n /\ n * n \in Nat \ {0}
  BY <1>1, SMT
<1>4. b * n \in 0 .. n * n - 1
  BY <1>1, <1>2, <1>3, SMT
<1>5. address + b \in Nat
  BY <1>1, ByteSizePositive, SMT DEF Byte
<1>6. (address + b) % (n * n) \in 0 .. n * n - 1
  BY <1>3, <1>5, Remainder
<1> QED
  BY <1>4, <1>6 DEF n

(* The states are those the table Low leads from and to, and the one that
   waits. *)
LEMMA States ==
    /\ ReadState = {"ReadWait",
                    "ReadCountHigh", "ReadCountLow",
                    "ReadAddressMsbHigh", "ReadAddressMsbLow",
                    "ReadAddressLsbHigh", "ReadAddressLsbLow",
                    "ReadRecordTypeHigh", "ReadRecordTypeLow",
                    "ReadDataHigh", "ReadDataLow",
                    "ReadChecksumHigh", "ReadChecksumLow"}
    /\ \A s \in DOMAIN Low : Low[s] \in ReadState
<1>1. DOMAIN Low = {"ReadCountHigh", "ReadAddressMsbHigh", "ReadAddressLsbHigh",
                    "ReadRecordTypeHigh", "ReadDataHigh", "ReadChecksumHigh"}
  BY DEF Low
<1>2. /\ Low["ReadCountHigh"] = "ReadCountLow"
      /\ Low["ReadAddressMsbHigh"] = "ReadAddressMsbLow"
      /\ Low["ReadAddressLsbHigh"] = "ReadAddressLsbLow"
      /\ Low["ReadRecordTypeHigh"] = "ReadRecordTypeLow"
      /\ Low["ReadDataHigh"] = "ReadDataLow"
      /\ Low["ReadChecksumHigh"] = "ReadChecksumLow"
  BY DEF Low
<1>3. {Low[s] : s \in DOMAIN Low} =
          {"ReadCountLow", "ReadAddressMsbLow", "ReadAddressLsbLow",
           "ReadRecordTypeLow", "ReadDataLow", "ReadChecksumLow"}
  BY <1>1, <1>2
<1> QED
  BY <1>1, <1>3 DEF ReadState

(* The 8 and 16 bit fields of the record hold no more than that, whatever the
   input. *)
THEOREM ParserTypeCorrect == Spec => []TypeOK
<1> DEFINE Rest ==
        /\ m_strict \in BOOLEAN /\ m_state \in ReadState /\ m_rec \in Record
        /\ m_pos \in Byte /\ m_pendingByte \in Byte /\ started \in BOOLEAN
           Typed == input \in Digit \union {StartChar, OtherChar} /\ Rest
<1>0. 0 \in Byte /\ Invalid \in Byte /\ 0 \in 0 .. ByteSize * ByteSize - 1
  <2>1. 0 \in Byte /\ Invalid \in Byte
    BY ByteSizePositive, SMT DEF Byte, Invalid
  <2> DEFINE n == ByteSize
  <2>2. n \in Nat \ {0}
    BY ByteSizePositive
  <2> HIDE DEF n
  <2>3. n * n \in Nat \ {0}
    BY <2>2, SMT
  <2>4. 0 \in 0 .. n * n - 1
    BY <2>3, SMT
  <2> QED
    BY <2>1, <2>4 DEF n
<1>1. clear \in Record
  BY <1>0, EmptySeq DEF clear, Record
<1>2. Init => Typed
  BY <1>0, <1>1, HexConstants, States DEF HexConstants, Init
<1>3. Typed /\ [Next]_vars => Typed'
  <2> SUFFICES ASSUME Typed, [Next]_vars PROVE Typed'
    OBVIOUS
  <2>0. ASSUME NEW b \in Digit PROVE b2(b) \in Byte
    BY <2>0, DigitsGiveBytes
  <2>1. ASSUME StartCode PROVE Rest'
    BY <1>0, <1>1, <2>1, States DEF StartCode
  <2>2. ASSUME Skip \/ UNCHANGED vars PROVE Rest'
    BY <2>2 DEF Skip, vars
  <2>3. ASSUME NEW b \in Digit, HighDigit(b) PROVE Rest'
    BY <2>3, DigitsGiveBytes, States DEF HighDigit
  <2>4. ASSUME NEW b \in Digit, CountLow(b) PROVE Rest'
    <3>1. m_rec' \in Record
      BY <2>0, <2>4 DEF CountLow, Record
    <3> QED
      BY <2>4, <3>1, States DEF CountLow
  <2>5. ASSUME NEW b \in Digit, AddressMsbLow(b) PROVE Rest'
    <3>1. b2(b) * ByteSize \in 0 .. ByteSize * ByteSize - 1
      BY <1>0, <2>0, AddressesFit
    <3>2. m_rec' \in Record
      BY <2>5, <3>1 DEF AddressMsbLow, Record
    <3> QED
      BY <2>5, <3>2, States DEF AddressMsbLow
  <2>6. ASSUME NEW b \in Digit, AddressLsbLow(b) PROVE Rest'
    <3>1. m_rec.address \in 0 .. ByteSize * ByteSize - 1
      BY DEF Record
    <3>2. (m_rec.address + b2(b)) % (ByteSize * ByteSize)
              \in 0 .. ByteSize * ByteSize - 1
      BY <2>0, <3>1, AddressesFit
    <3>3. m_rec' \in Record
      BY <2>6, <3>2, Zenon DEF AddressLsbLow, Record
    <3> QED
      BY <2>6, <3>3, States DEF AddressLsbLow
  <2>7. ASSUME NEW b \in Digit, RecordTypeLow(b) PROVE Rest'
    <3>1. m_rec' \in Record
      BY <2>0, <2>7 DEF RecordTypeLow, Record
    <3> QED
      BY <1>0, <2>7, <3>1, States DEF RecordTypeLow
  <2>8. ASSUME NEW b \in Digit, DataLow(b) PROVE Rest'
    <3>1. Append(m_rec.data, b2(b)) \in Seq(Byte)
      BY <2>0, AppendProperties DEF Record
    <3>2. m_rec' \in Record
      BY <2>8, <3>1 DEF DataLow, Record
    <3>3. m_pos' \in Byte
      <4>1. m_pos + 1 \in Nat
        BY ByteSizePositive, SMT DEF Byte
      <4> QED
        BY <2>8, <4>1, ByteSizePositive, Remainder DEF DataLow, Byte
    <3> QED
      BY <2>8, <3>2, <3>3, States DEF DataLow
  <2>9. ASSUME NEW b \in Digit, ChecksumLow(b) PROVE Rest'
    <3>1. [m_rec EXCEPT !.checksum = b2(b)] \in Record
      BY <2>0 DEF Record
    <3>2. m_rec' \in Record
      BY <2>9, <3>1, EmptySeq DEF ChecksumLow, Record
    <3> QED
      BY <2>9, <3>2, States DEF ChecksumLow
  <2>10. input' \in Digit \union {StartChar, OtherChar}
    BY DEF Next, StartCode, Skip, vars
  <2>11. Rest'
    BY <2>1, <2>2, <2>3, <2>4, <2>5, <2>6, <2>7, <2>8, <2>9 DEF Next
  <2> QED
    BY <2>10, <2>11
<1>4. Typed => TypeOK
  BY DEF TypeOK, Record
<1> QED
  BY <1>2, <1>3, <1>4, PTL DEF Spec

-----------------------------------------------------------------------------
(* Arithmetic. *)

(* Division and its remainder. *)
LEMMA Quotient ==
    ASSUME NEW x \in Int, NEW n \in Nat \ {0}
    PROVE  /\ x \div n \in Int
           /\ (x \div n) * n <= x
           /\ x < (x \div n) * n + n
           /\ x % n = x - (x \div n) * n
  BY SMT

LEMMA Multiples ==
    ASSUME NEW p \in Int, NEW q \in Int, NEW n \in Nat \ {0}, p < q
    PROVE  p * n + n <= q * n
<1>1. q - p >= 1 /\ q - p \in Nat
  OBVIOUS
<1>2. (q - p) * n >= n
  BY <1>1, SMT
<1>3. (q - p) * n = q * n - p * n
  BY SMT
<1> QED
  BY <1>2, <1>3, SMT

(* The quotient and the remainder are the only numbers of their kind. *)
LEMMA DivMod ==
    ASSUME NEW q \in Int, NEW n \in Nat \ {0}, NEW r \in 0 .. n - 1
    PROVE  (q * n + r) \div n = q /\ (q * n + r) % n = r
<1> DEFINE x == q * n + r
           p == x \div n
<1>1. x \in Int
  BY SMT
<1>2. p \in Int /\ p * n <= x /\ x < p * n + n /\ x % n = x - p * n
  BY <1>1, Quotient
<1>3. p \in Int /\ p * n <= q * n + r /\ q * n + r < p * n + n
  BY <1>2
<1> HIDE DEF p
<1>6. p * n \in Int /\ q * n \in Int
  BY <1>3, SMT
<1>4. ~(p < q)
  BY <1>3, <1>6, Multiples, SMT
<1>5. ~(q < p)
  BY <1>3, <1>6, Multiples, SMT
<1>7. p = q
  BY <1>3, <1>4, <1>5
<1> QED
  BY <1>2, <1>6, <1>7 DEF p

(* A sum in 8 bits is the sum, in 8 bits. *)
LEMMA ModSum ==
    ASSUME NEW a \in Nat, NEW b \in Nat, NEW n \in Nat \ {0}
    PROVE  ((a % n) + b) % n = (a + b) % n
<1> DEFINE q == a \div n
           s == (a % n) + b
           p == s \div n
<1>1. q \in Int /\ a % n = a - q * n /\ a % n \in Int
  BY Quotient, SMT
<1>2. s \in Int
  BY <1>1
<1>3. p \in Int /\ p * n <= s /\ s < p * n + n /\ s % n = s - p * n
  BY <1>2, Quotient
<1> DEFINE r == s % n
<1>4. p * n \in Int /\ q * n \in Int /\ (p + q) * n \in Int /\ (p + q) * n = p * n + q * n
  BY <1>1, <1>3, SMT
<1> HIDE DEF q, p
<1>5. r \in 0 .. n - 1 /\ p + q \in Int
  BY <1>1, <1>2, <1>3, <1>4
<1>6. a + b = (p + q) * n + r
  BY <1>1, <1>3, <1>4
<1> HIDE DEF r
<1>7. ((p + q) * n + r) % n = r
  BY <1>5, DivMod
<1> QED
  BY <1>6, <1>7 DEF r

(* A number of two places. *)
LEMMA TwoPlaces ==
    ASSUME NEW n \in Nat \ {0}, NEW x \in 0 .. n * n - 1
    PROVE  /\ x \div n \in 0 .. n - 1 /\ x % n \in 0 .. n - 1
           /\ (x \div n) * n + (x % n) = x
<1> DEFINE q == x \div n
<1>1. n * n \in Int
  BY SMT
<1>2. x \in Int /\ 0 <= x /\ x < n * n
  BY <1>1
<1>3. q \in Int /\ q * n <= x /\ x < q * n + n /\ x % n = x - q * n
  BY <1>2, Quotient
<1> HIDE DEF q
<1>4. q * n \in Int
  BY <1>3, SMT
<1>5. q >= 0
  <2>1. q < 0 => q * n + n <= 0 * n
    BY <1>3, Multiples
  <2> QED
    BY <1>2, <1>3, <1>4, <2>1
<1>6. q < n
  <2>1. n < q => n * n + n <= q * n
    BY <1>3, Multiples
  <2>2. n = q => n * n = q * n
    OBVIOUS
  <2> QED
    BY <1>1, <1>2, <1>3, <1>4, <2>1, <2>2
<1>7. q \in 0 .. n - 1 /\ x % n \in 0 .. n - 1 /\ q * n + (x % n) = x
  BY <1>2, <1>3, <1>4, <1>5, <1>6
<1> QED
  BY <1>7 DEF q

(* The two's complement of a sum is the one byte that brings it to 0. *)
LEMMA Complement ==
    ASSUME NEW s \in Nat, NEW n \in Nat \ {0}
    PROVE  (CHOOSE c \in 0 .. n - 1 : (s + c) % n = 0) = (n - (s % n)) % n
<1> DEFINE q == s \div n
           r == s % n
           d == (n - r) % n
<1>1. q \in Int /\ r \in 0 .. n - 1 /\ s = q * n + r /\ q * n \in Int
  BY Quotient, SMT
<1> HIDE DEF q, r
<1>2. d \in 0 .. n - 1 /\ (s + d) % n = 0
  <2>1. CASE r = 0
    <3>1. (1 * n + 0) % n = 0 /\ n - r = 1 * n + 0
      BY <1>1, <2>1, DivMod
    <3>2. d = 0
      BY <3>1
    <3>3. s + 0 = q * n + 0 /\ 0 \in 0 .. n - 1
      BY <1>1, <2>1
    <3> QED
      BY <1>1, <3>2, <3>3, DivMod
  <2>2. CASE r # 0
    <3>1. n - r \in 0 .. n - 1 /\ (0 * n + (n - r)) % n = n - r /\ 0 * n + (n - r) = n - r
      BY <1>1, <2>2, DivMod
    <3>2. d = n - r
      BY <3>1
    <3>3. (q + 1) * n = q * n + n /\ (q + 1) * n \in Int
      BY <1>1, SMT
    <3>4. s + (n - r) = (q + 1) * n + 0 /\ 0 \in 0 .. n - 1 /\ q + 1 \in Int
      BY <1>1, <3>3
    <3>5. ((q + 1) * n + 0) % n = 0
      BY <3>4, DivMod
    <3>6. s + d = (q + 1) * n + 0
      BY <3>2, <3>4
    <3> QED
      BY <3>1, <3>2, <3>5, <3>6
  <2> QED
    BY <2>1, <2>2
<1> HIDE DEF d
<1>3. ASSUME NEW c \in 0 .. n - 1, (s + c) % n = 0
      PROVE  c = d
  <2> DEFINE k == (s + c) \div n
             l == (s + d) \div n
  <2>1. k \in Int /\ s + c = k * n /\ k * n \in Int
    BY <1>3, Quotient, SMT
  <2>2. l \in Int /\ s + d = l * n /\ l * n \in Int
    BY <1>2, Quotient, SMT
  <2> HIDE DEF k, l
  <2>3. ~(k < l) /\ ~(l < k)
    BY <1>2, <2>1, <2>2, Multiples
  <2> QED
    BY <1>2, <2>1, <2>2, <2>3
<1>4. d = (n - (s % n)) % n
  BY DEF d, r
<1> QED
  BY <1>2, <1>3, <1>4

-----------------------------------------------------------------------------
(* The sum of a record, in 8 bits by the parser and in full by what it
   implements. *)

(* The loop of checksum(). *)
Summed(r) ==
    LET first == Header(r)[1] + Header(r)[2] + Header(r)[3] + Header(r)[4]
        sum[i \in 0 .. r.length] ==
            IF i = 0 THEN first % ByteSize
            ELSE (sum[i - 1] + r.data[i]) % ByteSize
    IN  sum

(* The loop of the abstract check byte. *)
Totalled(digits) ==
    LET summed == 4 + Records!ByteAt(digits, 1)
        total[n \in 0 .. summed] ==
            IF n = 0 THEN 0 ELSE total[n - 1] + Records!ByteAt(digits, n)
    IN  total

(* The bytes that spell a record, up to its checksum. *)
Spells(digits, r) ==
    /\ \A i \in 1 .. 4 : Records!ByteAt(digits, i) = Header(r)[i]
    /\ \A i \in 1 .. r.length : Records!ByteAt(digits, 4 + i) = r.data[i]

LEMMA HeaderBytes ==
    ASSUME NEW r \in Record
    PROVE  /\ Header(r) \in Seq(Byte) /\ Len(Header(r)) = 4
           /\ Header(r)[1] = r.length /\ Header(r)[2] = r.address \div ByteSize
           /\ Header(r)[3] = r.address % ByteSize /\ Header(r)[4] = r.type
           /\ \A i \in 1 .. 4 : Header(r)[i] \in Byte
           /\ r.address = (r.address \div ByteSize) * ByteSize + (r.address % ByteSize)
<1> DEFINE q == r.address \div ByteSize
           m == r.address % ByteSize
<1>1. r.length \in Byte /\ r.type \in Byte
  BY DEF Record
<1>2. q \in Byte /\ m \in Byte /\ r.address = q * ByteSize + m
  BY ByteSizePositive, TwoPlaces DEF Record, Byte
<1>3. Header(r) = <<r.length, q, m, r.type>>
  BY DEF Header
<1> HIDE DEF q, m, Byte
<1>4. /\ Header(r) \in Seq(Byte) /\ Len(Header(r)) = 4
      /\ Header(r)[1] = r.length /\ Header(r)[2] = q
      /\ Header(r)[3] = m /\ Header(r)[4] = r.type
  BY <1>1, <1>2, <1>3
<1>5. \A i \in 1 .. 4 : i = 1 \/ i = 2 \/ i = 3 \/ i = 4
  OBVIOUS
<1>6. \A i \in 1 .. 4 : Header(r)[i] \in Byte
  BY <1>1, <1>2, <1>4, <1>5
<1> QED
  BY <1>2, <1>4, <1>6 DEF q, m

(* Both loops have values, and they are sums. *)
LEMMA SummedSteps ==
    ASSUME NEW r \in Record, Len(r.data) = r.length
    PROVE  /\ checksum(r) = (ByteSize - Summed(r)[r.length]) % ByteSize
           /\ Summed(r)[0] = (Header(r)[1] + Header(r)[2] + Header(r)[3] + Header(r)[4])
                                 % ByteSize
           /\ \A i \in 1 .. r.length :
                  Summed(r)[i] = (Summed(r)[i - 1] + r.data[i]) % ByteSize
<1> DEFINE first == Header(r)[1] + Header(r)[2] + Header(r)[3] + Header(r)[4]
           v == first % ByteSize
           n == r.length
           F == [i \in Nat |-> [t \in Int |-> (t + r.data[i]) % ByteSize]]
           G == [i \in Nat |-> IF i \in 1 .. n THEN F[i] ELSE [t \in Int |-> t]]
<1>1. /\ n \in Nat /\ ByteSize \in Nat \ {0}
      /\ \A i \in 1 .. n : r.data[i] \in Nat
  <2>1. r.data \in Seq(Byte) /\ r.length \in Byte
    BY DEF Record
  <2>2. \A i \in 1 .. n : r.data[i] \in Byte
    BY <2>1, ElementOfSeq
  <2> QED
    BY <2>1, <2>2, ByteSizePositive DEF Byte
<1>2. first \in Nat
  <2> HIDE DEF v, n, F, G
  <2>1. \A b \in Byte : b \in Nat
    BY ByteSizePositive DEF Byte
  <2>2. \A i \in 1 .. 4 : Header(r)[i] \in Byte
    BY HeaderBytes
  <2>3. 1 \in 1 .. 4 /\ 2 \in 1 .. 4 /\ 3 \in 1 .. 4 /\ 4 \in 1 .. 4
    OBVIOUS
  <2>4. /\ Header(r)[1] \in Nat /\ Header(r)[2] \in Nat
        /\ Header(r)[3] \in Nat /\ Header(r)[4] \in Nat
    BY <2>1, <2>2, <2>3
  <2>5. \A x1, x2, x3, x4 \in Nat : x1 + x2 + x3 + x4 \in Nat
    OBVIOUS
  <2> QED
    BY <2>4, <2>5, Zenon
<1> HIDE DEF first
<1>3. v \in Int
  BY <1>1, <1>2, Remainder
<1>4. \A i \in Nat : G[i] \in [Int -> Int]
  <2> SUFFICES ASSUME NEW i \in Nat
               PROVE  G[i] \in [Int -> Int]
    OBVIOUS
  <2>1. CASE i \in 1 .. n
    <3>1. ASSUME NEW t \in Int PROVE (t + r.data[i]) % ByteSize \in Int
      <4>1. t + r.data[i] \in Int
        BY <1>1, <2>1
      <4> QED
        BY <1>1, <4>1, SMT
    <3> QED
      BY <2>1, <3>1
  <2> QED
    BY <2>1
<1>5. \A i \in 1 .. n : \A t \in Int : G[i][t] = (t + r.data[i]) % ByteSize
  BY <1>1
<1> HIDE DEF v, n, F, G
<1>6. PICK f \in [0 .. n -> Int] : f[0] = v /\ \A i \in 1 .. n : f[i] = G[i][f[i - 1]]
  <2>1. \E f \in [0 .. n -> Int] : Follows(f, v, G, n)
    BY <1>1, <1>3, <1>4, RecursionExists
  <2> QED
    BY <2>1 DEF Follows
<1>7. \A i \in 1 .. n : f[i] = (f[i - 1] + r.data[i]) % ByteSize
  <2>1. \A i \in 1 .. n : i - 1 \in 0 .. n
    BY <1>1
  <2>2. \A i \in 1 .. n : f[i - 1] \in Int
    BY <1>6, <2>1
  <2> QED
    BY <1>5, <1>6, <2>2
<1>8. f = [i \in 0 .. n |-> IF i = 0 THEN v ELSE (f[i - 1] + r.data[i]) % ByteSize]
  <2>1. \A i \in 0 .. n : i # 0 => i \in 1 .. n
    BY <1>1
  <2> QED
    BY <1>6, <1>7, <2>1
<1>9. Summed(r) = [i \in 0 .. n |-> IF i = 0 THEN v
                                   ELSE (Summed(r)[i - 1] + r.data[i]) % ByteSize]
  BY <1>8 DEF Summed, v, n, first
<1>10. checksum(r) = (ByteSize - Summed(r)[r.length]) % ByteSize
  BY DEF checksum, Summed
<1> DEFINE d == Summed(r)
<1> HIDE DEF d
<1>11. d = [i \in 0 .. n |-> IF i = 0 THEN v ELSE (d[i - 1] + r.data[i]) % ByteSize]
  BY <1>9 DEF d
<1>12. d[0] = v /\ \A i \in 1 .. n : d[i] = (d[i - 1] + r.data[i]) % ByteSize
  <2>1. 0 \in 0 .. n /\ \A i \in 1 .. n : i \in 0 .. n /\ i # 0
    BY <1>1
  <2> QED
    BY <1>11, <2>1
<1> QED
  BY <1>10, <1>12 DEF d, v, n, first

LEMMA TotalledSteps ==
    ASSUME NEW digits, NEW last \in Nat, last = 4 + Records!ByteAt(digits, 1),
           \A i \in 1 .. last : Records!ByteAt(digits, i) \in Nat
    PROVE  /\ Records!CheckByte(digits) =
                   CHOOSE c \in 0 .. ByteSize - 1 :
                       (Totalled(digits)[last] + c) % ByteSize = 0
           /\ Totalled(digits)[0] = 0
           /\ \A i \in 1 .. last :
                  Totalled(digits)[i] = Totalled(digits)[i - 1] + Records!ByteAt(digits, i)
           /\ \A i \in 0 .. last : Totalled(digits)[i] \in Nat
<1> DEFINE n == 4 + Records!ByteAt(digits, 1)
           at(i) == Records!ByteAt(digits, i)
           G == [i \in Nat |-> [t \in Nat |-> IF i \in 1 .. n THEN t + at(i) ELSE t]]
           d == Totalled(digits)
<1>1. n \in Nat /\ n = last /\ \A i \in 1 .. n : at(i) \in Nat
  OBVIOUS
<1>2. d = [i \in 0 .. n |-> IF i = 0 THEN 0 ELSE d[i - 1] + at(i)]
  <2> HIDE DEF n, at, G, d
  <2>1. \A i \in Nat : G[i] \in [Nat -> Nat]
    <3>1. ASSUME NEW i \in Nat, NEW t \in Nat
          PROVE  (IF i \in 1 .. n THEN t + at(i) ELSE t) \in Nat
      BY <1>1
    <3> QED
      BY <3>1 DEF G
  <2>2. \A i \in 1 .. n : \A t \in Nat : G[i][t] = t + at(i)
    BY <1>1 DEF G
  <2>3. PICK f \in [0 .. n -> Nat] : f[0] = 0 /\ \A i \in 1 .. n : f[i] = G[i][f[i - 1]]
    <3>1. \E f \in [0 .. n -> Nat] : Follows(f, 0, G, n)
      <4>1. 0 \in Nat
        OBVIOUS
      <4> QED
        BY <1>1, <2>1, <4>1, RecursionExists
    <3> QED
      BY <3>1 DEF Follows
  <2>4. \A i \in 1 .. n : f[i] = f[i - 1] + at(i)
    <3>1. \A i \in 1 .. n : f[i - 1] \in Nat
      <4>1. \A i \in 1 .. n : i - 1 \in 0 .. n
        BY <1>1
      <4> QED
        BY <2>3, <4>1
    <3> QED
      BY <2>2, <2>3, <3>1
  <2>5. f = [i \in 0 .. n |-> IF i = 0 THEN 0 ELSE f[i - 1] + at(i)]
    <3>1. \A i \in 0 .. n : i # 0 => i \in 1 .. n
      BY <1>1
    <3> QED
      BY <2>3, <2>4, <3>1
  <2> QED
    BY <2>5 DEF Totalled, n, at, d
<1>3. Records!CheckByte(digits) =
          CHOOSE c \in 0 .. ByteSize - 1 : (d[n] + c) % ByteSize = 0
  BY DEF Records!CheckByte, Records!ByteSize, Totalled, ByteSize
<1> HIDE DEF n, at, G, d
<1>4. d[0] = 0 /\ \A i \in 1 .. n : d[i] = d[i - 1] + at(i)
  <2>1. 0 \in 0 .. n /\ \A i \in 1 .. n : i \in 0 .. n /\ i # 0
    BY <1>1
  <2> QED
    BY <1>2, <2>1
<1>5. \A i \in 0 .. n : d[i] \in Nat
  <2> DEFINE S == { i \in Nat : i <= n => d[i] \in Nat }
  <2>1. 0 \in S
    BY <1>4
  <2>2. ASSUME NEW i \in Nat, i \in S PROVE i + 1 \in S
    <3> SUFFICES ASSUME i + 1 <= n PROVE d[i + 1] \in Nat
      OBVIOUS
    <3>1. i + 1 \in 1 .. n /\ (i + 1) - 1 = i /\ d[i] \in Nat
      BY <1>1, <2>2
    <3> QED
      BY <1>1, <1>4, <3>1
  <2> HIDE DEF S
  <2>3. Nat \subseteq S
    BY <2>1, <2>2, Induction
  <2> USE DEF S
  <2> QED
    BY <1>1, <2>3
<1> QED
  BY <1>1, <1>3, <1>4, <1>5 DEF d, at

(* The parser's checksum of a record is the check byte of its spelling. *)
LEMMA ChecksumIsCheckByte ==
    ASSUME NEW r \in Record, Len(r.data) = r.length,
           NEW digits, Spells(digits, r)
    PROVE  Records!CheckByte(digits) = checksum(r)
<1> DEFINE n == r.length
           last == 4 + n
           d == Summed(r)
           t == Totalled(digits)
           at(i) == Records!ByteAt(digits, i)
           h == Header(r)
<1>1. /\ n \in Nat /\ ByteSize \in Nat \ {0}
      /\ \A i \in 1 .. n : r.data[i] \in Nat
      /\ \A i \in 1 .. 4 : h[i] \in Nat
      /\ h[1] = n
  <2>1. r.data \in Seq(Byte) /\ r.length \in Byte
    BY DEF Record
  <2>2. \A i \in 1 .. n : r.data[i] \in Byte
    BY <2>1, ElementOfSeq
  <2>3. \A i \in 1 .. 4 : h[i] \in Byte
    BY HeaderBytes
  <2>4. \A b \in Byte : b \in Nat
    BY ByteSizePositive DEF Byte
  <2> QED
    BY <2>1, <2>2, <2>3, <2>4, ByteSizePositive, HeaderBytes
<1>2. /\ \A i \in 1 .. 4 : at(i) = h[i]
      /\ \A i \in 1 .. n : at(4 + i) = r.data[i]
  BY DEF Spells
<1>3. last \in Nat /\ last = 4 + at(1)
  <2>1. 1 \in 1 .. 4
    OBVIOUS
  <2> QED
    BY <1>1, <1>2, <2>1
<1>4. \A i \in 1 .. last : at(i) \in Nat
  <2> SUFFICES ASSUME NEW i \in 1 .. last PROVE at(i) \in Nat
    OBVIOUS
  <2> HIDE DEF at, h
  <2>1. CASE i <= 4
    <3>1. i \in 1 .. 4
      BY <2>1
    <3> QED
      BY <1>1, <1>2, <3>1
  <2>2. CASE i > 4
    <3>1. i - 4 \in 1 .. n /\ 4 + (i - 4) = i
      BY <1>1, <2>2
    <3>2. at(4 + (i - 4)) = r.data[i - 4]
      BY <1>2, <3>1
    <3> QED
      BY <1>1, <3>1, <3>2
  <2> QED
    BY <1>1, <2>1, <2>2
<1>5. /\ Records!CheckByte(digits) =
              CHOOSE c \in 0 .. ByteSize - 1 : (t[last] + c) % ByteSize = 0
      /\ t[0] = 0
      /\ \A i \in 1 .. last : t[i] = t[i - 1] + at(i)
      /\ \A i \in 0 .. last : t[i] \in Nat
  BY <1>3, <1>4, TotalledSteps
<1>6. /\ checksum(r) = (ByteSize - d[n]) % ByteSize
      /\ d[0] = (h[1] + h[2] + h[3] + h[4]) % ByteSize
      /\ \A i \in 1 .. n : d[i] = (d[i - 1] + r.data[i]) % ByteSize
  BY SummedSteps
<1> HIDE DEF n, d, t, at, h
<1>7. t[4] = h[1] + h[2] + h[3] + h[4]
  <2>1. /\ 1 \in 1 .. last /\ 2 \in 1 .. last /\ 3 \in 1 .. last /\ 4 \in 1 .. last
        /\ 1 \in 1 .. 4 /\ 2 \in 1 .. 4 /\ 3 \in 1 .. 4 /\ 4 \in 1 .. 4
        /\ 1 - 1 = 0 /\ 2 - 1 = 1 /\ 3 - 1 = 2 /\ 4 - 1 = 3
    BY <1>1
  <2> HIDE DEF last
  <2>2. t[1] = 0 + h[1] /\ t[2] = t[1] + h[2] /\ t[3] = t[2] + h[3] /\ t[4] = t[3] + h[4]
    BY <1>2, <1>5, <2>1
  <2>3. h[1] \in Nat /\ h[2] \in Nat /\ h[3] \in Nat /\ h[4] \in Nat
    BY <1>1, <2>1
  <2>4. \A x \in Nat : 0 + x = x
    OBVIOUS
  <2> QED
    BY <2>2, <2>3, <2>4
<1>8. d[n] = t[last] % ByteSize
  <2> DEFINE S == { i \in Nat : i <= n => d[i] = t[4 + i] % ByteSize }
  <2>1. 0 \in S
    <3>1. 4 + 0 = 4
      OBVIOUS
    <3> QED
      BY <1>6, <1>7, <3>1
  <2>2. ASSUME NEW i \in Nat, i \in S PROVE i + 1 \in S
    <3> SUFFICES ASSUME i + 1 <= n PROVE d[i + 1] = t[4 + (i + 1)] % ByteSize
      OBVIOUS
    <3>1. /\ i <= n /\ i + 1 \in 1 .. n /\ (i + 1) - 1 = i
          /\ 4 + (i + 1) \in 1 .. last /\ (4 + (i + 1)) - 1 = 4 + i
          /\ 4 + i \in 0 .. last
      BY <1>1
    <3>2. d[i] = t[4 + i] % ByteSize
      BY <2>2, <3>1
    <3> HIDE DEF S, last
    <3>3. d[i + 1] = ((t[4 + i] % ByteSize) + r.data[i + 1]) % ByteSize
      BY <1>6, <3>1, <3>2
    <3>4. t[4 + (i + 1)] = t[4 + i] + r.data[i + 1]
      BY <1>2, <1>5, <3>1
    <3>5. t[4 + i] \in Nat /\ r.data[i + 1] \in Nat
      BY <1>1, <1>5, <3>1
    <3> DEFINE x == t[4 + i]
               y == r.data[i + 1]
    <3> HIDE DEF x, y
    <3>6. x \in Nat /\ y \in Nat
      BY <3>5 DEF x, y
    <3>7. ((x % ByteSize) + y) % ByteSize = (x + y) % ByteSize
      BY <1>1, <3>6, ModSum
    <3> QED
      BY <3>3, <3>4, <3>7 DEF x, y
  <2> HIDE DEF S
  <2>3. Nat \subseteq S
    BY <2>1, <2>2, Induction
  <2> USE DEF S
  <2> QED
    BY <1>1, <2>3
<1>9. t[last] \in Nat
  BY <1>1, <1>5
<1> HIDE DEF last
<1> QED
  BY <1>1, <1>5, <1>6, <1>8, <1>9, Complement

-----------------------------------------------------------------------------
(* Spelling. *)

(* The digits that spell the first n bytes of f. *)
Digits(f, n) ==
    [i \in 1 .. 2 * n |-> IF i % 2 = 1 THEN f[(i + 1) \div 2] \div Radix
                                       ELSE f[i \div 2] % Radix]

(* An index is that of the first or of the second digit of a byte. *)
LEMMA Halves ==
    ASSUME NEW n \in Nat, NEW i \in 1 .. 2 * n
    PROVE  \E k \in 1 .. n : \/ i = 2 * k - 1 /\ i % 2 = 1 /\ (i + 1) \div 2 = k
                             \/ i = 2 * k /\ i % 2 # 1 /\ i \div 2 = k
<1>1. CASE i % 2 = 1
  <2> DEFINE k == (i + 1) \div 2
  <2>1. k \in 1 .. n /\ i = 2 * k - 1
    BY <1>1
  <2> QED
    BY <1>1, <2>1
<1>2. CASE i % 2 # 1
  <2> DEFINE k == i \div 2
  <2>1. k \in 1 .. n /\ i = 2 * k
    BY <1>2
  <2> QED
    BY <1>2, <2>1
<1> QED
  BY <1>1, <1>2

LEMMA HalvesOf ==
    ASSUME NEW n \in Nat, NEW k \in 1 .. n
    PROVE  /\ 2 * k - 1 \in 1 .. 2 * n /\ (2 * k - 1) % 2 = 1
           /\ ((2 * k - 1) + 1) \div 2 = k
           /\ 2 * k \in 1 .. 2 * n /\ (2 * k) % 2 # 1 /\ (2 * k) \div 2 = k
  OBVIOUS

LEMMA RadixType == Radix \in Nat \ {0} /\ Digit = 0 .. Radix - 1 /\ Records!Digit = Digit
  BY HexConstants DEF Digit, Records!Digit

LEMMA SameCharacters ==
    /\ Records!Digit = Digit
    /\ Records!StartChar = StartChar /\ Records!OtherChar = OtherChar
  BY DEF Digit, StartChar, OtherChar,
         Records!Digit, Records!StartChar, Records!OtherChar

(* Two digits are a byte, and a byte is two digits. *)
LEMMA TwoDigits ==
    ASSUME NEW d \in Digit, NEW b \in Digit
    PROVE  /\ d * Radix + b \in Byte /\ d * Radix \in Byte
           /\ (d * Radix + b) \div Radix = d /\ (d * Radix + b) % Radix = b
           /\ (d * Radix) \div Radix = d
<1> DEFINE n == Radix
<1>1. n \in Nat \ {0} /\ d \in 0 .. n - 1 /\ b \in 0 .. n - 1
  BY RadixType
<1>2. ByteSize = n * n /\ Byte = 0 .. ByteSize - 1
  BY DEF ByteSize, Byte
<1> HIDE DEF n
<1>3. d * n \in Nat /\ n * n \in Nat
  BY <1>1, SMT
<1>4. d * n + n <= n * n
  BY <1>1, Multiples
<1>5. d * n + b \in Byte /\ d * n \in Byte
  BY <1>1, <1>2, <1>3, <1>4
<1>6. (d * n + b) \div n = d /\ (d * n + b) % n = b
  BY <1>1, DivMod
<1>7. (d * n) \div n = d
  <2>1. 0 \in 0 .. n - 1 /\ d * n + 0 = d * n /\ d \in Int
    BY <1>1, <1>3
  <2>2. (d * n + 0) \div n = d
    BY <1>1, <2>1, DivMod
  <2> QED
    BY <2>1, <2>2
<1> QED
  BY <1>5, <1>6, <1>7 DEF n

LEMMA ByteDigits ==
    ASSUME NEW x \in Byte
    PROVE  /\ x \div Radix \in Digit /\ x % Radix \in Digit
           /\ (x \div Radix) * Radix + (x % Radix) = x
<1>1. Radix \in Nat \ {0} /\ x \in 0 .. Radix * Radix - 1
  BY RadixType DEF Byte, ByteSize
<1> QED
  BY <1>1, RadixType, TwoPlaces

LEMMA DigitsSpell ==
    ASSUME NEW f, NEW n \in Nat, \A k \in 1 .. n : f[k] \in Byte
    PROVE  /\ Digits(f, n) \in Seq(Digit) /\ Len(Digits(f, n)) = 2 * n
           /\ \A k \in 1 .. n : /\ Digits(f, n)[2 * k - 1] = f[k] \div Radix
                                /\ Digits(f, n)[2 * k] = f[k] % Radix
                                /\ Records!ByteAt(Digits(f, n), k) = f[k]
<1> DEFINE s == Digits(f, n)
<1>1. 2 * n \in Nat
  OBVIOUS
<1>2. \A k \in 1 .. n : s[2 * k - 1] = f[k] \div Radix /\ s[2 * k] = f[k] % Radix
  BY HalvesOf DEF Digits
<1>3. s = [i \in 1 .. 2 * n |-> s[i]]
  BY DEF Digits
<1>4. DOMAIN s = 1 .. 2 * n
  BY DEF Digits
<1> HIDE DEF s
<1>5. \A i \in 1 .. 2 * n : s[i] \in Digit
  <2> SUFFICES ASSUME NEW i \in 1 .. 2 * n PROVE s[i] \in Digit
    OBVIOUS
  <2>1. PICK k \in 1 .. n : i = 2 * k - 1 \/ i = 2 * k
    BY Halves
  <2> QED
    BY <1>2, <2>1, ByteDigits
<1>6. s \in Seq(Digit) /\ Len(s) = 2 * n
  <2>1. s \in [1 .. 2 * n -> Digit]
    BY <1>3, <1>4, <1>5
  <2>2. s \in Seq(Digit)
    BY <1>1, <2>1, SeqDef
  <2> QED
    BY <1>1, <1>4, <2>2, LenProperties
<1>7. \A k \in 1 .. n : Records!ByteAt(s, k) = f[k]
  BY <1>2, ByteDigits DEF Records!ByteAt
<1> QED
  BY <1>2, <1>6, <1>7 DEF s

(* f and g begin with the same n bytes. *)
Agree(f, g, n) == \A k \in 1 .. n : f[k] \in Byte /\ g[k] = f[k]

(* One byte more is two digits more. *)
LEMMA DigitsGrow ==
    ASSUME NEW f, NEW g, NEW n \in Nat, Agree(f, g, n),
           NEW d \in Digit, NEW b \in Digit, g[n + 1] = d * Radix + b
    PROVE  Digits(g, n + 1) = Append(Append(Digits(f, n), d), b)
<1> DEFINE s == Digits(f, n)
           t == Append(Append(s, d), b)
           u == Digits(g, n + 1)
<1>0. \A k \in 1 .. n : f[k] \in Byte /\ g[k] = f[k]
  BY DEF Agree
<1>1. s \in Seq(Digit) /\ Len(s) = 2 * n
  BY <1>0, DigitsSpell
<1>2. \A k \in 1 .. n : s[2 * k - 1] = f[k] \div Radix /\ s[2 * k] = f[k] % Radix
  BY <1>0, DigitsSpell
<1>3. n + 1 \in Nat /\ \A k \in 1 .. n + 1 : g[k] \in Byte
  <2>1. d * Radix + b \in Byte
    BY TwoDigits
  <2>2. \A k \in 1 .. n + 1 : k \in 1 .. n \/ k = n + 1
    OBVIOUS
  <2> QED
    BY <1>0, <2>1, <2>2
<1>4. /\ u \in Seq(Digit) /\ Len(u) = 2 * (n + 1)
      /\ \A k \in 1 .. n + 1 : u[2 * k - 1] = g[k] \div Radix /\ u[2 * k] = g[k] % Radix
  BY <1>3, DigitsSpell
<1> HIDE DEF s, u
<1> DEFINE a == Append(s, d)
<1>5. /\ a \in Seq(Digit) /\ Len(a) = 2 * n + 1
      /\ \A i \in 1 .. 2 * n : a[i] = s[i]
      /\ a[2 * n + 1] = d
  BY <1>1, AppendProperties
<1> HIDE DEF a
<1>6. /\ t \in Seq(Digit) /\ Len(t) = 2 * n + 2
      /\ \A i \in 1 .. 2 * n + 1 : t[i] = a[i]
      /\ t[2 * n + 2] = b
  BY <1>5, AppendProperties DEF a
<1> HIDE DEF t
<1>7. \A i \in 1 .. Len(u) : u[i] = t[i]
  <2> SUFFICES ASSUME NEW i \in 1 .. 2 * (n + 1) PROVE u[i] = t[i]
    BY <1>4
  <2>1. PICK k \in 1 .. n + 1 : i = 2 * k - 1 \/ i = 2 * k
    BY <1>3, Halves
  <2>2. CASE k \in 1 .. n
    <3>1. i \in 1 .. 2 * n /\ i \in 1 .. 2 * n + 1
      BY <2>1, <2>2
    <3>2. t[i] = s[i]
      BY <1>5, <1>6, <3>1
    <3> QED
      BY <1>0, <1>2, <1>4, <2>1, <2>2, <3>2
  <2>3. CASE k = n + 1
    <3>1. 2 * k - 1 = 2 * n + 1 /\ 2 * k = 2 * n + 2 /\ 2 * n + 1 \in 1 .. 2 * n + 1
      BY <2>3
    <3>2. t[2 * k - 1] = d /\ t[2 * k] = b
      BY <1>5, <1>6, <3>1
    <3>3. u[2 * k - 1] = d /\ u[2 * k] = b
      BY <1>4, <2>3, TwoDigits
    <3> QED
      BY <2>1, <3>2, <3>3
  <2> QED
    BY <2>2, <2>3
<1>8. Len(u) = Len(t)
  BY <1>4, <1>6
<1>9. u = t
  BY <1>4, <1>6, <1>7, <1>8, SeqEqual
<1> QED
  BY <1>9 DEF u, t, a, s

-----------------------------------------------------------------------------
(* The parser implements the reader of records. *)

LowStates == {"ReadCountLow", "ReadAddressMsbLow", "ReadAddressLsbLow",
              "ReadRecordTypeLow", "ReadDataLow", "ReadChecksumLow"}

(* The bytes of the record, as far as the parser has them. *)
Held == Header(m_rec) \o m_rec.data

(* What m_pendingByte and a half address hold. *)
Pending ==
    /\ m_state \in LowStates => \E d \in Digit : m_pendingByte = d * Radix
    /\ m_state \in {"ReadAddressLsbHigh", "ReadAddressLsbLow"} =>
           \E a \in Byte : m_rec.address = a * ByteSize

LEMMA LowStatesAre == {Low[s] : s \in DOMAIN Low} = LowStates
<1>1. DOMAIN Low = {"ReadCountHigh", "ReadAddressMsbHigh", "ReadAddressLsbHigh",
                    "ReadRecordTypeHigh", "ReadDataHigh", "ReadChecksumHigh"}
  BY DEF Low
<1>2. /\ Low["ReadCountHigh"] = "ReadCountLow"
      /\ Low["ReadAddressMsbHigh"] = "ReadAddressMsbLow"
      /\ Low["ReadAddressLsbHigh"] = "ReadAddressLsbLow"
      /\ Low["ReadRecordTypeHigh"] = "ReadRecordTypeLow"
      /\ Low["ReadDataHigh"] = "ReadDataLow"
      /\ Low["ReadChecksumHigh"] = "ReadChecksumLow"
  BY DEF Low
<1> QED
  BY <1>1, <1>2 DEF LowStates

LEMMA SpelledDigits ==
    /\ spelled = IF m_state \in LowStates
                 THEN Append(Digits(Held, BytesRead), m_pendingByte \div Radix)
                 ELSE Digits(Held, BytesRead)
    /\ spelled' = IF m_state' \in LowStates
                  THEN Append(Digits(Held', BytesRead'), m_pendingByte' \div Radix)
                  ELSE Digits(Held', BytesRead')
  BY LowStatesAre DEF spelled, Digits, Held, Header

LEMMA FirstDigit ==
    ASSUME NEW b \in Digit
    PROVE  (b * Radix) % ByteSize = b * Radix
<1>1. b * Radix \in Byte
  BY TwoDigits
<1>2. b * Radix \in Nat /\ b * Radix < ByteSize
  BY <1>1, ByteSizePositive DEF Byte
<1> QED
  BY <1>2, ByteSizePositive, Remainder

LEMMA SecondDigit ==
    ASSUME NEW d \in Digit, m_pendingByte = d * Radix, NEW b \in Digit
    PROVE  b2(b) = d * Radix + b /\ b2(b) \in Byte
<1>1. d * Radix + b \in Byte
  BY TwoDigits
<1>2. d * Radix + b \in Nat /\ d * Radix + b < ByteSize
  BY <1>1, ByteSizePositive DEF Byte
<1> QED
  BY <1>1, <1>2, ByteSizePositive, Remainder DEF b2

LEMMA PendingInvariance == Spec => []Pending
<1>1. Init => Pending
  BY DEF Init, Pending, LowStates
<1>2. TypeOK /\ Pending /\ [Next]_vars => Pending'
  <2> SUFFICES ASSUME TypeOK, Pending, [Next]_vars
               PROVE  Pending'
    OBVIOUS
  <2>1. ASSUME NEW b \in Digit, HighDigit(b) PROVE Pending'
    <3>1. m_pendingByte' = b * Radix
      BY <2>1, FirstDigit DEF HighDigit
    <3>2. m_state' \in {"ReadAddressLsbHigh", "ReadAddressLsbLow"} =>
              m_state = "ReadAddressLsbHigh"
      BY <2>1 DEF HighDigit, Low
    <3>3. m_rec' = m_rec
      BY <2>1 DEF HighDigit
    <3> QED
      BY <3>1, <3>2, <3>3 DEF Pending
  <2>2. ASSUME NEW b \in Digit, AddressMsbLow(b) PROVE Pending'
    <3>1. m_rec'.address = b2(b) * ByteSize
      BY <2>2 DEF AddressMsbLow, TypeOK
    <3>2. b2(b) \in Byte
      BY DigitsGiveBytes DEF TypeOK
    <3>3. m_state' = "ReadAddressLsbHigh"
      BY <2>2 DEF AddressMsbLow
    <3> QED
      BY <3>1, <3>2, <3>3 DEF Pending, LowStates
  <2>3. ASSUME NEW b \in Digit,
               \/ CountLow(b) \/ AddressLsbLow(b) \/ RecordTypeLow(b)
               \/ DataLow(b) \/ ChecksumLow(b)
        PROVE  Pending'
    <3>1. m_state' \in {"ReadAddressMsbHigh", "ReadRecordTypeHigh", "ReadDataHigh",
                        "ReadChecksumHigh", "ReadWait", "ReadCountHigh"}
      BY <2>3 DEF CountLow, AddressLsbLow, RecordTypeLow, DataLow, ChecksumLow
    <3> QED
      BY <3>1 DEF Pending, LowStates
  <2>4. CASE StartCode
    BY <2>4 DEF StartCode, Pending, LowStates
  <2>5. CASE Skip \/ UNCHANGED vars
    BY <2>5 DEF Skip, vars, Pending
  <2> QED
    BY <2>1, <2>2, <2>3, <2>4, <2>5 DEF Next
<1> QED
  BY <1>1, <1>2, ParserTypeCorrect, PTL DEF Spec

(* The bytes of the record, one by one. *)
LEMMA HeldBytes ==
    ASSUME NEW r \in Record
    PROVE  /\ \A k \in 1 .. 4 : (Header(r) \o r.data)[k] = Header(r)[k]
           /\ \A k \in 1 .. Len(r.data) : (Header(r) \o r.data)[4 + k] = r.data[k]
           /\ \A k \in 1 .. 4 + Len(r.data) : (Header(r) \o r.data)[k] \in Byte
           /\ Len(r.data) \in Nat
<1> DEFINE h == Header(r)
           x == r.data
           c == h \o x
<1>1. h \in Seq(Byte) /\ Len(h) = 4 /\ x \in Seq(Byte)
  BY HeaderBytes DEF Record
<1> HIDE DEF h, x
<1>2. Len(x) \in Nat
  BY <1>1, LenProperties
<1>3. /\ c \in Seq(Byte) /\ Len(c) = 4 + Len(x)
      /\ \A i \in 1 .. 4 + Len(x) : c[i] = IF i <= 4 THEN h[i] ELSE x[i - 4]
  <2>1. /\ c \in Seq(Byte) /\ Len(c) = Len(h) + Len(x)
        /\ \A i \in 1 .. Len(h) + Len(x) :
               c[i] = IF i <= Len(h) THEN h[i] ELSE x[i - Len(h)]
    BY <1>1, ConcatProperties
  <2> HIDE DEF c
  <2> QED
    BY <1>1, <2>1
<1> HIDE DEF c
<1>4. \A k \in 1 .. 4 : c[k] = h[k]
  BY <1>2, <1>3
<1>5. ASSUME NEW k \in 1 .. Len(x) PROVE c[4 + k] = x[k]
  <2>1. 4 + k \in 1 .. 4 + Len(x) /\ ~(4 + k <= 4) /\ (4 + k) - 4 = k
    BY <1>2
  <2> QED
    BY <1>3, <2>1
<1>6. \A k \in 1 .. 4 + Len(x) : c[k] \in Byte
  BY <1>3, ElementOfSeq
<1> QED
  BY <1>2, <1>4, <1>5, <1>6 DEF c, h, x

(* A digit that neither starts nor ends a record. *)
LEMMA DigitWithin ==
    ASSUME NEW b \in Digit, m_state # "ReadWait", m_state' # "ReadWait",
           spelled' = Append(spelled, b), ~Records!Complete(Append(spelled, b)),
           input' = b, call' = <<>>, m_strict' = m_strict
    PROVE  Records!Next
<1>1. Records!ReadDigit
  BY RadixType DEF Records!ReadDigit
<1> QED
  BY <1>1 DEF Records!Next

(* What is spelled is digits, two for each byte that was read. *)
LEMMA ReadSoFar ==
    ASSUME TypeOK, Progress
    PROVE  /\ m_rec \in Record
           /\ BytesRead \in Nat
           /\ \A k \in 1 .. BytesRead : Held[k] \in Byte
           /\ Digits(Held, BytesRead) \in Seq(Digit)
           /\ Len(Digits(Held, BytesRead)) = 2 * BytesRead
<1>1. m_rec \in Record
  BY DEF TypeOK, Record
<1>2. /\ \A x \in Byte : x \in Nat
      /\ m_rec.length \in Byte /\ m_pos \in Byte
  BY ByteSizePositive DEF Progress, Byte
<1>3. Len(m_rec.data) \in Nat /\ \A k \in 1 .. 4 + Len(m_rec.data) : Held[k] \in Byte
  BY <1>1, HeldBytes DEF Held
<1>4. BytesRead \in Nat /\ BytesRead <= 4 + Len(m_rec.data)
  <2>1. CASE m_state \in {"ReadDataHigh", "ReadDataLow"}
    BY <1>2, <1>3, <2>1 DEF Progress, BytesRead
  <2>2. CASE m_state \in {"ReadChecksumHigh", "ReadChecksumLow"}
    BY <1>2, <1>3, <2>2 DEF Progress, BytesRead
  <2>3. CASE m_state \notin {"ReadDataHigh", "ReadDataLow",
                             "ReadChecksumHigh", "ReadChecksumLow"}
    <3>1. BytesRead \in 0 .. 3
      BY <2>3, States DEF TypeOK, BytesRead
    <3> QED
      BY <1>3, <3>1
  <2> QED
    BY <2>1, <2>2, <2>3
<1>5. \A k \in 1 .. BytesRead : Held[k] \in Byte
  BY <1>3, <1>4
<1> QED
  BY <1>1, <1>4, <1>5, DigitsSpell

(* A record has an even number of digits. *)
LEMMA CompleteIsEven ==
    ASSUME NEW s \in Seq(Digit), Records!Complete(s)
    PROVE  \E m \in Int : Len(s) = 2 * m
<1>1. Len(s) \in Nat /\ Len(s) >= 2 /\ Len(s) = 2 * (5 + Records!ByteAt(s, 1))
  BY LenProperties DEF Records!Complete
<1>2. s[1] \in Digit /\ s[2] \in Digit
  BY <1>1, ElementOfSeq
<1>3. s[1] * Radix + s[2] \in Byte
  BY <1>2, TwoDigits
<1>4. Records!ByteAt(s, 1) = s[1] * Radix + s[2]
  <2>1. 2 * 1 - 1 = 1 /\ 2 * 1 = 2
    OBVIOUS
  <2> QED
    BY <2>1 DEF Records!ByteAt
<1>5. 5 + Records!ByteAt(s, 1) \in Int
  BY <1>3, <1>4, ByteSizePositive DEF Byte
<1> QED
  BY <1>1, <1>5

(* The first digit of a byte is one more digit. *)
LEMMA HighDigitReads ==
    ASSUME TypeOK, Progress, NEW b \in Digit, input' = b, HighDigit(b)
    PROVE  Records!Next
<1>1. /\ m_state \in DOMAIN Low /\ m_state' = Low[m_state]
      /\ m_rec' = m_rec /\ m_pos' = m_pos /\ m_strict' = m_strict /\ call' = <<>>
      /\ m_pendingByte' = b * Radix
  BY FirstDigit DEF HighDigit
<1>2. /\ m_state # "ReadWait" /\ m_state \notin LowStates
      /\ m_state' # "ReadWait" /\ m_state' \in LowStates
  BY <1>1 DEF Low, LowStates
<1>3. BytesRead' = BytesRead /\ Held' = Held
  BY <1>1 DEF Low, BytesRead, Held, Header
<1>4. m_pendingByte' \div Radix = b
  BY <1>1, TwoDigits
<1>5. spelled = Digits(Held, BytesRead)
  BY <1>2, SpelledDigits
<1>6. spelled' = Append(Digits(Held', BytesRead'), m_pendingByte' \div Radix)
  BY <1>2, SpelledDigits
<1>8. spelled' = Append(spelled, b)
  BY <1>3, <1>4, <1>5, <1>6
<1>9. ~Records!Complete(Append(spelled, b))
  <2>1. /\ BytesRead \in Nat
        /\ Append(spelled, b) \in Seq(Digit)
        /\ Len(Append(spelled, b)) = 2 * BytesRead + 1
    BY <1>5, ReadSoFar, AppendProperties
  <2>2. \A m \in Int : 2 * BytesRead + 1 # 2 * m
    BY <2>1
  <2> QED
    BY <2>1, <2>2, CompleteIsEven
<1> QED
  BY <1>1, <1>2, <1>8, <1>9, DigitWithin

(* The second digit of a byte is one more digit, if the byte is the next one
   of the record and not its checksum. *)
LEMMA LowDigitReads ==
    ASSUME TypeOK, TypeOK', Progress, Pending, NEW b \in Digit,
           m_state \in LowStates,
           m_state' # "ReadWait", m_state' \notin LowStates,
           BytesRead' = BytesRead + 1,
           \A k \in 1 .. BytesRead : Held'[k] = Held[k],
           Held'[BytesRead + 1] = b2(b),
           BytesRead + 1 <= 4 + m_rec'.length,
           input' = b, call' = <<>>, m_strict' = m_strict
    PROVE  Records!Next
<1>1. PICK d \in Digit : m_pendingByte = d * Radix
  BY DEF Pending
<1>2. b2(b) = d * Radix + b /\ b2(b) \in Byte
  BY <1>1, SecondDigit
<1>3. /\ BytesRead \in Nat
      /\ \A k \in 1 .. BytesRead : Held[k] \in Byte
  BY ReadSoFar
<1>4. m_pendingByte \div Radix = d
  BY <1>1, TwoDigits
<1>5. spelled = Append(Digits(Held, BytesRead), d)
  BY <1>4, SpelledDigits
<1>6. spelled' = Digits(Held', BytesRead + 1)
  BY SpelledDigits
<1> DEFINE n == BytesRead  f == Held  g == Held'
<1>7. Digits(g, n + 1) = Append(Append(Digits(f, n), d), b)
  <2>1. Agree(f, g, n) /\ g[n + 1] = d * Radix + b /\ n \in Nat
    BY <1>2, <1>3 DEF Agree
  <2> HIDE DEF n, f, g
  <2> QED
    BY <2>1, DigitsGrow
<1>8. spelled' = Append(spelled, b)
  BY <1>5, <1>6, <1>7
<1>9. \A k \in 1 .. n + 1 : g[k] \in Byte
  <2>1. \A k \in 1 .. n + 1 : k \in 1 .. n \/ k = n + 1
    BY <1>3
  <2> QED
    BY <1>2, <1>3, <2>1
<1>10. g[1] = m_rec'.length /\ m_rec'.length \in Byte
  <2> DEFINE r == m_rec'
  <2>1. r \in Record
    BY DEF TypeOK, Record
  <2>2. g = Header(r) \o r.data
    BY DEF Held, Header
  <2> HIDE DEF r, g
  <2>3. \A k \in 1 .. 4 : (Header(r) \o r.data)[k] = Header(r)[k]
    BY <2>1, HeldBytes
  <2>4. 1 \in 1 .. 4 /\ Header(r)[1] = r.length
    BY <2>1, HeaderBytes
  <2>5. g[1] = r.length /\ r.length \in Byte
    BY <2>1, <2>2, <2>3, <2>4 DEF Record
  <2> QED
    BY <2>5 DEF r
<1> HIDE DEF n, f, g
<1>11. ~Records!Complete(Digits(g, n + 1))
  <2>1. n + 1 \in Nat /\ 1 \in 1 .. n + 1
    BY <1>3 DEF n
  <2>2. /\ Len(Digits(g, n + 1)) = 2 * (n + 1)
        /\ Records!ByteAt(Digits(g, n + 1), 1) = g[1]
    BY <1>9, <2>1, DigitsSpell
  <2>3. m_rec'.length \in Nat /\ n + 1 <= 4 + m_rec'.length
    BY <1>10, ByteSizePositive DEF Byte, n
  <2> QED
    BY <1>10, <2>1, <2>2, <2>3 DEF Records!Complete
<1>12. m_state # "ReadWait"
  BY DEF LowStates
<1> QED
  BY <1>6, <1>8, <1>11, <1>12, DigitWithin DEF n, f, g

(* The bytes of the header, before and after a step. *)
LEMMA HeldHeader ==
    ASSUME TypeOK, TypeOK'
    PROVE  /\ Held[1] = m_rec.length /\ Held[2] = m_rec.address \div ByteSize
           /\ Held[3] = m_rec.address % ByteSize /\ Held[4] = m_rec.type
           /\ Held'[1] = m_rec'.length /\ Held'[2] = m_rec'.address \div ByteSize
           /\ Held'[3] = m_rec'.address % ByteSize /\ Held'[4] = m_rec'.type
           /\ \A k \in 1 .. Len(m_rec.data) : Held[4 + k] = m_rec.data[k]
           /\ \A k \in 1 .. Len(m_rec'.data) : Held'[4 + k] = m_rec'.data[k]
<1>1. ASSUME NEW r \in Record
      PROVE  LET c == Header(r) \o r.data
             IN  /\ c[1] = r.length /\ c[2] = r.address \div ByteSize
                 /\ c[3] = r.address % ByteSize /\ c[4] = r.type
                 /\ \A k \in 1 .. Len(r.data) : c[4 + k] = r.data[k]
  <2>1. 1 \in 1 .. 4 /\ 2 \in 1 .. 4 /\ 3 \in 1 .. 4 /\ 4 \in 1 .. 4
    OBVIOUS
  <2> QED
    BY <2>1, HeldBytes, HeaderBytes
<1>2. m_rec \in Record /\ m_rec' \in Record
  BY DEF TypeOK, Record
<1>3. Held' = Header(m_rec') \o m_rec'.data
  BY DEF Held, Header
<1>4. Held = Header(m_rec) \o m_rec.data
  BY DEF Held
<1> QED
  BY <1>1, <1>2, <1>3, <1>4, Zenon

(* One lemma per action: the byte it stores is the next one of the record. *)
LEMMA CountReads ==
    ASSUME TypeOK, TypeOK', Progress, Pending,
           NEW b \in Digit, input' = b, CountLow(b)
    PROVE  Records!Next
<1>1. /\ m_state = "ReadCountLow" /\ m_state' = "ReadAddressMsbHigh"
      /\ m_rec'.length = b2(b) /\ call' = <<>> /\ m_strict' = m_strict
  BY DEF CountLow, TypeOK
<1>2. BytesRead = 0 /\ BytesRead' = 1
  BY <1>1 DEF BytesRead
<1>3. Held'[1] = b2(b)
  BY <1>1, HeldHeader
<1>4. m_rec'.length \in Nat
  BY ByteSizePositive DEF TypeOK, Byte
<1>5. BytesRead' = BytesRead + 1 /\ Held'[BytesRead + 1] = b2(b)
      /\ BytesRead + 1 <= 4 + m_rec'.length
  BY <1>2, <1>3, <1>4
<1>6. \A k \in 1 .. BytesRead : Held'[k] = Held[k]
  BY <1>2, <1>3, <1>4
<1>7. /\ m_state \in LowStates
      /\ m_state' # "ReadWait" /\ m_state' \notin LowStates
  BY <1>1 DEF LowStates
<1> QED
  BY <1>1, <1>5, <1>6, <1>7, LowDigitReads

LEMMA AddressMsbReads ==
    ASSUME TypeOK, TypeOK', Progress, Pending,
           NEW b \in Digit, input' = b, AddressMsbLow(b)
    PROVE  Records!Next
<1>1. /\ m_state = "ReadAddressMsbLow" /\ m_state' = "ReadAddressLsbHigh"
      /\ m_rec'.length = m_rec.length /\ m_rec'.address = b2(b) * ByteSize
      /\ call' = <<>> /\ m_strict' = m_strict
  BY DEF AddressMsbLow, TypeOK
<1>2. BytesRead = 1 /\ BytesRead' = 2
  BY <1>1 DEF BytesRead
<1>3. b2(b) \in Byte
  BY DigitsGiveBytes DEF TypeOK
<1>4. (b2(b) * ByteSize) \div ByteSize = b2(b)
  <2> DEFINE x == b2(b)
             n == ByteSize
  <2>1. x \in Int /\ n \in Nat \ {0}
    BY <1>3, ByteSizePositive DEF Byte
  <2> HIDE DEF x, n
  <2>2. x * n + 0 = x * n /\ 0 \in 0 .. n - 1
    BY <2>1, SMT
  <2>3. (x * n) \div n = x
    BY <2>1, <2>2, DivMod
  <2> QED
    BY <2>3 DEF x, n
<1>5. Held'[1] = Held[1] /\ Held'[2] = b2(b)
  BY <1>1, <1>4, HeldHeader
<1>6. m_rec'.length \in Nat
  BY ByteSizePositive DEF TypeOK, Byte
<1>7. BytesRead' = BytesRead + 1 /\ Held'[BytesRead + 1] = b2(b)
      /\ BytesRead + 1 <= 4 + m_rec'.length
  BY <1>2, <1>5, <1>6
<1>8. \A k \in 1 .. BytesRead : Held'[k] = Held[k]
  BY <1>2, <1>5, <1>6
<1>9. /\ m_state \in LowStates
      /\ m_state' # "ReadWait" /\ m_state' \notin LowStates
  BY <1>1 DEF LowStates
<1> QED
  BY <1>1, <1>7, <1>8, <1>9, LowDigitReads

LEMMA AddressLsbReads ==
    ASSUME TypeOK, TypeOK', Progress, Pending,
           NEW b \in Digit, input' = b, AddressLsbLow(b)
    PROVE  Records!Next
<1>1. /\ m_state = "ReadAddressLsbLow" /\ m_state' = "ReadRecordTypeHigh"
      /\ m_rec'.length = m_rec.length
      /\ m_rec'.address = (m_rec.address + b2(b)) % (ByteSize * ByteSize)
      /\ call' = <<>> /\ m_strict' = m_strict
  BY DEF AddressLsbLow, TypeOK
<1>2. BytesRead = 2 /\ BytesRead' = 3
  BY <1>1 DEF BytesRead
<1>3. PICK a \in Byte : m_rec.address = a * ByteSize
  BY <1>1 DEF Pending
<1>4. b2(b) \in Byte
  BY DigitsGiveBytes DEF TypeOK
<1>5. /\ m_rec.address \div ByteSize = a
      /\ m_rec'.address \div ByteSize = a /\ m_rec'.address % ByteSize = b2(b)
  <2> DEFINE x == b2(b)
             n == ByteSize
  <2>1. x \in 0 .. n - 1 /\ a \in 0 .. n - 1 /\ n \in Nat \ {0}
    BY <1>3, <1>4, ByteSizePositive DEF Byte
  <2>2. m_rec.address = a * n /\ m_rec'.address = (a * n + x) % (n * n)
    BY <1>1, <1>3
  <2> HIDE DEF x, n
  <2>3. a * n \in Nat /\ n * n \in Nat \ {0} /\ a * n + n <= n * n
    BY <2>1, Multiples, SMT
  <2>4. a * n + x \in Nat /\ a * n + x < n * n
    BY <2>1, <2>3
  <2>5. m_rec'.address = a * n + x
    BY <2>2, <2>3, <2>4, Remainder
  <2>6. (a * n + x) \div n = a /\ (a * n + x) % n = x
    BY <2>1, DivMod
  <2>7. (a * n) \div n = a
    <3>1. a * n + 0 = a * n /\ 0 \in 0 .. n - 1 /\ a \in Int
      BY <2>1, <2>3
    <3> QED
      BY <2>1, <3>1, DivMod
  <2>8. /\ m_rec.address \div n = a
        /\ m_rec'.address \div n = a /\ m_rec'.address % n = x
    BY <2>2, <2>5, <2>6, <2>7
  <2> QED
    BY <2>8 DEF x, n
<1>6. Held'[1] = Held[1] /\ Held'[2] = Held[2] /\ Held'[3] = b2(b)
  BY <1>1, <1>5, HeldHeader
<1>7. m_rec'.length \in Nat
  BY ByteSizePositive DEF TypeOK, Byte
<1>8. BytesRead' = BytesRead + 1 /\ Held'[BytesRead + 1] = b2(b)
      /\ BytesRead + 1 <= 4 + m_rec'.length
  BY <1>2, <1>6, <1>7
<1>9. \A k \in 1 .. BytesRead : Held'[k] = Held[k]
  <2>1. \A k \in 1 .. 2 : k = 1 \/ k = 2
    OBVIOUS
  <2> QED
    BY <1>2, <1>6, <2>1
<1> QED
  BY <1>1, <1>8, <1>9, LowDigitReads DEF LowStates

LEMMA RecordTypeReads ==
    ASSUME TypeOK, TypeOK', Progress, Pending,
           NEW b \in Digit, input' = b, RecordTypeLow(b)
    PROVE  Records!Next
<1>1. /\ m_state = "ReadRecordTypeLow"
      /\ m_state' = IF m_rec.length > 0 THEN "ReadDataHigh" ELSE "ReadChecksumHigh"
      /\ m_pos' = 0
      /\ m_rec'.length = m_rec.length /\ m_rec'.address = m_rec.address
      /\ m_rec'.type = b2(b)
      /\ call' = <<>> /\ m_strict' = m_strict
  BY DEF RecordTypeLow, TypeOK
<1>2. m_rec'.length \in Nat
  BY ByteSizePositive DEF TypeOK, Byte
<1>3. BytesRead = 3 /\ BytesRead' = 4
  <2>1. CASE m_rec.length > 0
    BY <1>1, <2>1 DEF BytesRead
  <2>2. CASE ~(m_rec.length > 0)
    <3>1. m_rec'.length = 0
      BY <1>1, <1>2, <2>2
    <3> QED
      BY <1>1, <2>2, <3>1 DEF BytesRead
  <2> QED
    BY <2>1, <2>2
<1>4. Held'[1] = Held[1] /\ Held'[2] = Held[2] /\ Held'[3] = Held[3] /\ Held'[4] = b2(b)
  BY <1>1, HeldHeader
<1>5. BytesRead' = BytesRead + 1 /\ Held'[BytesRead + 1] = b2(b)
      /\ BytesRead + 1 <= 4 + m_rec'.length
  BY <1>2, <1>3, <1>4
<1>6. \A k \in 1 .. BytesRead : Held'[k] = Held[k]
  <2>1. \A k \in 1 .. 3 : k = 1 \/ k = 2 \/ k = 3
    OBVIOUS
  <2> QED
    BY <1>3, <1>4, <2>1
<1>7. /\ m_state \in LowStates
      /\ m_state' # "ReadWait" /\ m_state' \notin LowStates
  BY <1>1 DEF LowStates
<1> QED
  BY <1>1, <1>5, <1>6, <1>7, LowDigitReads

LEMMA DataReads ==
    ASSUME TypeOK, TypeOK', Progress, Pending,
           NEW b \in Digit, input' = b, DataLow(b)
    PROVE  Records!Next
<1>1. /\ m_state = "ReadDataLow"
      /\ m_state' = IF m_pos' >= m_rec.length THEN "ReadChecksumHigh"
                    ELSE "ReadDataHigh"
      /\ m_pos' = (m_pos + 1) % ByteSize
      /\ m_rec'.length = m_rec.length /\ m_rec'.address = m_rec.address
      /\ m_rec'.type = m_rec.type /\ m_rec'.data = Append(m_rec.data, b2(b))
      /\ call' = <<>> /\ m_strict' = m_strict
  BY DEF DataLow, TypeOK
<1>2. /\ Len(m_rec.data) = m_pos /\ m_pos < m_rec.length
      /\ m_rec.length \in 0 .. ByteSize - 1 /\ m_pos \in Nat
      /\ m_rec.data \in Seq(Byte)
  BY <1>1, ByteSizePositive DEF Progress, Byte
<1>3. m_pos' = m_pos + 1
  <2>1. m_pos + 1 \in Nat /\ m_pos + 1 < ByteSize
    BY <1>2, ByteSizePositive
  <2> QED
    BY <1>1, <2>1, ByteSizePositive, Remainder
<1>4. b2(b) \in Byte
  BY DigitsGiveBytes DEF TypeOK
<1>5. /\ Len(m_rec'.data) = m_pos + 1
      /\ \A k \in 1 .. m_pos : m_rec'.data[k] = m_rec.data[k]
      /\ m_rec'.data[m_pos + 1] = b2(b)
  BY <1>1, <1>2, <1>4, AppendProperties
<1>6. BytesRead = 4 + m_pos /\ BytesRead' = 4 + m_pos + 1
  <2>1. BytesRead = 4 + m_pos
    BY <1>1 DEF BytesRead
  <2>2. CASE m_pos' >= m_rec.length
    <3>1. m_rec'.length = m_pos + 1
      BY <1>1, <1>2, <1>3, <2>2
    <3>2. BytesRead' = 4 + m_rec'.length
      BY <1>1, <2>2 DEF BytesRead
    <3> QED
      BY <1>2, <2>1, <3>1, <3>2
  <2>3. CASE ~(m_pos' >= m_rec.length)
    <3>1. BytesRead' = 4 + m_pos'
      BY <1>1, <2>3 DEF BytesRead
    <3> QED
      BY <1>2, <1>3, <2>1, <3>1
  <2> QED
    BY <2>2, <2>3
<1>7. Held'[1] = Held[1] /\ Held'[2] = Held[2] /\ Held'[3] = Held[3] /\ Held'[4] = Held[4]
  BY <1>1, HeldHeader
<1>8. /\ \A k \in 1 .. m_pos : Held[4 + k] = m_rec.data[k]
      /\ \A k \in 1 .. m_pos + 1 : Held'[4 + k] = m_rec'.data[k]
  BY <1>2, <1>5, HeldHeader
<1>9. \A k \in 1 .. 4 + m_pos : Held'[k] = Held[k]
  <2> SUFFICES ASSUME NEW k \in 1 .. 4 + m_pos
               PROVE  Held'[k] = Held[k]
    OBVIOUS
  <2>1. CASE k <= 4
    <3>1. k = 1 \/ k = 2 \/ k = 3 \/ k = 4
      BY <1>2, <2>1
    <3> QED
      BY <1>7, <3>1
  <2>2. CASE k > 4
    <3>1. k - 4 \in 1 .. m_pos /\ k - 4 \in 1 .. m_pos + 1 /\ 4 + (k - 4) = k
      BY <1>2, <2>2
    <3> QED
      BY <1>5, <1>8, <3>1
  <2> QED
    BY <1>2, <2>1, <2>2
<1>10. Held'[4 + (m_pos + 1)] = b2(b)
  BY <1>2, <1>5, <1>8
<1>11. BytesRead' = BytesRead + 1 /\ Held'[BytesRead + 1] = b2(b)
       /\ BytesRead + 1 <= 4 + m_rec'.length
  <2>1. 4 + (m_pos + 1) = (4 + m_pos) + 1
    BY <1>2
  <2> QED
    BY <1>1, <1>2, <1>6, <1>10, <2>1
<1>12. \A k \in 1 .. BytesRead : Held'[k] = Held[k]
  BY <1>6, <1>9
<1>13. /\ m_state \in LowStates
       /\ m_state' # "ReadWait" /\ m_state' \notin LowStates
  BY <1>1 DEF LowStates
<1> QED
  BY <1>1, <1>11, <1>12, <1>13, LowDigitReads

(* The last digit hands on what the digits spell, and the check byte. *)
LEMMA ChecksumReads ==
    ASSUME TypeOK, TypeOK', Progress, Pending,
           NEW b \in Digit, input' = b, ChecksumLow(b)
    PROVE  Records!Next
<1> DEFINE rec == [m_rec EXCEPT !.checksum = b2(b)]
           n == m_rec.length
           g == [k \in 1 .. 5 + n |-> IF k = 5 + n THEN b2(b) ELSE Held[k]]
           s == Append(spelled, b)
           at(k) == Records!ByteAt(s, k)
<1>1. /\ m_state = "ReadChecksumLow"
      /\ m_state' = IF m_strict THEN "ReadWait" ELSE "ReadCountHigh"
      /\ call' = <<rec, checksum(rec)>> /\ m_strict' = m_strict
  BY DEF ChecksumLow
<1>2. /\ Len(m_rec.data) = n /\ n \in Nat /\ m_rec.data \in Seq(Byte)
      /\ m_strict \in BOOLEAN
  BY <1>1, ByteSizePositive DEF Progress, TypeOK, Byte
<1>3. PICK d \in Digit : m_pendingByte = d * Radix
  BY <1>1 DEF Pending, LowStates
<1>4. b2(b) = d * Radix + b /\ b2(b) \in Byte /\ m_pendingByte \div Radix = d
  BY <1>3, SecondDigit, TwoDigits
<1>5. m_rec \in Record /\ rec \in Record
  BY <1>4 DEF TypeOK, Record
<1>6. BytesRead = 4 + n /\ m_state \in LowStates
  BY <1>1 DEF BytesRead, LowStates
<1>7. spelled = Append(Digits(Held, 4 + n), d)
  BY <1>4, <1>6, SpelledDigits
<1>8. \A k \in 1 .. 4 + n : Held[k] \in Byte /\ g[k] = Held[k]
  <2>1. \A k \in 1 .. 4 + n : k \in 1 .. 5 + n /\ k # 5 + n
    BY <1>2
  <2>2. \A k \in 1 .. 4 + n : Held[k] \in Byte
    BY <1>6, ReadSoFar
  <2> QED
    BY <2>1, <2>2
<1>9. g[5 + n] = b2(b)
  BY <1>2
<1>10. s = Digits(g, 5 + n)
  <2>1. 4 + n \in Nat /\ (4 + n) + 1 = 5 + n
    BY <1>2
  <2>2. Agree(Held, g, 4 + n) /\ g[(4 + n) + 1] = d * Radix + b
    BY <1>4, <1>8, <1>9, <2>1 DEF Agree
  <2> HIDE DEF g, n
  <2>3. Digits(g, (4 + n) + 1) = Append(Append(Digits(Held, 4 + n), d), b)
    BY <2>1, <2>2, DigitsGrow
  <2> QED
    BY <1>7, <2>1, <2>3
<1> HIDE DEF g
<1>11. /\ 5 + n \in Nat
       /\ \A k \in 1 .. 5 + n : g[k] \in Byte
  <2>1. \A k \in 1 .. 5 + n : k \in 1 .. 4 + n \/ k = 5 + n
    BY <1>2
  <2> QED
    BY <1>2, <1>4, <1>8, <1>9, <2>1
<1>12. Len(s) = 2 * (5 + n) /\ \A k \in 1 .. 5 + n : at(k) = g[k]
  <2> HIDE DEF n
  <2>1. /\ Len(Digits(g, 5 + n)) = 2 * (5 + n)
        /\ \A k \in 1 .. 5 + n : Records!ByteAt(Digits(g, 5 + n), k) = g[k]
    BY <1>11, DigitsSpell
  <2> HIDE DEF s
  <2> QED
    BY <1>10, <2>1
<1> HIDE DEF s, at
<1>13. /\ \A k \in 1 .. 4 + n : at(k) = Held[k]
       /\ at(5 + n) = b2(b)
  <2>1. \A k \in 1 .. 4 + n : k \in 1 .. 5 + n
    BY <1>2
  <2>2. 5 + n \in 1 .. 5 + n
    BY <1>2
  <2> QED
    BY <1>8, <1>9, <1>12, <2>1, <2>2
<1>14. /\ at(1) = n /\ at(2) = m_rec.address \div ByteSize
       /\ at(3) = m_rec.address % ByteSize /\ at(4) = m_rec.type
       /\ \A k \in 1 .. n : at(4 + k) = m_rec.data[k]
  <2>1. /\ 1 \in 1 .. 4 + n /\ 2 \in 1 .. 4 + n /\ 3 \in 1 .. 4 + n
        /\ 4 \in 1 .. 4 + n /\ \A k \in 1 .. n : 4 + k \in 1 .. 4 + n
    BY <1>2
  <2>2. \A k \in 1 .. n : Held[4 + k] = m_rec.data[k]
    BY <1>2, HeldHeader
  <2> QED
    BY <1>13, <2>1, <2>2, HeldHeader
<1>15. Records!Complete(s)
  <2>1. Len(s) >= 2 /\ Len(s) = 2 * (5 + at(1))
    BY <1>2, <1>12, <1>14
  <2> QED
    BY <2>1 DEF Records!Complete, at
<1>16. Records!CheckByte(s) = checksum(rec)
  <2>1. /\ rec.length = n /\ rec.data = m_rec.data /\ rec.type = m_rec.type
        /\ rec.address = m_rec.address
    BY <1>5 DEF Record
  <2>2. /\ Header(rec)[1] = n /\ Header(rec)[2] = m_rec.address \div ByteSize
        /\ Header(rec)[3] = m_rec.address % ByteSize /\ Header(rec)[4] = m_rec.type
    BY <1>5, <2>1, HeaderBytes
  <2> HIDE DEF rec
  <2>3. \A i \in 1 .. 4 : i = 1 \/ i = 2 \/ i = 3 \/ i = 4
    OBVIOUS
  <2>4. \A i \in 1 .. 4 : at(i) = Header(rec)[i]
    BY <1>14, <2>2, <2>3
  <2>5. \A i \in 1 .. rec.length : at(4 + i) = rec.data[i]
    BY <1>14, <2>1
  <2>6. Spells(s, rec)
    BY <2>4, <2>5 DEF Spells, at
  <2> QED
    BY <1>2, <1>5, <2>1, <2>6, ChecksumIsCheckByte
<1>17. Records!Decode(s) = rec
  <2>1. at(2) * ByteSize + at(3) = m_rec.address
    BY <1>5, <1>14, HeaderBytes
  <2>2. [i \in 1 .. n |-> at(4 + i)] = m_rec.data
    <3>1. m_rec.data = [i \in 1 .. n |-> m_rec.data[i]]
      BY <1>2, LenProperties
    <3> HIDE DEF n
    <3> QED
      BY <1>14, <3>1
  <2>3. Records!Decode(s) =
            [length |-> at(1), address |-> at(2) * ByteSize + at(3),
             type |-> at(4), data |-> [i \in 1 .. at(1) |-> at(4 + i)],
             checksum |-> at(5 + at(1))]
    BY DEF Records!Decode, Records!ByteSize, ByteSize, at
  <2>4. Records!Decode(s) =
            [length |-> n, address |-> m_rec.address, type |-> m_rec.type,
             data |-> m_rec.data, checksum |-> b2(b)]
    BY <1>13, <1>14, <2>1, <2>2, <2>3
  <2>5. rec = [length |-> n, address |-> m_rec.address, type |-> m_rec.type,
               data |-> m_rec.data, checksum |-> b2(b)]
    BY <1>5 DEF Record
  <2> QED
    BY <2>4, <2>5
<1>18. spelled' = <<>>
  <2>1. BytesRead' = 0 /\ m_state' \notin LowStates
    BY <1>1 DEF BytesRead, LowStates
  <2>2. Digits(Held', 0) = <<>>
    BY DEF Digits
  <2> QED
    BY <2>1, <2>2, SpelledDigits
<1> HIDE DEF rec, n
<1>19. call' = <<Records!Decode(s), Records!CheckByte(s)>>
  BY <1>1, <1>16, <1>17
<1>20. m_state # "ReadWait" /\ (m_state' # "ReadWait") = ~m_strict
  BY <1>1, <1>2
<1>21. Records!ReadDigit
  BY <1>1, <1>15, <1>18, <1>19, <1>20, RadixType DEF Records!ReadDigit, s
<1> QED
  BY <1>21 DEF Records!Next

(* The parser hands on exactly the records its input spells, decoded, each
   with its last digit and with the byte that completes its sum, for every
   radix and every length of data, if every record has its ':' or the parser
   insists on one. *)
THEOREM ParserImplementsHexRecords ==
    ASSUME ~BareRecords \/ FALSE \notin Modes
    PROVE  Spec => ImplementsHexRecords
<1>1. Init => Records!Init
  <2> SUFFICES ASSUME Init
               PROVE  Records!Init
    OBVIOUS
  <2>1. /\ m_strict \in BOOLEAN /\ m_state = "ReadWait" /\ call = <<>>
        /\ input = Records!OtherChar
    BY HexConstants, SameCharacters DEF HexConstants, Init
  <2>2. spelled = <<>>
    <3>1. BytesRead = 0 /\ m_state \notin LowStates
      BY <2>1 DEF BytesRead, LowStates
    <3>2. Digits(Held, 0) = <<>>
      BY DEF Digits
    <3> QED
      BY <3>1, <3>2, SpelledDigits
  <2> QED
    BY <2>1, <2>2 DEF Records!Init
<1>2. TypeOK /\ TypeOK' /\ Progress /\ Pending /\ [Next]_vars => [Records!Next]_(Records!vars)
  <2> SUFFICES ASSUME TypeOK, TypeOK', Progress, Pending, [Next]_vars
               PROVE  [Records!Next]_(Records!vars)
    OBVIOUS
  <2>1. CASE StartCode
    <3>1. BytesRead' = 0 /\ m_state' \notin LowStates /\ m_state' # "ReadWait"
      BY <2>1 DEF StartCode, BytesRead, LowStates
    <3>2. Digits(Held', 0) = <<>>
      BY DEF Digits
    <3>3. spelled' = <<>>
      BY <3>1, <3>2, SpelledDigits
    <3>4. Records!StartCode
      BY <2>1, <3>1, <3>3, SameCharacters DEF StartCode, Records!StartCode
    <3> QED
      BY <3>4 DEF Records!Next
  <2>2. CASE Skip \/ UNCHANGED vars
    <3>1. UNCHANGED <<m_strict, m_state, m_rec, m_pos, m_pendingByte>>
      BY <2>2 DEF Skip, vars
    <3>2. UNCHANGED spelled
      BY <3>1 DEF spelled, BytesRead, Header
    <3>3. CASE Skip
      <4>1. Records!Skip
        BY <3>1, <3>2, <3>3, SameCharacters DEF Skip, Records!Skip
      <4> QED
        BY <4>1 DEF Records!Next
    <3>4. CASE UNCHANGED vars
      BY <3>1, <3>2, <3>4 DEF vars, Records!vars
    <3> QED
      BY <2>2, <3>3, <3>4
  <2>3. ASSUME NEW b \in Digit, input' = b,
               \/ HighDigit(b) \/ CountLow(b) \/ AddressMsbLow(b) \/ AddressLsbLow(b)
               \/ RecordTypeLow(b) \/ DataLow(b) \/ ChecksumLow(b)
        PROVE  Records!Next
    BY <2>3, HighDigitReads, CountReads, AddressMsbReads, AddressLsbReads,
       RecordTypeReads, DataReads, ChecksumReads
  <2> QED
    BY <2>1, <2>2, <2>3 DEF Next
<1> QED
  BY <1>1, <1>2, ParserTypeCorrect, ProgressInvariance, PendingInvariance, PTL
     DEF Spec, ImplementsHexRecords, Records!Spec

=============================================================================
