------------------------------ MODULE IntelHex ------------------------------
(***************************************************************************)
(* IntelHex, the parser of Intel HEX records: one call of                  *)
(* parse(uint8_t) per step.  A character is a start code, a hex digit or   *)
(* anything else; a digit is its value, whatever its case.  The overloads  *)
(* of parse() for strings and vectors are loops over it.                   *)
(*                                                                         *)
(* Radix is 16 in the code.  The number of digits in a byte, two, stays,   *)
(* so a smaller radix gives a parser with the same states and the same     *)
(* overflows over fewer values.                                            *)
(***************************************************************************)
EXTENDS Integers, Sequences

CONSTANTS
    Radix,        \* values of a hex digit
    Modes,        \* values the constructor gets for strict
    BareRecords,  \* the input has records that follow one without a ':'
    MaxData       \* bound: bytes in the data of a record

ASSUME HexConstants ==
    /\ Radix \in Nat \ {0, 1}
    /\ Modes \subseteq BOOLEAN
    /\ BareRecords \in BOOLEAN
    /\ MaxData \in Nat

VARIABLES
    input,           \* the character this call got
    m_strict,
    m_state,
    m_rec,
    m_pos,           \* bytes of data read
    m_pendingByte,   \* the first digit of a byte, shifted
    call,            \* <<record, sum>> m_callback got in this call, or <<>>
    started          \* the input has had a ':' since the last record

vars ==
    <<input, m_strict, m_state, m_rec, m_pos, m_pendingByte, call, started>>

(* A character is ':', the value of a hex digit, or any other. *)
Digit == 0 .. Radix - 1
StartChar == Radix
OtherChar == Radix + 1

ByteSize == Radix * Radix
Byte == 0 .. ByteSize - 1

Invalid == ByteSize - 1

clear ==
    [type |-> Invalid, address |-> 0, length |-> 0, data |-> <<>>, checksum |-> 0]

(* The states that wait for the first digit of a byte, and where it leads. *)
Low ==
    [ReadCountHigh      |-> "ReadCountLow",
     ReadAddressMsbHigh |-> "ReadAddressMsbLow",
     ReadAddressLsbHigh |-> "ReadAddressLsbLow",
     ReadRecordTypeHigh |-> "ReadRecordTypeLow",
     ReadDataHigh       |-> "ReadDataLow",
     ReadChecksumHigh   |-> "ReadChecksumLow"]

ReadState ==
    {"ReadWait"} \union DOMAIN Low \union {Low[s] : s \in DOMAIN Low}

Init ==
    /\ input = OtherChar
    /\ m_strict \in Modes
    /\ m_state = "ReadWait"
    /\ m_rec = clear
    /\ m_pos = 0
    /\ m_pendingByte = 0
    /\ call = <<>>
    /\ started = FALSE

-----------------------------------------------------------------------------
(* parse(uint8_t) *)

(* Mutant of StartCode: the data of the last record stays. *)
StartCodeKeepsRecord ==
    /\ input' = StartChar
    /\ m_pos' = 0
    /\ m_state' = "ReadCountHigh"
    /\ m_pendingByte' = 0
    /\ call' = <<>>
    /\ started' = TRUE
    /\ UNCHANGED <<m_strict, m_rec>>

(* ':' starts a record, also in the middle of another. *)
StartCode ==
    /\ input' = StartChar
    /\ m_pos' = 0
    /\ m_state' = "ReadCountHigh"
    /\ m_rec' = clear
    /\ m_pendingByte' = 0
    /\ call' = <<>>
    /\ started' = TRUE
    /\ UNCHANGED m_strict

(* What is no hex digit, and every digit while waiting for ':'. *)
Skip ==
    /\ \/ input' = OtherChar
       \/ m_state = "ReadWait" /\ input' \in Digit
    /\ call' = <<>>
    /\ UNCHANGED <<m_strict, m_state, m_rec, m_pos, m_pendingByte, started>>

(* The first digit of a byte. *)
HighDigit(b) ==
    /\ m_state \in DOMAIN Low
    /\ BareRecords \/ m_state # "ReadCountHigh" \/ started
    /\ m_state' = Low[m_state]
    /\ m_pendingByte' = (b * Radix) % ByteSize
    /\ call' = <<>>
    /\ UNCHANGED <<m_strict, m_rec, m_pos, started>>

(* The byte that a second digit completes. *)
b2(b) == (m_pendingByte + b) % ByteSize

(* Mutant of CountLow: the checksum is counted. *)
CountLowOffByOne(b) ==
    /\ m_state = "ReadCountLow"
    /\ m_rec' = [m_rec EXCEPT !.length = b2(b) - 1]
    /\ m_state' = "ReadAddressMsbHigh"
    /\ call' = <<>>
    /\ UNCHANGED <<m_strict, m_pos, m_pendingByte, started>>

CountLow(b) ==
    /\ m_state = "ReadCountLow"
    /\ m_rec' = [m_rec EXCEPT !.length = b2(b)]
    /\ m_state' = "ReadAddressMsbHigh"
    /\ call' = <<>>
    /\ UNCHANGED <<m_strict, m_pos, m_pendingByte, started>>

AddressMsbLow(b) ==
    /\ m_state = "ReadAddressMsbLow"
    /\ m_rec' = [m_rec EXCEPT !.address = b2(b) * ByteSize]
    /\ m_state' = "ReadAddressLsbHigh"
    /\ call' = <<>>
    /\ UNCHANGED <<m_strict, m_pos, m_pendingByte, started>>

AddressLsbLow(b) ==
    /\ m_state = "ReadAddressLsbLow"
    /\ m_rec' = [m_rec EXCEPT !.address = (@ + b2(b)) % (ByteSize * ByteSize)]
    /\ m_state' = "ReadRecordTypeHigh"
    /\ call' = <<>>
    /\ UNCHANGED <<m_strict, m_pos, m_pendingByte, started>>

(* Mutant of RecordTypeLow: a record without data is not told apart. *)
RecordTypeLowAlwaysData(b) ==
    /\ m_state = "ReadRecordTypeLow"
    /\ m_rec' = [m_rec EXCEPT !.type = b2(b)]
    /\ m_state' = "ReadDataHigh"
    /\ m_pos' = 0
    /\ call' = <<>>
    /\ UNCHANGED <<m_strict, m_pendingByte, started>>

RecordTypeLow(b) ==
    /\ m_state = "ReadRecordTypeLow"
    /\ m_rec' = [m_rec EXCEPT !.type = b2(b)]
    /\ m_state' = IF m_rec.length > 0 THEN "ReadDataHigh" ELSE "ReadChecksumHigh"
    /\ m_pos' = 0
    /\ call' = <<>>
    /\ UNCHANGED <<m_strict, m_pendingByte, started>>

DataLow(b) ==
    /\ m_state = "ReadDataLow"
    /\ Len(m_rec.data) < MaxData
    /\ m_rec' = [m_rec EXCEPT !.data = Append(@, b2(b))]
    /\ m_pos' = (m_pos + 1) % ByteSize
    /\ m_state' = IF m_pos' >= m_rec.length THEN "ReadChecksumHigh" ELSE "ReadDataHigh"
    /\ call' = <<>>
    /\ UNCHANGED <<m_strict, m_pendingByte, started>>

(* The bytes before the data, as they are spelled. *)
Header(rec) ==
    <<rec.length, rec.address \div ByteSize, rec.address % ByteSize, rec.type>>

(* Mutant of checksum: the high byte of the address is forgotten. *)
checksumOfLowAddress(rec) ==
    LET first  == rec.length + (rec.address % ByteSize) + rec.type
        sum[i \in 0 .. rec.length] ==
            IF i = 0 THEN first % ByteSize
            ELSE (sum[i - 1] + rec.data[i]) % ByteSize
    IN  (ByteSize - sum[rec.length]) % ByteSize

(* The two's complement of the sum of the header and of the first rec.length
   bytes of data, in 8 bits. *)
checksum(rec) ==
    LET first  == Header(rec)[1] + Header(rec)[2] + Header(rec)[3] + Header(rec)[4]
        sum[i \in 0 .. rec.length] ==
            IF i = 0 THEN first % ByteSize
            ELSE (sum[i - 1] + rec.data[i]) % ByteSize
    IN  (ByteSize - sum[rec.length]) % ByteSize

(* The record goes to m_callback, right or wrong.  It is passed by reference,
   so the callback may take the data away; otherwise it stays. *)
ChecksumLow(b) ==
    /\ m_state = "ReadChecksumLow"
    /\ m_state' = IF m_strict THEN "ReadWait" ELSE "ReadCountHigh"
    /\ LET rec == [m_rec EXCEPT !.checksum = b2(b)]
       IN  /\ call' = <<rec, checksum(rec)>>
           /\ m_rec' \in {rec, [rec EXCEPT !.data = <<>>]}
    /\ started' = FALSE
    /\ UNCHANGED <<m_strict, m_pos, m_pendingByte>>

Next ==
    \/ StartCode
    \/ Skip
    \/ \E b \in Digit :
        /\ input' = b
        /\ \/ HighDigit(b) \/ CountLow(b) \/ AddressMsbLow(b) \/ AddressLsbLow(b)
           \/ RecordTypeLow(b) \/ DataLow(b) \/ ChecksumLow(b)

Spec == Init /\ [][Next]_vars

-----------------------------------------------------------------------------

(* The domains of the variables. *)
TypeOK ==
    /\ input \in Digit \union {StartChar, OtherChar}
    /\ m_strict \in BOOLEAN
    /\ m_state \in ReadState
    /\ m_rec \in [type : Byte, address : 0 .. ByteSize * ByteSize - 1,
                  length : Byte, data : Seq(Byte), checksum : Byte]
    /\ m_pos \in Byte
    /\ m_pendingByte \in Byte
    /\ started \in BOOLEAN

(* A record that reaches the callback has as much data as it says: m_pos, the
   length and the vector agree when the checksum is read.  IntelHex.h, m_strict:
   "If set, the start code (initial ':') is required"; if it is not set, a
   record that has none is a record like any other. *)
DataMatchesLength ==
    call # <<>> => Len(call[1].data) = call[1].length

(* The bytes of the record that is being read that are complete. *)
BytesRead ==
    CASE m_state \in {"ReadWait", "ReadCountHigh", "ReadCountLow"} -> 0
      [] m_state \in {"ReadAddressMsbHigh", "ReadAddressMsbLow"} -> 1
      [] m_state \in {"ReadAddressLsbHigh", "ReadAddressLsbLow"} -> 2
      [] m_state \in {"ReadRecordTypeHigh", "ReadRecordTypeLow"} -> 3
      [] m_state \in {"ReadDataHigh", "ReadDataLow"} -> 4 + m_pos
      [] OTHER -> 4 + m_rec.length

(* The digits that spell what the parser has of the record. *)
spelled ==
    LET bytes == Header(m_rec) \o m_rec.data
        digits == [i \in 1 .. 2 * BytesRead |->
                     IF i % 2 = 1 THEN bytes[(i + 1) \div 2] \div Radix
                                  ELSE bytes[i \div 2] % Radix]
    IN  IF m_state \in {Low[s] : s \in DOMAIN Low}
        THEN Append(digits, m_pendingByte \div Radix)
        ELSE digits

Records == INSTANCE HexRecords WITH
    strict  <- m_strict,
    reading <- m_state # "ReadWait"

(* The parser hands on exactly the records its input spells, decoded, each
   with its last digit, after any garbage, in either mode, as long as every
   record has its ':'.  The input is the same on both sides, character for
   character: the parser can neither pass over a digit nor take one twice. *)
ImplementsHexRecords == Records!Spec

=============================================================================
