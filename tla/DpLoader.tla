------------------------------ MODULE DpLoader ------------------------------
(***************************************************************************)
(* The byte stuffing and the checksum of the boot loader's protocol:       *)
(* escape(), unescape() and crc16(), as loops over a message.              *)
(*                                                                         *)
(* A byte is the set of its bits that are one, and so is a checksum: the   *)
(* exclusive or is the symmetric difference, a shift moves the elements.   *)
(* The message is escaped and summed byte by byte, may lose its end on the *)
(* way, and is unescaped byte by byte.                                     *)
(***************************************************************************)
EXTENDS Integers, Sequences, SequencesExt

CONSTANTS
    Bytes,     \* bytes a message may have
    MaxBytes   \* bound: length of a message

Bits == 0 .. 7

ASSUME LoaderConstants ==
    /\ Bytes \subseteq SUBSET Bits
    /\ MaxBytes \in Nat

VARIABLES
    phase,      \* which loop runs
    data,       \* the message so far
    escaped,    \* what escape() returns for it
    starts,     \* history: where each byte of data begins in all of escaped,
                \* and where one more would
    crc,        \* crc16() of it
    cut,        \* the end of escaped was lost
    it,         \* the iterator of unescape()
    unescaped   \* what unescape() has pushed

vars == <<phase, data, escaped, starts, crc, cut, it, unescaped>>

SOH == {0}   \* 0x01
EOT == {2}   \* 0x04
DLE == {4}   \* 0x10

-----------------------------------------------------------------------------
(* Pure functions. *)

Xor(a, b) == (a \ b) \union (b \ a)

(* Mutant of ShiftLeft: the bit that leaves the 16 is kept. *)
ShiftLeftWide(c) == { i + 1 : i \in c }

(* << 1 in 16 bits *)
ShiftLeft(c) == { i + 1 : i \in c } \ {16}

Poly == {0, 5, 12}   \* 0x1021

(* Mutant of CrcBit: the bit is tested after the shift. *)
CrcBitShiftFirst(c) ==
    IF 15 \in ShiftLeft(c) THEN Xor(ShiftLeft(c), Poly) ELSE ShiftLeft(c)

CrcBit(c) == IF 15 \in c THEN Xor(ShiftLeft(c), Poly) ELSE ShiftLeft(c)

(* One round of the loop over the bytes: eight of the loop over the bits. *)
CrcByte(c, b) ==
    LET two(x)  == CrcBit(CrcBit(x))
        four(x) == two(two(x))
    IN  four(four(Xor(c, { i + 8 : i \in b })))

Special == {SOH, EOT, DLE}

(* Mutants of EscapeByte: the escape character, or the end of a frame, is
   not escaped. *)
EscapeByteNotDLE(b) == IF b \in Special \ {DLE} THEN <<DLE, b>> ELSE <<b>>
EscapeByteNotEOT(b) == IF b \in Special \ {EOT} THEN <<DLE, b>> ELSE <<b>>

EscapeByte(b) == IF b \in Special THEN <<DLE, b>> ELSE <<b>>

-----------------------------------------------------------------------------

Init ==
    /\ phase = "escape"
    /\ data = <<>> /\ escaped = <<>> /\ starts = <<1>>
    /\ crc = {} /\ cut = FALSE
    /\ it = 1 /\ unescaped = <<>>

(* The loops of escape() and crc16() go on to the next byte. *)
Escape(b) ==
    /\ phase = "escape"
    /\ Len(data) < MaxBytes
    /\ data' = Append(data, b)
    /\ escaped' = escaped \o EscapeByte(b)
    /\ starts' = Append(starts, Len(escaped') + 1)
    /\ crc' = CrcByte(crc, b)
    /\ UNCHANGED <<phase, cut, it, unescaped>>

(* All of it, or a first part, reaches the other side. *)
Receive(n) ==
    /\ phase = "escape"
    /\ phase' = "unescape"
    /\ escaped' = SubSeq(escaped, 1, n)
    /\ cut' = (n < Len(escaped))
    /\ UNCHANGED <<data, starts, crc, it, unescaped>>

(* Where *it is read: behind an escape character. *)
ReadAt == IF escaped[it] = DLE THEN it + 1 ELSE it

(* Mutant of UnescapeByte: every DLE is dropped, and what follows is looked
   at again. *)
UnescapeByteDropping ==
    /\ phase = "unescape"
    /\ it <= Len(escaped)
    /\ unescaped' = IF escaped[it] = DLE THEN unescaped
                    ELSE Append(unescaped, escaped[it])
    /\ it' = it + 1
    /\ UNCHANGED <<phase, data, escaped, starts, crc, cut>>

UnescapeByte ==
    /\ phase = "unescape"
    /\ it <= Len(escaped)
    /\ ReadAt <= Len(escaped)
    /\ unescaped' = Append(unescaped, escaped[ReadAt])
    /\ it' = ReadAt + 1
    /\ UNCHANGED <<phase, data, escaped, starts, crc, cut>>

(* Behind an escape character at the end, *it is read at cend(), and the
   loop, which ends at cend() only, goes on behind it: undefined. *)
Overrun ==
    /\ phase = "unescape"
    /\ it <= Len(escaped)
    /\ ReadAt > Len(escaped)
    /\ phase' = "undefined"
    /\ UNCHANGED <<data, escaped, starts, crc, cut, it, unescaped>>

Finish ==
    /\ phase = "unescape"
    /\ it > Len(escaped)
    /\ phase' = "done"
    /\ UNCHANGED <<data, escaped, starts, crc, cut, it, unescaped>>

Next ==
    \/ \E b \in Bytes : Escape(b)
    \/ \E n \in 0 .. Len(escaped) : Receive(n)
    \/ UnescapeByte \/ Overrun \/ Finish

Spec == Init /\ [][Next]_vars

-----------------------------------------------------------------------------

(* The domains of the variables; the checksum has 16 bits. *)
TypeOK ==
    /\ phase \in {"escape", "unescape", "undefined", "done"}
    /\ {data, escaped, unescaped} \subseteq Seq(SUBSET Bits)
    /\ starts \in Seq(Nat \ {0})
    /\ crc \subseteq 0 .. 15
    /\ cut \in BOOLEAN
    /\ it \in Nat \ {0}

(* unescape() undoes escape(): what it pushes is the message from its start,
   the whole message if the whole of escape()'s result arrived, and some first
   part of it if the end was lost. *)
UnescapeUndoesEscape ==
    /\ IsPrefix(unescaped, data)
    /\ phase = "done" => Len(unescaped) = Len(data) \/ cut

(* unescape() steps over an escape character without looking for the end of
   the data; for a result of escape() that arrived whole there is always a
   byte behind it. *)
WholeNeverOverruns == phase = "undefined" => cut

(* A start or an end of frame inside a message is always marked, so that a
   bare one delimits frames. *)
DelimitersAreMarked ==
    \A i \in 1 .. Len(escaped) :
        escaped[i] \in {SOH, EOT} => i > 1 /\ escaped[i - 1] = DLE

(* Long division by x^16 + x^12 + x^5 + 1: the polynomial m without its terms
   down to x^16. *)
Remainder(m) ==
    LET top == 8 * MaxBytes + 15
        divided[k \in 16 .. top + 1] ==
            IF k = top + 1 THEN m
            ELSE LET p == divided[k + 1]
                 IN  IF k \in p THEN Xor(p, {k, k - 4, k - 11, k - 16}) ELSE p
    IN  divided[16]

(* The message as a polynomial, its first bit first, times x^16. *)
Message ==
    UNION { { 8 * (Len(data) - i) + j + 16 : j \in data[i] } : i \in 1 .. Len(data) }

(* crc16() is the remainder of the message: the loops over bytes and bits, the
   shift that loses a bit and the exclusive or in 16 bits amount to division
   by the generator 0x11021. *)
CrcIsRemainder == crc = Remainder(Message)

=============================================================================
