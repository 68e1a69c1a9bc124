----------------------------- MODULE HexRecords -----------------------------
(***************************************************************************)
(* What a reader of Intel HEX promises of any input: a record is spelled   *)
(* by the hex digits that follow its start code, and is handed on,         *)
(* decoded, with its last digit.  Nothing else is handed on.  A digit is   *)
(* passed over only while no record is read, any other character always.   *)
(***************************************************************************)
EXTENDS Integers, Sequences

CONSTANT Radix   \* values of a digit: 16

VARIABLES
    input,     \* the character of this step: StartChar, a digit, or OtherChar
    strict,    \* a record needs its start code
    reading,   \* digits are read as part of a record
    spelled,   \* the digits of that record up to now
    call       \* <<record, check byte>> handed on in this step, or <<>>

vars == <<input, strict, reading, spelled, call>>

Digit == 0 .. Radix - 1
StartChar == Radix
OtherChar == Radix + 1
ByteSize == Radix * Radix

(* The n-th byte that digits spell. *)
ByteAt(digits, n) == digits[2 * n - 1] * Radix + digits[2 * n]

(* Count, two bytes of address, type, as many bytes as counted, checksum. *)
Complete(digits) ==
    Len(digits) >= 2 /\ Len(digits) = 2 * (5 + ByteAt(digits, 1))

Decode(digits) ==
    LET length == ByteAt(digits, 1)
    IN  [length   |-> length,
         address  |-> ByteAt(digits, 2) * ByteSize + ByteAt(digits, 3),
         type     |-> ByteAt(digits, 4),
         data     |-> [i \in 1 .. length |-> ByteAt(digits, 4 + i)],
         checksum |-> ByteAt(digits, 5 + length)]

(* The byte that makes the sum of the record's bytes a multiple of 256. *)
CheckByte(digits) ==
    LET summed == 4 + ByteAt(digits, 1)
        total[n \in 0 .. summed] ==
            IF n = 0 THEN 0 ELSE total[n - 1] + ByteAt(digits, n)
    IN  CHOOSE c \in 0 .. ByteSize - 1 : (total[summed] + c) % ByteSize = 0

Init ==
    /\ input = OtherChar
    /\ strict \in BOOLEAN
    /\ reading \in BOOLEAN
    /\ strict => ~reading
    /\ spelled = <<>>
    /\ call = <<>>

StartCode ==
    /\ input' = StartChar
    /\ reading' = TRUE
    /\ spelled' = <<>>
    /\ call' = <<>>
    /\ UNCHANGED strict

ReadDigit ==
    /\ reading
    /\ input' \in Digit
    /\ LET digits == Append(spelled, input')
       IN  IF Complete(digits)
           THEN /\ reading' = ~strict
                /\ spelled' = <<>>
                /\ call' = <<Decode(digits), CheckByte(digits)>>
           ELSE /\ spelled' = digits
                /\ call' = <<>>
                /\ UNCHANGED reading
    /\ UNCHANGED strict

(* Any other character, and digits outside a record. *)
Skip ==
    /\ \/ input' = OtherChar
       \/ ~reading /\ input' \in Digit
    /\ call' = <<>>
    /\ UNCHANGED <<strict, reading, spelled>>

Next == StartCode \/ ReadDigit \/ Skip

Spec == Init /\ [][Next]_vars

=============================================================================
