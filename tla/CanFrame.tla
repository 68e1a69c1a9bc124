------------------------------ MODULE CanFrame ------------------------------
(***************************************************************************)
(* A CanFrame and its way over a SocketCAN socket: the setters, isValid(), *)
(* what send() makes of a frame and what readSocket() makes of that.       *)
(*                                                                         *)
(* A program edits one frame and, now and then, sends it and goes on with  *)
(* what a socket received, as a gateway does.  The payload is its size:    *)
(* nothing looks at the bytes.  Identifiers keep their two limits, 2^11    *)
(* for standard and 2^29 for extended ones.  Timestamps are left out.      *)
(***************************************************************************)
EXTENDS Integers, FiniteSets

CONSTANTS
    SffSize,   \* number of 11-bit identifiers
    EffSize,   \* number of 29-bit identifiers
    MaxId,     \* bound: the largest identifier a program tries
    Sizes      \* payload sizes a program tries

ASSUME FrameConstants ==
    /\ SffSize \in Nat \ {0} /\ EffSize \in Nat /\ MaxId \in Nat
    /\ SffSize < EffSize
    /\ Sizes \subseteq Nat /\ 0 \in Sizes

VARIABLE frame

FrameType == {"UnknownFrame", "DataFrame", "ErrorFrame", "RemoteRequestFrame",
              "InvalidFrame"}

(* Sizes an FD frame can have beyond 8, and the most that a can_frame and a
   canfd_frame hold. *)
LongSizes == {12, 16, 20, 24, 32, 48, 64}
ClassicBytes == 8
FDBytes == 64

(* Mutant of isValid: every frame may be as long as an FD frame. *)
isValidLong(f) ==
    /\ f.type # "InvalidFrame"
    /\ f.extendedId \/ f.id < SffSize
    /\ f.validId
    /\ f.FD => f.type # "RemoteRequestFrame"
    /\ f.size <= 8 \/ f.size \in LongSizes

isValid(f) ==
    /\ f.type # "InvalidFrame"
    /\ f.extendedId \/ f.id < SffSize
    /\ f.validId
    /\ f.FD => f.type # "RemoteRequestFrame"
    /\ f.size <= 8 \/ (f.FD /\ f.size \in LongSizes)

-----------------------------------------------------------------------------
(* Setters: the frame they leave. *)

setFrameType(f, type) == [f EXCEPT !.type = type]

setExtendedId(f, isExtended) == [f EXCEPT !.extendedId = isExtended]

(* Mutant of setId: the limit is one too high. *)
setIdOffByOne(f, newId) ==
    IF newId <= EffSize
    THEN [f EXCEPT !.validId = TRUE, !.id = newId,
                   !.extendedId = @ \/ newId >= SffSize]
    ELSE [f EXCEPT !.validId = FALSE, !.id = 0]

(* Mutant of setId: the flag for 29 bits is left alone. *)
setIdNeverExtends(f, newId) ==
    IF newId < EffSize
    THEN [f EXCEPT !.validId = TRUE, !.id = newId]
    ELSE [f EXCEPT !.validId = FALSE, !.id = 0]

(* The flag for 29 bits is set where they are needed, and never reset. *)
setId(f, newId) ==
    IF newId < EffSize
    THEN [f EXCEPT !.validId = TRUE, !.id = newId,
                   !.extendedId = @ \/ newId >= SffSize]
    ELSE [f EXCEPT !.validId = FALSE, !.id = 0]

setPayload(f, size) == [f EXCEPT !.size = size, !.FD = @ \/ size > 8]

(* The error flags live in the identifier. *)
setError(f, err) ==
    IF f.type = "ErrorFrame" THEN [f EXCEPT !.id = err % EffSize] ELSE f

(* Mutant of setFD: the flags of FD frames stay. *)
setFDKeepsFlags(f, isFD) == [f EXCEPT !.FD = isFD]

setFD(f, isFD) ==
    [f EXCEPT !.FD = isFD,
              !.BRS = @ /\ isFD,
              !.errorState = @ /\ isFD]

setBitrateSwitch(f, brs) == [f EXCEPT !.BRS = brs, !.FD = @ \/ brs]

setErrorState(f, es) == [f EXCEPT !.errorState = es]

setLocalEcho(f, echo) == [f EXCEPT !.echo = echo]

(* id() and error() *)
idOf(f) == IF f.type = "ErrorFrame" THEN 0 ELSE f.id
errorOf(f) == IF f.type = "ErrorFrame" THEN f.id ELSE 0

(* CanFrame(type) and CanFrame(id, data) *)
New(type) ==
    setId([type |-> type, id |-> 0, validId |-> TRUE, extendedId |-> FALSE,
           errorState |-> FALSE, FD |-> FALSE, BRS |-> FALSE, echo |-> FALSE,
           size |-> 0], 0)

NewData(id, size) == setId(setPayload(New("DataFrame"), size), id)

-----------------------------------------------------------------------------
(* The socket. *)

(* What send() lets through. *)
Sendable(f, fdEnabled) == isValid(f) /\ (f.FD => fdEnabled)

(* Mutant of Encode: an error frame keeps its identifier, which is 0. *)
EncodeErrorAsId(f) ==
    [mtu |-> IF f.FD THEN FDBytes ELSE ClassicBytes,
     id  |-> idOf(f),
     EFF |-> f.extendedId /\ f.type # "ErrorFrame",
     RTR |-> f.type = "RemoteRequestFrame",
     ERR |-> f.type = "ErrorFrame",
     len |-> f.size,
     BRS |-> f.FD /\ f.BRS,
     ESI |-> f.FD /\ f.errorState]

(* The can_frame or canfd_frame that send() writes: for an error frame the
   flags replace the identifier and its EFF bit. *)
Encode(f) ==
    [mtu |-> IF f.FD THEN FDBytes ELSE ClassicBytes,
     id  |-> IF f.type = "ErrorFrame" THEN errorOf(f) ELSE idOf(f),
     EFF |-> f.extendedId /\ f.type # "ErrorFrame",
     RTR |-> f.type = "RemoteRequestFrame",
     ERR |-> f.type = "ErrorFrame",
     len |-> f.size,
     BRS |-> f.FD /\ f.BRS,
     ESI |-> f.FD /\ f.errorState]

TypeOnWire(raw) ==
    IF raw.RTR THEN "RemoteRequestFrame"
    ELSE IF raw.ERR THEN "ErrorFrame" ELSE "DataFrame"

(* The frame that readSocket() makes, setter by setter; confirmed is
   MSG_CONFIRM. *)
Decode(raw, confirmed) ==
    LET extended == setExtendedId(setFD(New("DataFrame"), raw.mtu = FDBytes),
                                  raw.EFF)
        typed    == setFrameType(extended, TypeOnWire(raw))
        switched == IF raw.BRS THEN setBitrateSwitch(typed, TRUE) ELSE typed
        flagged  == IF raw.ESI THEN setErrorState(switched, TRUE) ELSE switched
        echoed   == IF confirmed THEN setLocalEcho(flagged, TRUE) ELSE flagged
    IN  setPayload(setId(echoed, raw.id), raw.len)

-----------------------------------------------------------------------------

Init ==
    \/ \E type \in FrameType : frame = New(type)
    \/ \E id \in 0 .. MaxId, size \in Sizes : frame = NewData(id, size)

Edit ==
    \/ \E type \in FrameType : frame' = setFrameType(frame, type)
    \/ \E id \in 0 .. MaxId : frame' = setId(frame, id)
    \/ \E err \in 0 .. MaxId : frame' = setError(frame, err)
    \/ \E size \in Sizes : frame' = setPayload(frame, size)
    \/ \E flag \in BOOLEAN :
        \/ frame' = setExtendedId(frame, flag)
        \/ frame' = setFD(frame, flag)
        \/ frame' = setBitrateSwitch(frame, flag)
        \/ frame' = setErrorState(frame, flag)
        \/ frame' = setLocalEcho(frame, flag)

(* The frame goes out on one interface and comes in on another. *)
Forward ==
    \E fdEnabled, confirmed \in BOOLEAN :
        /\ Sendable(frame, fdEnabled)
        /\ frame' = Decode(Encode(frame), confirmed)

Next == Edit \/ Forward

Spec == Init /\ [][Next]_frame

-----------------------------------------------------------------------------

(* The domains of the fields; an identifier has 29 bits. *)
TypeOK ==
    frame \in [type : FrameType, id : 0 .. EffSize - 1, size : Sizes,
               validId : BOOLEAN, extendedId : BOOLEAN, errorState : BOOLEAN,
               FD : BOOLEAN, BRS : BOOLEAN, echo : BOOLEAN]

(* send() copies the payload into a buffer of 8 or 64 bytes without looking at
   its size: whatever the setters did before, isValid() keeps back what does
   not fit. *)
PayloadFits ==
    Sendable(frame, TRUE) => frame.size <= Encode(frame).mtu

(* A frame that uses a bitrate switch is an FD frame (setBitrateSwitch: "If
   set, the frame will be marked as an FD frame"), after any sequence of
   setters and any number of sockets; send() drops the flag of one that is
   not. *)
SwitchNeedsFD == frame.BRS => frame.FD

(* What a socket receives is what was sent: the same kind of frame, the same
   identifier of the same length or the same errors, the same size and flags.
   Only UnknownFrame has no form on the wire, and a classic frame no error
   state. *)
RoundTrip ==
    Sendable(frame, TRUE) =>
        \A confirmed \in BOOLEAN :
            LET received == Decode(Encode(frame), confirmed)
            IN  /\ received.type = IF frame.type = "UnknownFrame"
                                   THEN "DataFrame" ELSE frame.type
                /\ idOf(received) = idOf(frame)
                /\ errorOf(received) = errorOf(frame)
                /\ frame.type # "ErrorFrame"
                     => received.extendedId = frame.extendedId
                /\ received.size = frame.size
                /\ received.FD = frame.FD
                /\ received.BRS = frame.BRS
                /\ received.errorState = (frame.FD /\ frame.errorState)
                /\ received.echo = confirmed

(* A frame that was received can be sent on: there is no frame that send()
   writes and readSocket() turns into one that send() refuses. *)
ReceivedIsSendable ==
    Sendable(frame, TRUE) =>
        \A fdEnabled, confirmed \in BOOLEAN :
            Sendable(frame, fdEnabled)
                => Sendable(Decode(Encode(frame), confirmed), fdEnabled)

=============================================================================
