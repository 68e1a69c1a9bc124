--------------------------- MODULE CanFrame_proofs ---------------------------
(***************************************************************************)
(* CanFrame for all identifiers, sizes and sequences of setters.           *)
(***************************************************************************)
EXTENDS CanFrame, TLAPS

Frame ==
    [type : FrameType, id : 0 .. EffSize - 1, size : Sizes,
     validId : BOOLEAN, extendedId : BOOLEAN, errorState : BOOLEAN,
     FD : BOOLEAN, BRS : BOOLEAN, echo : BOOLEAN]

LEMMA Remainder ==
    ASSUME NEW x \in Nat, NEW n \in Nat \ {0}
    PROVE  x % n \in 0 .. n - 1
  BY SMT

(* Each setter leaves a frame. *)
LEMMA SettersGiveFrames ==
    ASSUME NEW f \in Frame, NEW type \in FrameType, NEW newId \in Nat,
           NEW size \in Sizes, NEW flag \in BOOLEAN
    PROVE  /\ setFrameType(f, type) \in Frame
           /\ setId(f, newId) \in Frame
           /\ setError(f, newId) \in Frame
           /\ setPayload(f, size) \in Frame
           /\ setExtendedId(f, flag) \in Frame
           /\ setFD(f, flag) \in Frame
           /\ setBitrateSwitch(f, flag) \in Frame
           /\ setErrorState(f, flag) \in Frame
           /\ setLocalEcho(f, flag) \in Frame
<1>1. setId(f, newId) \in Frame
  <2>1. CASE newId < EffSize
    <3>1. newId \in 0 .. EffSize - 1
      BY <2>1, FrameConstants, SMT DEF FrameConstants
    <3>2. (f.extendedId \/ newId >= SffSize) \in BOOLEAN
      OBVIOUS
    <3> QED
      BY <2>1, <3>1, <3>2, Zenon DEF Frame, setId
  <2>2. CASE ~ (newId < EffSize)
    <3>1. 0 \in 0 .. EffSize - 1
      BY FrameConstants, SMT DEF FrameConstants
    <3> QED
      BY <2>2, <3>1 DEF Frame, setId
  <2> QED
    BY <2>1, <2>2
<1>2. setError(f, newId) \in Frame
  <2>1. newId % EffSize \in 0 .. EffSize - 1
    BY FrameConstants, Remainder, SMT DEF FrameConstants
  <2> QED
    BY <2>1 DEF Frame, setError
<1>3. setPayload(f, size) \in Frame
  BY DEF Frame, setPayload
<1>4. /\ setFrameType(f, type) \in Frame
      /\ setExtendedId(f, flag) \in Frame
  BY DEF Frame, setFrameType, setExtendedId
<1>5. setFD(f, flag) \in Frame
  BY DEF Frame, setFD
<1>6. setBitrateSwitch(f, flag) \in Frame
  BY DEF Frame, setBitrateSwitch
<1>7. /\ setErrorState(f, flag) \in Frame
      /\ setLocalEcho(f, flag) \in Frame
  BY DEF Frame, setErrorState, setLocalEcho
<1> QED
  BY <1>1, <1>2, <1>3, <1>4, <1>5, <1>6, <1>7

(* A frame whose flags fit together, and setters keep it so. *)
Consistent(f) == f \in Frame /\ (f.BRS => f.FD)

LEMMA SettersKeepConsistent ==
    ASSUME NEW f, Consistent(f), NEW type \in FrameType, NEW newId \in Nat,
           NEW size \in Sizes, NEW flag \in BOOLEAN
    PROVE  /\ Consistent(setFrameType(f, type))
           /\ Consistent(setId(f, newId))
           /\ Consistent(setError(f, newId))
           /\ Consistent(setPayload(f, size))
           /\ Consistent(setExtendedId(f, flag))
           /\ Consistent(setFD(f, flag))
           /\ Consistent(setBitrateSwitch(f, flag))
           /\ Consistent(setErrorState(f, flag))
           /\ Consistent(setLocalEcho(f, flag))
<1>1. f \in Frame /\ (f.BRS => f.FD)
  BY DEF Consistent
<1>2. setId(f, newId).BRS = f.BRS /\ setId(f, newId).FD = f.FD
  BY <1>1 DEF setId, Frame
<1>3. setError(f, newId).BRS = f.BRS /\ setError(f, newId).FD = f.FD
  BY <1>1 DEF setError, Frame
<1>4. setPayload(f, size).BRS = f.BRS /\ (f.FD => setPayload(f, size).FD)
  BY <1>1 DEF setPayload, Frame
<1>5. /\ setFD(f, flag).FD = flag /\ (setFD(f, flag).BRS => flag)
  BY <1>1 DEF setFD, Frame
<1>6. /\ setBitrateSwitch(f, flag).BRS = flag
      /\ flag => setBitrateSwitch(f, flag).FD
  BY <1>1 DEF setBitrateSwitch, Frame
<1>7. /\ setFrameType(f, type).BRS = f.BRS /\ setFrameType(f, type).FD = f.FD
      /\ setExtendedId(f, flag).BRS = f.BRS /\ setExtendedId(f, flag).FD = f.FD
      /\ setErrorState(f, flag).BRS = f.BRS /\ setErrorState(f, flag).FD = f.FD
      /\ setLocalEcho(f, flag).BRS = f.BRS /\ setLocalEcho(f, flag).FD = f.FD
  BY <1>1 DEF setFrameType, setExtendedId, setErrorState, setLocalEcho, Frame
<1> QED
  BY <1>1, <1>2, <1>3, <1>4, <1>5, <1>6, <1>7, SettersGiveFrames DEF Consistent

(* The constructors give one. *)
LEMMA NewIsConsistent ==
    ASSUME NEW type \in FrameType
    PROVE  Consistent(New(type))
<1> DEFINE blank ==
        [type |-> type, id |-> 0, validId |-> TRUE, extendedId |-> FALSE,
         errorState |-> FALSE, FD |-> FALSE, BRS |-> FALSE, echo |-> FALSE,
         size |-> 0]
<1>1. Consistent(blank)
  BY FrameConstants, SMT DEF FrameConstants, Frame, Consistent
<1> HIDE DEF blank
<1>2. Consistent(setId(blank, 0))
  BY <1>1, FrameConstants, SettersKeepConsistent DEF FrameConstants
<1> QED
  BY <1>2 DEF New, blank

-----------------------------------------------------------------------------
(* What travels. *)

RawFrame ==
    [mtu : {ClassicBytes, FDBytes}, id : 0 .. EffSize - 1, EFF : BOOLEAN,
     RTR : BOOLEAN, ERR : BOOLEAN, len : Sizes, BRS : BOOLEAN, ESI : BOOLEAN]

LEMMA EncodeGivesRaw ==
    ASSUME NEW f \in Frame
    PROVE  Encode(f) \in RawFrame
<1>1. /\ (IF f.FD THEN FDBytes ELSE ClassicBytes) \in {ClassicBytes, FDBytes}
      /\ (f.extendedId /\ f.type # "ErrorFrame") \in BOOLEAN
      /\ (f.type = "RemoteRequestFrame") \in BOOLEAN
      /\ (f.type = "ErrorFrame") \in BOOLEAN
      /\ (f.FD /\ f.BRS) \in BOOLEAN
      /\ (f.FD /\ f.errorState) \in BOOLEAN
  OBVIOUS
<1>2. (IF f.type = "ErrorFrame" THEN errorOf(f) ELSE idOf(f)) = f.id
  BY DEF errorOf, idOf
<1>3. f.id \in 0 .. EffSize - 1 /\ f.size \in Sizes
  BY DEF Frame
<1> QED
  BY <1>1, <1>2, <1>3, Zenon DEF Encode, RawFrame

(* readSocket() makes a consistent frame. *)
LEMMA DecodeIsConsistent ==
    ASSUME NEW raw \in RawFrame, NEW confirmed \in BOOLEAN
    PROVE  Consistent(Decode(raw, confirmed))
<1> DEFINE opened   == setFD(New("DataFrame"), raw.mtu = FDBytes)
           extended == setExtendedId(opened, raw.EFF)
           typed    == setFrameType(extended, TypeOnWire(raw))
           switched == IF raw.BRS THEN setBitrateSwitch(typed, TRUE) ELSE typed
           flagged  == IF raw.ESI THEN setErrorState(switched, TRUE) ELSE switched
           echoed   == IF confirmed THEN setLocalEcho(flagged, TRUE) ELSE flagged
           named    == setId(echoed, raw.id)
<1>1. /\ raw.id \in Nat /\ raw.len \in Sizes /\ raw.EFF \in BOOLEAN
      /\ (raw.mtu = FDBytes) \in BOOLEAN /\ TRUE \in BOOLEAN
      /\ TypeOnWire(raw) \in FrameType
      /\ "DataFrame" \in FrameType
  BY FrameConstants, SMT DEF FrameConstants, RawFrame, TypeOnWire, FrameType
<1>2. Consistent(opened)
  BY <1>1, NewIsConsistent, SettersKeepConsistent
<1> HIDE DEF opened
<1>3. Consistent(extended)
  BY <1>1, <1>2, SettersKeepConsistent
<1> HIDE DEF extended
<1>4. Consistent(typed)
  BY <1>1, <1>3, SettersKeepConsistent
<1> HIDE DEF typed
<1>5. Consistent(switched)
  BY <1>1, <1>4, SettersKeepConsistent
<1> HIDE DEF switched
<1>6. Consistent(flagged)
  BY <1>1, <1>5, SettersKeepConsistent
<1> HIDE DEF flagged
<1>7. Consistent(echoed)
  BY <1>1, <1>6, SettersKeepConsistent
<1> HIDE DEF echoed
<1>8. Consistent(named)
  BY <1>1, <1>7, SettersKeepConsistent
<1> HIDE DEF named
<1>9. Consistent(setPayload(named, raw.len))
  BY <1>1, <1>8, SettersKeepConsistent
<1> QED
  BY <1>9 DEF Decode, named, echoed, flagged, switched, typed, extended, opened

-----------------------------------------------------------------------------
(* Type correctness, and the flags of FD frames. *)

(* Whatever setters and sockets a frame has been through, a bitrate switch
   makes it an FD frame. *)
THEOREM SwitchMakesFD == Spec => [](TypeOK /\ SwitchNeedsFD)
<1>1. TypeOK /\ SwitchNeedsFD <=> Consistent(frame)
  BY DEF TypeOK, SwitchNeedsFD, Consistent, Frame
<1>2. Init => Consistent(frame)
  <2>1. ASSUME NEW id \in 0 .. MaxId, NEW size \in Sizes
        PROVE  Consistent(NewData(id, size))
    <3>1. Consistent(New("DataFrame"))
      BY NewIsConsistent DEF FrameType
    <3>2. id \in Nat /\ "DataFrame" \in FrameType /\ TRUE \in BOOLEAN
      BY SMT DEF FrameType
    <3>3. Consistent(setPayload(New("DataFrame"), size))
      BY <3>1, <3>2, SettersKeepConsistent
    <3> QED
      BY <3>2, <3>3, SettersKeepConsistent DEF NewData
  <2> QED
    BY <2>1, NewIsConsistent DEF Init
<1>3. Consistent(frame) /\ [Next]_frame => Consistent(frame')
  <2> SUFFICES ASSUME Consistent(frame), [Next]_frame PROVE Consistent(frame')
    OBVIOUS
  <2>1. CASE Edit
    <3>1. /\ "DataFrame" \in FrameType /\ 0 \in Nat /\ 0 \in Sizes
          /\ TRUE \in BOOLEAN
          /\ \A id \in 0 .. MaxId : id \in Nat
      BY FrameConstants, SMT DEF FrameConstants, FrameType
    <3>2. CASE \E type \in FrameType : frame' = setFrameType(frame, type)
      BY <3>1, <3>2, SettersKeepConsistent
    <3>3. CASE \E id \in 0 .. MaxId :
                  frame' = setId(frame, id) \/ frame' = setError(frame, id)
      BY <3>1, <3>3, SettersKeepConsistent
    <3>4. CASE \E size \in Sizes : frame' = setPayload(frame, size)
      BY <3>1, <3>4, SettersKeepConsistent
    <3>5. CASE \E flag \in BOOLEAN :
                  \/ frame' = setExtendedId(frame, flag)
                  \/ frame' = setFD(frame, flag)
                  \/ frame' = setBitrateSwitch(frame, flag)
                  \/ frame' = setErrorState(frame, flag)
                  \/ frame' = setLocalEcho(frame, flag)
      BY <3>1, <3>5, SettersKeepConsistent
    <3> QED
      BY <2>1, <3>2, <3>3, <3>4, <3>5 DEF Edit
  <2>2. CASE Forward
    BY <2>2, EncodeGivesRaw, DecodeIsConsistent DEF Forward, Consistent
  <2>3. CASE UNCHANGED frame
    BY <2>3
  <2> QED
    BY <2>1, <2>2, <2>3 DEF Next
<1>4. (TypeOK /\ SwitchNeedsFD)' <=> Consistent(frame')
  BY DEF TypeOK, SwitchNeedsFD, Consistent, Frame
<1> QED
  BY <1>1, <1>2, <1>3, <1>4, PTL DEF Spec

(* No frame that send() lets through overflows the buffer it is copied to. *)
THEOREM NoOverflow == Spec => []PayloadFits
<1>1. TypeOK => PayloadFits
  <2> SUFFICES ASSUME TypeOK, Sendable(frame, TRUE)
               PROVE  frame.size <= Encode(frame).mtu
    BY DEF PayloadFits
  <2>1. frame.size \in Nat
    BY FrameConstants DEF FrameConstants, TypeOK
  <2>2. Encode(frame).mtu = IF frame.FD THEN 64 ELSE 8
    BY DEF Encode, FDBytes, ClassicBytes
  <2>3. frame.size <= 8 \/ (frame.FD /\ frame.size <= 64)
    BY <2>1, SMT DEF Sendable, isValid, LongSizes
  <2> QED
    BY <2>1, <2>2, <2>3, SMT
<1> QED
  BY <1>1, SwitchMakesFD, PTL

(* The fields of every frame the setters leave are in their domains. *)
THEOREM FrameTypeCorrect == Spec => []TypeOK
  BY SwitchMakesFD, PTL

-----------------------------------------------------------------------------
(* From one end of a socket to the other. *)

(* A frame and its fields, except for what setId() and setPayload() set. *)
Has(f, type, EFF, isFD, BRS, ESI, echo) ==
    /\ f \in Frame
    /\ f.type = type
    /\ f.extendedId = EFF
    /\ f.FD = isFD
    /\ f.BRS = BRS
    /\ f.errorState = ESI
    /\ f.echo = echo

LEMMA NewHas ==
    ASSUME NEW type \in FrameType
    PROVE  Has(New(type), type, FALSE, FALSE, FALSE, FALSE, FALSE)
<1> DEFINE blank ==
        [type |-> type, id |-> 0, validId |-> TRUE, extendedId |-> FALSE,
         errorState |-> FALSE, FD |-> FALSE, BRS |-> FALSE, echo |-> FALSE,
         size |-> 0]
<1>1. Has(blank, type, FALSE, FALSE, FALSE, FALSE, FALSE)
  BY FrameConstants, SMT DEF FrameConstants, Frame, Has
<1> HIDE DEF blank
<1>2. Has(setId(blank, 0), type, FALSE, FALSE, FALSE, FALSE, FALSE)
  <2>1. setId(blank, 0) \in Frame
    BY NewIsConsistent DEF Consistent, New, blank
  <2>2. 0 < EffSize /\ ~ 0 >= SffSize
    BY FrameConstants, SMT DEF FrameConstants
  <2> QED
    BY <1>1, <2>1, <2>2 DEF Has, Frame, setId
<1> QED
  BY <1>2 DEF New, blank

(* The fields of what readSocket() makes of what is on the wire. *)
LEMMA DecodedFields ==
    ASSUME NEW raw \in RawFrame, NEW confirmed \in BOOLEAN
    PROVE  LET r == Decode(raw, confirmed)
           IN  /\ r.type = TypeOnWire(raw)
               /\ r.id = raw.id
               /\ r.size = raw.len
               /\ r.validId = TRUE
               /\ r.extendedId = (raw.EFF \/ raw.id >= SffSize)
               /\ r.FD = (raw.mtu = FDBytes \/ raw.BRS \/ raw.len > 8)
               /\ r.BRS = raw.BRS
               /\ r.errorState = raw.ESI
               /\ r.echo = confirmed
<1> DEFINE isFD     == raw.mtu = FDBytes
           type     == TypeOnWire(raw)
           opened   == setFD(New("DataFrame"), isFD)
           extended == setExtendedId(opened, raw.EFF)
           typed    == setFrameType(extended, type)
           switched == IF raw.BRS THEN setBitrateSwitch(typed, TRUE) ELSE typed
           flagged  == IF raw.ESI THEN setErrorState(switched, TRUE) ELSE switched
           echoed   == IF confirmed THEN setLocalEcho(flagged, TRUE) ELSE flagged
           named    == setId(echoed, raw.id)
           r        == setPayload(named, raw.len)
           FD       == isFD \/ raw.BRS
<1>0. /\ raw.EFF \in BOOLEAN /\ raw.BRS \in BOOLEAN /\ raw.ESI \in BOOLEAN
      /\ isFD \in BOOLEAN /\ FD \in BOOLEAN
      /\ raw.id \in Nat /\ raw.id < EffSize /\ raw.len \in Sizes
      /\ type \in FrameType /\ "DataFrame" \in FrameType
      /\ TRUE \in BOOLEAN /\ FALSE \in BOOLEAN
  BY FrameConstants, SMT DEF FrameConstants, RawFrame, TypeOnWire, FrameType
<1>1. FD = (isFD \/ raw.BRS)
  OBVIOUS
<1> HIDE DEF isFD, type, FD
<1>2. Has(opened, "DataFrame", FALSE, isFD, FALSE, FALSE, FALSE)
  <2>1. Has(New("DataFrame"), "DataFrame", FALSE, FALSE, FALSE, FALSE, FALSE)
    BY <1>0, NewHas
  <2>2. opened \in Frame
    BY <1>0, <2>1, SettersGiveFrames DEF Has
  <2> QED
    BY <1>0, <2>1, <2>2 DEF Has, Frame, setFD
<1> HIDE DEF opened
<1>3. Has(extended, "DataFrame", raw.EFF, isFD, FALSE, FALSE, FALSE)
  <2>1. extended \in Frame
    BY <1>0, <1>2, SettersGiveFrames DEF Has
  <2> QED
    BY <1>2, <2>1 DEF Has, Frame, setExtendedId
<1> HIDE DEF extended
<1>4. Has(typed, type, raw.EFF, isFD, FALSE, FALSE, FALSE)
  <2>1. typed \in Frame
    BY <1>0, <1>3, SettersGiveFrames DEF Has
  <2> QED
    BY <1>3, <2>1 DEF Has, Frame, setFrameType
<1> HIDE DEF typed
<1>5. Has(switched, type, raw.EFF, FD, raw.BRS, FALSE, FALSE)
  <2>1. setBitrateSwitch(typed, TRUE) \in Frame
    BY <1>0, <1>4, SettersGiveFrames DEF Has
  <2>2. CASE raw.BRS = TRUE
    <3>1. switched = setBitrateSwitch(typed, TRUE) /\ FD = TRUE
      BY <1>1, <2>2
    <3> QED
      BY <1>4, <2>1, <2>2, <3>1 DEF Has, Frame, setBitrateSwitch
  <2>3. CASE raw.BRS = FALSE
    <3>1. switched = typed /\ FD = isFD
      BY <1>0, <1>1, <2>3
    <3> QED
      BY <1>4, <2>3, <3>1 DEF Has
  <2> QED
    BY <1>0, <2>2, <2>3
<1> HIDE DEF switched
<1>6. Has(flagged, type, raw.EFF, FD, raw.BRS, raw.ESI, FALSE)
  <2>1. setErrorState(switched, TRUE) \in Frame
    BY <1>0, <1>5, SettersGiveFrames DEF Has
  <2>2. CASE raw.ESI = TRUE
    <3>1. flagged = setErrorState(switched, TRUE)
      BY <2>2
    <3> QED
      BY <1>5, <2>1, <2>2, <3>1 DEF Has, Frame, setErrorState
  <2>3. CASE raw.ESI = FALSE
    BY <1>5, <2>3 DEF Has
  <2> QED
    BY <1>0, <2>2, <2>3
<1> HIDE DEF flagged
<1>7. Has(echoed, type, raw.EFF, FD, raw.BRS, raw.ESI, confirmed)
  <2>1. setLocalEcho(flagged, TRUE) \in Frame
    BY <1>0, <1>6, SettersGiveFrames DEF Has
  <2>2. CASE confirmed = TRUE
    <3>1. echoed = setLocalEcho(flagged, TRUE)
      BY <2>2
    <3> QED
      BY <1>6, <2>1, <2>2, <3>1 DEF Has, Frame, setLocalEcho
  <2>3. CASE confirmed = FALSE
    BY <1>6, <2>3 DEF Has
  <2> QED
    BY <2>2, <2>3
<1> HIDE DEF echoed
<1>8. /\ named \in Frame
      /\ named.type = type /\ named.FD = FD /\ named.BRS = raw.BRS
      /\ named.errorState = raw.ESI /\ named.echo = confirmed
      /\ named.id = raw.id /\ named.validId = TRUE
      /\ named.extendedId = (raw.EFF \/ raw.id >= SffSize)
  <2>1. named \in Frame
    BY <1>0, <1>7, SettersGiveFrames DEF Has
  <2> QED
    BY <1>0, <1>7, <2>1 DEF Has, Frame, setId
<1> HIDE DEF named
<1>9. /\ r.type = type /\ r.id = raw.id /\ r.size = raw.len /\ r.validId = TRUE
      /\ r.extendedId = (raw.EFF \/ raw.id >= SffSize)
      /\ r.FD = (FD \/ raw.len > 8) /\ r.BRS = raw.BRS
      /\ r.errorState = raw.ESI /\ r.echo = confirmed
  BY <1>8 DEF setPayload, Frame
<1>10. Decode(raw, confirmed) = r
  BY Zenon DEF Decode, r, named, echoed, flagged, switched, typed, extended,
               opened, type, isFD
<1> HIDE DEF r
<1> QED
  BY <1>1, <1>9, <1>10 DEF type, isFD

(* The frame at the other end, field by field. *)
LEMMA WhatArrives ==
    ASSUME NEW f, Consistent(f), Sendable(f, TRUE), NEW confirmed \in BOOLEAN
    PROVE  LET r == Decode(Encode(f), confirmed)
           IN  /\ r.type = IF f.type = "UnknownFrame" THEN "DataFrame" ELSE f.type
               /\ r.id = f.id
               /\ r.size = f.size
               /\ r.validId
               /\ r.extendedId \/ r.id < SffSize
               /\ f.type # "ErrorFrame" => r.extendedId = f.extendedId
               /\ r.FD = f.FD
               /\ r.BRS = f.BRS
               /\ r.errorState = (f.FD /\ f.errorState)
               /\ r.echo = confirmed
<1> DEFINE raw == Encode(f)
           r == Decode(raw, confirmed)
<1>1. /\ r.type = TypeOnWire(raw) /\ r.id = raw.id /\ r.size = raw.len
      /\ r.validId = TRUE
      /\ r.extendedId = (raw.EFF \/ raw.id >= SffSize)
      /\ r.FD = (raw.mtu = FDBytes \/ raw.BRS \/ raw.len > 8)
      /\ r.BRS = raw.BRS /\ r.errorState = raw.ESI /\ r.echo = confirmed
  BY EncodeGivesRaw, DecodedFields, Zenon DEF Consistent
<1> HIDE DEF r
<1>2. /\ f.type \in FrameType \ {"InvalidFrame"}
      /\ f.extendedId \in BOOLEAN /\ f.errorState \in BOOLEAN
      /\ f.FD \in BOOLEAN /\ f.BRS \in BOOLEAN /\ (f.BRS => f.FD)
      /\ f.extendedId \/ f.id < SffSize
      /\ f.size <= 8 \/ f.FD
      /\ f.id \in Nat /\ f.size \in Nat /\ SffSize \in Nat
  <2>1. f \in Frame /\ (f.BRS => f.FD) /\ isValid(f)
    BY DEF Consistent, Sendable
  <2>2. f.id \in Nat /\ f.size \in Nat /\ SffSize \in Nat
    <3>1. f.id \in 0 .. EffSize - 1 /\ f.size \in Sizes
      BY <2>1 DEF Frame
    <3>2. /\ EffSize \in Nat /\ SffSize \in Nat
          /\ f.size \in Nat
      BY <3>1, FrameConstants, Zenon DEF FrameConstants
    <3> DEFINE id == f.id
    <3>3. id \in 0 .. EffSize - 1
      BY <3>1
    <3> HIDE DEF id
    <3>4. id \in Nat
      BY <3>2, <3>3
    <3> QED
      BY <3>2, <3>4 DEF id
  <2> QED
    BY <2>1, <2>2 DEF Frame, isValid
<1>3. /\ raw.mtu = (IF f.FD THEN 64 ELSE 8)
      /\ raw.id = f.id
      /\ raw.EFF = (f.extendedId /\ f.type # "ErrorFrame")
      /\ raw.RTR = (f.type = "RemoteRequestFrame")
      /\ raw.ERR = (f.type = "ErrorFrame")
      /\ raw.len = f.size
      /\ raw.BRS = (f.FD /\ f.BRS)
      /\ raw.ESI = (f.FD /\ f.errorState)
  BY DEF Encode, idOf, errorOf, FDBytes, ClassicBytes
<1> HIDE DEF raw
<1>4. r.type = IF f.type = "UnknownFrame" THEN "DataFrame" ELSE f.type
  BY <1>1, <1>2, <1>3 DEF TypeOnWire, FrameType
<1>5. r.id = f.id /\ r.size = f.size /\ r.validId /\ r.echo = confirmed
  BY <1>1, <1>3
<1>6. /\ r.extendedId \/ r.id < SffSize
      /\ f.type # "ErrorFrame" => r.extendedId = f.extendedId
  BY <1>1, <1>2, <1>3
<1>7. r.FD = f.FD
  BY <1>1, <1>2, <1>3 DEF FDBytes
<1>8. r.BRS = f.BRS /\ r.errorState = (f.FD /\ f.errorState)
  BY <1>1, <1>2, <1>3
<1> QED
  BY <1>4, <1>5, <1>6, <1>7, <1>8 DEF r, raw

(* What a socket receives is what was sent, for every frame send() takes. *)
THEOREM SocketsKeepFrames == Spec => []RoundTrip
<1>1. TypeOK /\ SwitchNeedsFD => RoundTrip
  <2> SUFFICES ASSUME TypeOK, SwitchNeedsFD, Sendable(frame, TRUE),
                      NEW confirmed \in BOOLEAN
      PROVE  LET received == Decode(Encode(frame), confirmed)
             IN  /\ received.type = IF frame.type = "UnknownFrame"
                                    THEN "DataFrame" ELSE frame.type
                 /\ idOf(received) = idOf(frame)
                 /\ errorOf(received) = errorOf(frame)
                 /\ frame.type # "ErrorFrame"
                      => received.extendedId = frame.extendedId
                 /\ received.size = frame.size
                 /\ received.FD = frame.FD
                 /\ received.BRS = frame.BRS
                 /\ received.errorState = (frame.FD /\ frame.errorState)
                 /\ received.echo = confirmed
    BY Zenon DEF RoundTrip
  <2> DEFINE received == Decode(Encode(frame), confirmed)
  <2>1. Consistent(frame)
    BY DEF TypeOK, SwitchNeedsFD, Consistent, Frame
  <2>2. /\ received.type = IF frame.type = "UnknownFrame"
                           THEN "DataFrame" ELSE frame.type
        /\ received.id = frame.id
        /\ frame.type # "ErrorFrame" => received.extendedId = frame.extendedId
        /\ received.size = frame.size
        /\ received.FD = frame.FD
        /\ received.BRS = frame.BRS
        /\ received.errorState = (frame.FD /\ frame.errorState)
        /\ received.echo = confirmed
    BY <2>1, WhatArrives, Zenon
  <2> HIDE DEF received
  <2>3. idOf(received) = idOf(frame) /\ errorOf(received) = errorOf(frame)
    BY <2>2 DEF idOf, errorOf
  <2> QED
    BY <2>2, <2>3, Zenon DEF received
<1> QED
  BY <1>1, SwitchMakesFD, PTL

(* What was received can be sent on. *)
THEOREM SocketsKeepFramesSendable == Spec => []ReceivedIsSendable
<1>1. TypeOK /\ SwitchNeedsFD => ReceivedIsSendable
  <2> SUFFICES ASSUME TypeOK, SwitchNeedsFD, Sendable(frame, TRUE),
                      NEW fdEnabled \in BOOLEAN, NEW confirmed \in BOOLEAN,
                      Sendable(frame, fdEnabled)
               PROVE  Sendable(Decode(Encode(frame), confirmed), fdEnabled)
    BY Zenon DEF ReceivedIsSendable
  <2> DEFINE received == Decode(Encode(frame), confirmed)
  <2>1. Consistent(frame)
    BY DEF TypeOK, SwitchNeedsFD, Consistent, Frame
  <2>2. /\ received.type = IF frame.type = "UnknownFrame"
                           THEN "DataFrame" ELSE frame.type
        /\ received.size = frame.size
        /\ received.validId
        /\ received.extendedId \/ received.id < SffSize
        /\ received.FD = frame.FD
    BY <2>1, WhatArrives, Zenon
  <2> HIDE DEF received
  <2>3. Sendable(received, fdEnabled)
    BY <2>2 DEF Sendable, isValid
  <2> QED
    BY <2>3 DEF received
<1> QED
  BY <1>1, SwitchMakesFD, PTL

=============================================================================
