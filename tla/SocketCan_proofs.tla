-------------------------- MODULE SocketCan_proofs --------------------------
(***************************************************************************)
(* SocketCan, for every value of its constants: its invariants, and that   *)
(* it implements ReceivePipe, however deep slots nest their calls.         *)
(***************************************************************************)
EXTENDS SocketCan, SequenceTheorems, TLAPS

-----------------------------------------------------------------------------
(* The socket. *)

(* Steps that do not touch the socket, its owner or the connection state. *)
LEMMA ConnectionUntouched ==
    ASSUME [Next]_vars,
           ~ OpenUnbound, ~ OpenBound, ~ Close, ~ Connect, ~ Disconnect,
           ~ ConnectFails
    PROVE  UNCHANGED <<state, socket, openFds, bound>>
  BY DEF Next, OwnSteps, Calls, vars, object, kernel, dispatcher, history,
         SlotReturns, OpenRefused, OpenWithoutSocket, OpenDone,
         ConnectReturnsFalse, Collect, DropEvent, CallReadSocket, ReadFrame,
         Enqueue, Unlock, Recv, RecvAll, FlushRx, SetConfigFD, SetConfigOther,
         SendFails, Scan, Arrive

(* The sockets the interface has open are the one in _socket. *)
THEOREM NoSocketLeaks == Spec => []OwnsItsSocket
<1>1. Init => OwnsItsSocket
  BY DEF Init, OwnsItsSocket
<1>2. OwnsItsSocket /\ [Next]_vars => OwnsItsSocket'
  <2> SUFFICES ASSUME OwnsItsSocket, [Next]_vars PROVE OwnsItsSocket'
    OBVIOUS
  <2>1. CASE OpenUnbound \/ OpenBound
    <3>1. socket = -1
      BY <2>1 DEF OpenUnbound, OpenBound
    <3>2. PICK fd \in Fds : socket' = fd /\ openFds' = openFds \union {fd}
      BY <2>1 DEF OpenUnbound, OpenBound, NewSocket, FreeFds
    <3>3. fd # -1
      BY SocketCanConstants
    <3> QED
      BY <3>1, <3>2, <3>3 DEF OwnsItsSocket
  <2>2. CASE Close
    BY <2>2 DEF Close, OwnsItsSocket
  <2>3. CASE UNCHANGED <<socket, openFds>>
    BY <2>3 DEF OwnsItsSocket
  <2>4. Connect \/ Disconnect \/ ConnectFails => UNCHANGED <<socket, openFds>>
    BY DEF Connect, Disconnect, ConnectFails, kernel
  <2> QED
    BY <2>1, <2>2, <2>3, <2>4, ConnectionUntouched
<1> QED
  BY <1>1, <1>2, PTL DEF Spec

(* ConnectedState always comes with a bound socket. *)
THEOREM ConnectedStateHasSocket == Spec => []ConnectedHasSocket
<1>1. Init => ConnectedHasSocket
  BY DEF Init, ConnectedHasSocket
<1>2. ConnectedHasSocket /\ [Next]_vars => ConnectedHasSocket'
  <2> SUFFICES ASSUME ConnectedHasSocket, [Next]_vars
               PROVE  ConnectedHasSocket'
    OBVIOUS
  <2> USE DEF ConnectedHasSocket
  <2>1. CASE OpenUnbound
    BY <2>1 DEF OpenUnbound
  <2>2. CASE OpenBound
    BY <2>2, SocketCanConstants DEF OpenBound, NewSocket, FreeFds
  <2>3. CASE Close
    BY <2>3 DEF Close, setState
  <2>4. CASE Connect
    BY <2>4 DEF Connect, setState, kernel
  <2>5. CASE Disconnect \/ ConnectFails
    BY <2>5 DEF Disconnect, ConnectFails, setState
  <2>6. CASE UNCHANGED <<state, socket, openFds, bound>>
    BY <2>6
  <2> QED
    BY <2>1, <2>2, <2>3, <2>4, <2>5, <2>6, ConnectionUntouched
<1> QED
  BY <1>1, <1>2, PTL DEF Spec

-----------------------------------------------------------------------------
(* The call stack. *)

StackOK == stack \in Seq(Label)

(* A label pushed on a stack. *)
LEMMA Pushed ==
    ASSUME NEW s \in Seq(Label), NEW l \in Label
    PROVE  /\ <<l>> \o s \in Seq(Label)
           /\ Range(<<l>> \o s) = {l} \union Range(s)
<1> DEFINE top == <<l>>
<1>1. top \in Seq(Label) /\ Range(top) = {l}
  BY DEF Range
<1> HIDE DEF top
<1>2. top \o s \in Seq(Label)
  BY <1>1, ConcatProperties
<1>3. Range(top \o s) = Range(top) \union Range(s)
  BY <1>1, RangeConcatenation
<1> QED
  BY <1>1, <1>2, <1>3 DEF top

(* A stack without its top, or any other sequence. *)
LEMMA Popped ==
    ASSUME NEW S, NEW s \in Seq(S), s # <<>>
    PROVE  /\ Tail(s) \in Seq(S)
           /\ Head(s) \in S
           /\ Range(s) = {Head(s)} \union Range(Tail(s))
<1>1. /\ Len(s) \in Nat \ {0}
      /\ DOMAIN s = 1 .. Len(s)
      /\ Head(s) = s[1]
  BY EmptySeq, LenProperties
<1>2. /\ Tail(s) \in Seq(S)
      /\ Len(Tail(s)) = Len(s) - 1
      /\ \A i \in 1 .. Len(s) - 1 : Tail(s)[i] = s[i + 1]
  BY HeadTailProperties
<1>3. DOMAIN Tail(s) = 1 .. Len(s) - 1
  BY <1>2, LenProperties
<1>4. ASSUME NEW i \in 1 .. Len(s)
      PROVE  s[i] \in {Head(s)} \union Range(Tail(s))
  <2>1. CASE i = 1
    BY <1>1, <2>1
  <2>2. CASE i # 1
    <3>1. i - 1 \in 1 .. Len(s) - 1 /\ (i - 1) + 1 = i
      BY <1>1, <2>2
    <3>2. Tail(s)[i - 1] = s[i]
      BY <1>2, <3>1
    <3> QED
      BY <1>3, <3>1, <3>2 DEF Range
  <2> QED
    BY <2>1, <2>2
<1>5. \A i \in 1 .. Len(s) - 1 : i + 1 \in 1 .. Len(s)
  BY <1>1
<1>6. {Head(s)} \union Range(Tail(s)) \subseteq Range(s)
  BY <1>1, <1>2, <1>3, <1>5 DEF Range
<1>7. Range(s) \subseteq {Head(s)} \union Range(Tail(s))
  BY <1>1, <1>4 DEF Range
<1> QED
  BY <1>2, <1>6, <1>7, HeadTailProperties

(* A signal, or a change of state that may emit one, over what is left to do. *)
LEMMA Emitted ==
    ASSUME NEW rest \in Seq(Label), Emit(rest) \/ stack' = rest
    PROVE  /\ StackOK'
           /\ Range(rest) \subseteq Range(stack')
  BY Pushed DEF Emit, StackOK, Label

(* setState() and setError() come down to that. *)
LEMMA SetStateEmits ==
    ASSUME NEW new, NEW rest, setState(new, rest)
    PROVE  Emit(rest) \/ stack' = rest
  BY DEF setState

LEMMA SetErrorEmits ==
    ASSUME NEW error, NEW rest, setError(error, rest)
    PROVE  Emit(rest)
  BY DEF setError

(* What the labels an operation puts back on the stack leave there. *)
LEMMA Replaced ==
    ASSUME StackOK, stack # <<>>, NEW l \in Label,
           NEW rest, rest = <<l>> \o Tail(stack),
           Emit(rest) \/ stack' = rest
    PROVE  /\ StackOK'
           /\ l \in Range(stack')
           /\ Range(stack) \ {Head(stack)} \subseteq Range(stack')
<1>1. /\ Tail(stack) \in Seq(Label)
      /\ Range(stack) = {Head(stack)} \union Range(Tail(stack))
  BY Popped DEF StackOK
<1>2. /\ rest \in Seq(Label)
      /\ Range(rest) = {l} \union Range(Tail(stack))
  BY <1>1, Pushed
<1> QED
  BY <1>1, <1>2, Emitted

LEMMA Dropped ==
    ASSUME StackOK, stack # <<>>,
           Emit(Tail(stack)) \/ stack' = Tail(stack)
    PROVE  /\ StackOK'
           /\ Range(stack) \ {Head(stack)} \subseteq Range(stack')
<1>1. /\ Tail(stack) \in Seq(Label)
      /\ Range(stack) = {Head(stack)} \union Range(Tail(stack))
  BY Popped DEF StackOK
<1> QED
  BY <1>1, Emitted

LEMMA Added ==
    ASSUME StackOK, NEW l \in Label, NEW rest, rest = <<l>> \o stack,
           Emit(rest) \/ stack' = rest
    PROVE  /\ StackOK'
           /\ l \in Range(stack')
           /\ Range(stack) \subseteq Range(stack')
<1>1. rest \in Seq(Label) /\ Range(rest) = {l} \union Range(stack)
  BY Pushed DEF StackOK
<1> QED
  BY <1>1, Emitted

LEMMA Kept ==
    ASSUME StackOK, Emit(stack) \/ stack' = stack
    PROVE  StackOK' /\ Range(stack) \subseteq Range(stack')
  BY Emitted DEF StackOK

-----------------------------------------------------------------------------
(* The pending states. *)

(* A pending state belongs to a call that is still on the stack and will
   leave it. *)
PendingHasCaller ==
    /\ state = "ConnectionPending" =>
           "connect.open" \in Range(stack) \/ "connect.fail" \in Range(stack)
    /\ state = "DisconnectPending" => "disconnect.close" \in Range(stack)

Settling == StackOK /\ PendingHasCaller

(* Steps that leave the state alone and none of those labels out. *)
LEMMA OtherSteps ==
    ASSUME Settling, StackOK', state' = state,
           NEW l, l \notin {"connect.open", "connect.fail", "disconnect.close"},
           Range(stack) \ {l} \subseteq Range(stack')
    PROVE  Settling'
  BY DEF Settling, PendingHasCaller

LEMMA SettlingOwnSteps ==
    ASSUME Settling, OwnSteps
    PROVE  Settling'
<1> USE DEF Running, Label
<1>0. StackOK
  BY DEF Settling
<1>1. CASE SlotReturns \/ OpenDone \/ ConnectReturnsFalse \/ Unlock
  <2>1. /\ stack # <<>>
        /\ stack' = Tail(stack)
        /\ state' = state
        /\ Head(stack) \in {"slot", "open.register", "connect.false", "enqueue.unlock"}
    BY <1>1 DEF SlotReturns, OpenDone, ConnectReturnsFalse, Unlock, object
  <2> QED
    BY <1>0, <2>1, Dropped, OtherSteps
<1>2. CASE OpenRefused \/ OpenWithoutSocket \/ OpenUnbound
  <2> DEFINE rest == <<"connect.fail">> \o Tail(stack)
  <2>1. /\ stack # <<>>
        /\ Head(stack) = "connect.open"
        /\ Emit(rest) \/ stack' = rest
        /\ state' = state
    BY <1>2, SetErrorEmits
       DEF OpenRefused, OpenWithoutSocket, OpenUnbound, object
  <2> HIDE DEF rest
  <2>2. /\ StackOK'
        /\ "connect.fail" \in Range(stack')
        /\ Range(stack) \ {"connect.open"} \subseteq Range(stack')
    BY <1>0, <2>1, Replaced DEF rest
  <2> QED
    BY <2>1, <2>2 DEF Settling, PendingHasCaller
<1>3. CASE OpenBound
  <2> DEFINE rest == <<"open.register">> \o Tail(stack)
  <2>1. stack # <<>> /\ setState("Connected", rest)
    BY <1>3 DEF OpenBound
  <2>2. state' = "Connected"
    BY <2>1 DEF setState
  <2> HIDE DEF rest
  <2>3. StackOK'
    BY <1>0, <2>1, SetStateEmits, Replaced DEF rest
  <2> QED
    BY <2>2, <2>3 DEF Settling, PendingHasCaller
<1>4. CASE ConnectFails
  <2> DEFINE rest == <<"connect.false">> \o Tail(stack)
  <2>1. stack # <<>> /\ setState("Disconnected", rest)
    BY <1>4 DEF ConnectFails
  <2>2. state' = "Disconnected"
    BY <2>1 DEF setState
  <2> HIDE DEF rest
  <2>3. StackOK'
    BY <1>0, <2>1, SetStateEmits, Replaced DEF rest
  <2> QED
    BY <2>2, <2>3 DEF Settling, PendingHasCaller
<1>5. CASE Close
  <2>1. stack # <<>> /\ setState("Disconnected", Tail(stack))
    BY <1>5 DEF Close
  <2>2. state' = "Disconnected"
    BY <2>1 DEF setState
  <2>3. StackOK'
    BY <1>0, <2>1, SetStateEmits, Dropped
  <2> QED
    BY <2>2, <2>3 DEF Settling, PendingHasCaller
<1>6. CASE Collect \/ DropEvent
  BY <1>6 DEF Collect, DropEvent, object, Settling, StackOK, PendingHasCaller
<1>7. CASE CallReadSocket
  <2>1. StackOK' /\ Range(stack) = {} /\ state' = state
    BY <1>7 DEF CallReadSocket, object, StackOK, Range
  <2> QED
    BY <2>1 DEF Settling, PendingHasCaller
<1>8. CASE ReadFrame
  <2>1. (Emit(stack) \/ stack' = stack) /\ state' = state
    BY <1>8, SetErrorEmits DEF ReadFrame
  <2> QED
    BY <1>0, <2>1, Kept DEF Settling, PendingHasCaller
<1>9. CASE Enqueue
  <2> DEFINE rest == <<"enqueue.unlock">> \o Tail(stack)
  <2>1. /\ stack # <<>>
        /\ Head(stack) = "read"
        /\ Emit(rest)
        /\ state' = state
    BY <1>9 DEF Enqueue
  <2> HIDE DEF rest
  <2> QED
    BY <1>0, <2>1, Replaced, OtherSteps DEF rest
<1> QED
  BY <1>1, <1>2, <1>3, <1>4, <1>5, <1>6, <1>7, <1>8, <1>9 DEF OwnSteps

LEMMA SettlingCalls ==
    ASSUME Settling, Calls
    PROVE  Settling'
<1> USE DEF Label
<1>0. StackOK
  BY DEF Settling
<1>1. CASE Connect
  <2>1. CASE /\ state # "Disconnected"
             /\ setError("ConnectionError", <<"connect.false">> \o stack)
             /\ UNCHANGED state
    BY <1>0, <2>1, SetErrorEmits, Added DEF Settling, PendingHasCaller
  <2>2. CASE setState("ConnectionPending", <<"connect.open">> \o stack)
    <3>1. state' = "ConnectionPending"
      BY <2>2 DEF setState
    <3>2. StackOK' /\ "connect.open" \in Range(stack')
      BY <1>0, <2>2, SetStateEmits, Added
    <3> QED
      BY <3>1, <3>2 DEF Settling, PendingHasCaller
  <2> QED
    BY <1>1, <2>1, <2>2 DEF Connect
<1>2. CASE Disconnect
  <2>1. setState("DisconnectPending", <<"disconnect.close">> \o stack)
    BY <1>2 DEF Disconnect
  <2>2. state' = "DisconnectPending"
    BY <2>1 DEF setState
  <2>3. StackOK' /\ "disconnect.close" \in Range(stack')
    BY <1>0, <2>1, SetStateEmits, Added
  <2> QED
    BY <2>2, <2>3 DEF Settling, PendingHasCaller
<1>3. CASE \/ Recv \/ RecvAll \/ FlushRx \/ SetConfigOther \/ SendFails \/ Scan
           \/ \E value \in BOOLEAN : SetConfigFD(value)
  <2>1. /\ \/ Emit(stack)
           \/ stack' = stack
           \/ stack' = <<"relock">> \o stack
        /\ state' = state
    BY <1>3, SetErrorEmits
       DEF Recv, RecvAll, FlushRx, SetConfigOther, SendFails, SetConfigFD,
           Scan, object, LockAgain
  <2>2. StackOK' /\ Range(stack) \subseteq Range(stack')
    BY <1>0, <2>1, Kept, Added
  <2> QED
    BY <2>1, <2>2 DEF Settling, PendingHasCaller
<1> QED
  BY <1>1, <1>2, <1>3 DEF Calls

LEMMA SettlingInvariance == Spec => []Settling
<1>1. Init => Settling
  BY DEF Init, Settling, StackOK, PendingHasCaller
<1>2. Settling /\ [Next]_vars => Settling'
  <2>1. ASSUME Settling, Arrive \/ UNCHANGED vars
        PROVE  Settling'
    BY <2>1 DEF Arrive, vars, object, Settling, StackOK, PendingHasCaller
  <2> QED
    BY <2>1, SettlingOwnSteps, SettlingCalls DEF Next
<1> QED
  BY <1>1, <1>2, PTL DEF Spec

LEMMA StateStep ==
    ASSUME state \in CanConnectionState, [Next]_vars
    PROVE  state' \in CanConnectionState
<1>1. CASE OpenBound \/ Close \/ Connect \/ Disconnect \/ ConnectFails
  BY <1>1 DEF OpenBound, Close, Connect, Disconnect, ConnectFails, setState,
              CanConnectionState
<1>2. CASE OpenUnbound
  BY <1>2 DEF OpenUnbound
<1> QED
  BY <1>1, <1>2, ConnectionUntouched

(* However slots nest connect() and disconnect(), the interface is connected
   or disconnected whenever no call is under way. *)
THEOREM IdleStateIsSettled == Spec => []IdleIsSettled
<1>1. Init => state \in CanConnectionState
  BY DEF Init, CanConnectionState
<1>2. Settling /\ state \in CanConnectionState => IdleIsSettled
  <2>1. stack = <<>> => Range(stack) = {}
    BY DEF Range
  <2> QED
    BY <2>1 DEF Settling, PendingHasCaller, IdleIsSettled, CanConnectionState
<1>3. state \in CanConnectionState /\ [Next]_vars => (state \in CanConnectionState)'
  BY StateStep
<1> QED
  BY <1>1, <1>2, <1>3, SettlingInvariance, PTL DEF Spec

-----------------------------------------------------------------------------
(* Types. *)

ErrorOK == lastError \in CanBusError

LEMMA ErrorStep ==
    ASSUME ErrorOK, [Next]_vars
    PROVE  ErrorOK'
<1> USE DEF ErrorOK, CanBusError, setError
<1>1. CASE OwnSteps
  BY <1>1 DEF OwnSteps, object, SlotReturns, OpenRefused, OpenWithoutSocket,
              OpenUnbound, OpenBound, OpenDone, ConnectFails,
              ConnectReturnsFalse, Close, Collect, DropEvent, CallReadSocket,
              ReadFrame, Enqueue, Unlock
<1>2. CASE Calls
  BY <1>2 DEF Calls, object, Connect, Disconnect, Recv, RecvAll, FlushRx,
              SetConfigFD, SetConfigOther, SendFails, Scan
<1>3. CASE Arrive \/ UNCHANGED vars
  BY <1>3 DEF Arrive, vars, object
<1> QED
  BY <1>1, <1>2, <1>3 DEF Next

FlagsOK ==
    /\ fdEnabled \in BOOLEAN /\ bound \in BOOLEAN
    /\ kernelFd \in BOOLEAN /\ collected \in BOOLEAN

LEMMA FlagsStep ==
    ASSUME FlagsOK, [Next]_vars
    PROVE  FlagsOK'
<1> USE DEF FlagsOK
<1>1. CASE OpenUnbound \/ OpenBound \/ Close
  BY <1>1, Zenon DEF OpenUnbound, OpenBound, NewSocket, Close, dispatcher
<1>2. CASE SlotReturns \/ OpenRefused \/ OpenWithoutSocket \/ OpenDone
  BY <1>2, Zenon DEF SlotReturns, OpenRefused, OpenWithoutSocket, OpenDone,
                     object, kernel, dispatcher
<1>3. CASE \/ ConnectFails \/ ConnectReturnsFalse
           \/ Collect \/ DropEvent \/ CallReadSocket
  BY <1>3, Zenon DEF ConnectFails, ConnectReturnsFalse, Collect, DropEvent,
                     CallReadSocket, object, kernel, dispatcher
<1>4. CASE ReadFrame \/ Enqueue \/ Unlock \/ Arrive \/ UNCHANGED vars
  BY <1>4, Zenon DEF ReadFrame, Enqueue, Unlock, Arrive, vars, object, kernel,
                     dispatcher
<1>5. CASE Connect \/ Disconnect \/ Recv \/ RecvAll
  BY <1>5, Zenon DEF Connect, Disconnect, Recv, RecvAll, object, kernel,
                     dispatcher
<1>6. CASE FlushRx \/ SetConfigOther \/ SendFails \/ Scan
  BY <1>6, Zenon DEF FlushRx, SetConfigOther, SendFails, Scan, object, kernel,
                     dispatcher
<1>7. ASSUME NEW value \in BOOLEAN, SetConfigFD(value)
      PROVE  FlagsOK'
  BY <1>7, Zenon DEF SetConfigFD, object, kernel, dispatcher
<1> QED
  BY <1>1, <1>2, <1>3, <1>4, <1>5, <1>6, <1>7 DEF Next, OwnSteps, Calls

DescriptorsOK ==
    /\ socket \in Fds \union {-1}
    /\ openFds \subseteq Fds /\ lost \subseteq Fds
    /\ files \subseteq Fds /\ epoll \subseteq files

LEMMA DescriptorsStep ==
    ASSUME DescriptorsOK, [Next]_vars
    PROVE  DescriptorsOK'
<1> USE DEF DescriptorsOK
<1>1. CASE OpenUnbound \/ OpenBound
  BY <1>1 DEF OpenUnbound, OpenBound, NewSocket, FreeFds, dispatcher
<1>2. CASE OpenDone
  BY <1>2 DEF OpenDone, AddFile, kernel
<1>3. CASE Close
  BY <1>3 DEF Close
<1>4. CASE Scan
  BY <1>4 DEF Scan, FreeFds, object, dispatcher
<1>5. CASE UNCHANGED <<socket, openFds, lost, files, epoll>>
  BY <1>5
<1>6. CASE /\ OwnSteps
           /\ ~ OpenUnbound /\ ~ OpenBound /\ ~ OpenDone /\ ~ Close
  <2>1. UNCHANGED <<socket, openFds, lost, files, epoll>>
    BY <1>6
       DEF OwnSteps, object, kernel, dispatcher, SlotReturns, OpenRefused,
           OpenWithoutSocket, ConnectFails, ConnectReturnsFalse, Collect,
           DropEvent, CallReadSocket, ReadFrame, Enqueue, Unlock
  <2> QED
    BY <1>5, <2>1
<1>7. CASE Calls /\ ~ Scan
  <2>1. UNCHANGED <<socket, openFds, lost, files, epoll>>
    BY <1>7
       DEF Calls, object, kernel, dispatcher, Connect, Disconnect, Recv,
           RecvAll, FlushRx, SetConfigFD, SetConfigOther, SendFails
  <2> QED
    BY <1>5, <2>1
<1>8. CASE Arrive \/ UNCHANGED vars
  <2>1. UNCHANGED <<socket, openFds, lost, files, epoll>>
    BY <1>8 DEF Arrive, vars, object, kernel, dispatcher
  <2> QED
    BY <1>5, <2>1
<1> QED
  BY <1>1, <1>2, <1>3, <1>4, <1>6, <1>7, <1>8 DEF Next

FramesOK ==
    /\ rx \in Seq(Frame) /\ wire \in Seq(Frame)
    /\ batch \in Seq(Frame) /\ delivered \in Seq(Frame)
    /\ arrived \in 0 .. MaxFrames

(* How the queues change in a step, one move at a time. *)
FramesMove ==
    \/ UNCHANGED <<rx, wire, batch, delivered, arrived>>
    \/ wire' = <<>> /\ UNCHANGED <<rx, batch, delivered, arrived>>
    \/ batch' = <<>> /\ UNCHANGED <<rx, wire, delivered, arrived>>
    \/ rx' = <<>> /\ UNCHANGED <<wire, batch, delivered, arrived>>
    \/ /\ arrived < MaxFrames
       /\ arrived' = arrived + 1
       /\ wire' = Append(wire, arrived + 1)
       /\ UNCHANGED <<rx, batch, delivered>>
    \/ /\ wire # <<>>
       /\ wire' = Tail(wire)
       /\ batch' = batch \/ batch' = Append(batch, Head(wire))
       /\ UNCHANGED <<rx, delivered, arrived>>
    \/ rx' = rx \o batch /\ batch' = <<>> /\ UNCHANGED <<wire, delivered, arrived>>
    \/ delivered' = delivered \o rx /\ rx' = <<>> /\ UNCHANGED <<wire, batch, arrived>>

LEMMA EveryStepMoves ==
    ASSUME [Next]_vars
    PROVE  FramesMove
<1> USE DEF FramesMove
<1>1. CASE OpenUnbound \/ OpenBound \/ Close
  BY <1>1 DEF OpenUnbound, OpenBound, NewSocket, Close, history
<1>2. CASE CallReadSocket
  BY <1>2 DEF CallReadSocket, object, kernel, history
<1>3. CASE ReadFrame
  BY <1>3 DEF ReadFrame, history
<1>4. CASE Enqueue
  BY <1>4 DEF Enqueue, kernel, history
<1>5. CASE Arrive
  BY <1>5 DEF Arrive, object
<1>6. CASE RecvAll \/ FlushRx
  BY <1>6 DEF RecvAll, FlushRx, kernel, history
<1>7. CASE \/ SlotReturns \/ OpenRefused \/ OpenWithoutSocket \/ OpenDone
           \/ ConnectFails \/ ConnectReturnsFalse \/ Collect \/ DropEvent
           \/ Unlock \/ UNCHANGED vars
  BY <1>7
     DEF SlotReturns, OpenRefused, OpenWithoutSocket, OpenDone, ConnectFails,
         ConnectReturnsFalse, Collect, DropEvent, Unlock, vars, object, kernel,
         history
<1>8. CASE \/ Connect \/ Disconnect \/ Recv \/ SetConfigOther \/ SendFails \/ Scan
           \/ \E value \in BOOLEAN : SetConfigFD(value)
  BY <1>8
     DEF Connect, Disconnect, Recv, SetConfigOther, SendFails, Scan,
         SetConfigFD, object, kernel, history
<1> QED
  BY <1>1, <1>2, <1>3, <1>4, <1>5, <1>6, <1>7, <1>8 DEF Next, OwnSteps, Calls

LEMMA FramesStep ==
    ASSUME FramesOK, [Next]_vars
    PROVE  FramesOK'
<1>1. FramesMove
  BY EveryStepMoves
<1>2. <<>> \in Seq(Frame)
  BY EmptySeq
<1>3. wire # <<>> => Head(wire) \in Frame /\ Tail(wire) \in Seq(Frame)
  BY HeadTailProperties DEF FramesOK
<1>4. wire # <<>> => Append(batch, Head(wire)) \in Seq(Frame)
  BY <1>3, AppendProperties DEF FramesOK
<1>5. rx \o batch \in Seq(Frame) /\ delivered \o rx \in Seq(Frame)
  BY ConcatProperties DEF FramesOK
<1>6. arrived < MaxFrames =>
          arrived + 1 \in 0 .. MaxFrames /\ Append(wire, arrived + 1) \in Seq(Frame)
  <2> SUFFICES ASSUME arrived < MaxFrames
      PROVE  arrived + 1 \in 0 .. MaxFrames /\ Append(wire, arrived + 1) \in Seq(Frame)
    OBVIOUS
  <2>1. arrived + 1 \in Frame /\ arrived + 1 \in 0 .. MaxFrames
    BY SocketCanConstants DEF FramesOK, Frame
  <2> QED
    BY <2>1, AppendProperties DEF FramesOK
<1> QED
  BY <1>1, <1>2, <1>3, <1>4, <1>5, <1>6 DEF FramesOK, FramesMove

ShownOK == shown \in Frame \union {InvalidFrame}

(* Only recv() changes what it showed. *)
LEMMA ShownStep ==
    ASSUME FramesOK, ShownOK, [Next]_vars
    PROVE  ShownOK'
<1> USE DEF ShownOK
<1>1. CASE Recv
  <2>1. rx # <<>> => Head(rx) \in Frame
    BY HeadTailProperties DEF FramesOK
  <2> QED
    BY <1>1, <2>1 DEF Recv
<1>2. CASE OwnSteps
  BY <1>2
     DEF OwnSteps, history, SlotReturns, OpenRefused, OpenWithoutSocket,
         OpenUnbound, OpenBound, OpenDone, ConnectFails, ConnectReturnsFalse,
         Close, Collect, DropEvent, CallReadSocket, ReadFrame, Enqueue, Unlock
<1>3. CASE (Calls /\ ~ Recv) \/ Arrive \/ UNCHANGED vars
  BY <1>3
     DEF Calls, vars, history, Connect, Disconnect, RecvAll, FlushRx,
         SetConfigFD, SetConfigOther, SendFails, Scan, Arrive
<1> QED
  BY <1>1, <1>2, <1>3 DEF Next

(* The variables stay in their domains, however deep the calls nest. *)
THEOREM InterfaceTypeCorrect == Spec => []TypeOK
<1> DEFINE Typed == /\ state \in CanConnectionState
                    /\ ErrorOK /\ FlagsOK /\ DescriptorsOK
                    /\ FramesOK /\ ShownOK
<1>1. Init => Typed
  <2>1. Init => state \in CanConnectionState /\ ErrorOK /\ DescriptorsOK
    BY DEF Init, CanConnectionState, ErrorOK, CanBusError, DescriptorsOK
  <2>2. Init => FlagsOK
    BY Zenon DEF Init, FlagsOK
  <2>3. Init => FramesOK /\ ShownOK
    BY SocketCanConstants, EmptySeq DEF Init, FramesOK, ShownOK
  <2> QED
    BY <2>1, <2>2, <2>3
<1>2. Typed /\ [Next]_vars => Typed'
  BY StateStep, ErrorStep, FlagsStep, DescriptorsStep, FramesStep, ShownStep
<1>3. Typed /\ StackOK => TypeOK
  BY DEF ErrorOK, FlagsOK, DescriptorsOK, FramesOK, ShownOK, StackOK, TypeOK
<1>4. Spec => []StackOK
  BY SettlingInvariance, PTL DEF Settling
<1> QED
  BY <1>1, <1>2, <1>3, <1>4, PTL DEF Spec

-----------------------------------------------------------------------------
(* The order of frames. *)

Increasing(s) == \A i, j \in 1 .. Len(s) : i < j => s[i] < s[j]
Before(S, T) == \A m \in S, n \in T : m < n

(* Two queues one after the other. *)
LEMMA JoinIncreasing ==
    ASSUME NEW s \in Seq(Frame), NEW t \in Seq(Frame),
           Increasing(s), Increasing(t), Before(Range(s), Range(t))
    PROVE  Increasing(s \o t)
<1>1. /\ Len(s) \in Nat /\ DOMAIN s = 1 .. Len(s)
      /\ Len(t) \in Nat /\ DOMAIN t = 1 .. Len(t)
  BY LenProperties
<1>2. /\ Len(s \o t) = Len(s) + Len(t)
      /\ \A i \in 1 .. Len(s) + Len(t) :
             (s \o t)[i] = IF i <= Len(s) THEN s[i] ELSE t[i - Len(s)]
  BY ConcatProperties
<1> SUFFICES ASSUME NEW i \in 1 .. Len(s) + Len(t),
                    NEW j \in 1 .. Len(s) + Len(t), i < j
             PROVE  (s \o t)[i] < (s \o t)[j]
  BY <1>2 DEF Increasing
<1>3. CASE j <= Len(s)
  <2>1. i \in 1 .. Len(s) /\ j \in 1 .. Len(s)
    BY <1>1, <1>3
  <2>2. (s \o t)[i] = s[i] /\ (s \o t)[j] = s[j]
    BY <1>2, <2>1
  <2> QED
    BY <2>1, <2>2 DEF Increasing
<1>4. CASE i <= Len(s) /\ ~ j <= Len(s)
  <2>1. i \in 1 .. Len(s) /\ j - Len(s) \in 1 .. Len(t)
    BY <1>1, <1>4
  <2>2. (s \o t)[i] = s[i] /\ (s \o t)[j] = t[j - Len(s)]
    BY <1>2, <1>4
  <2>3. s[i] \in Range(s) /\ t[j - Len(s)] \in Range(t)
    BY <1>1, <2>1 DEF Range
  <2> QED
    BY <2>2, <2>3 DEF Before
<1>5. CASE ~ i <= Len(s)
  <2>1. /\ i - Len(s) \in 1 .. Len(t) /\ j - Len(s) \in 1 .. Len(t)
        /\ i - Len(s) < j - Len(s)
    BY <1>1, <1>5
  <2>2. (s \o t)[i] = t[i - Len(s)] /\ (s \o t)[j] = t[j - Len(s)]
    BY <1>1, <1>2, <1>5
  <2> QED
    BY <2>1, <2>2 DEF Increasing
<1> QED
  BY <1>1, <1>3, <1>4, <1>5

(* A queue with a frame more at its end. *)
LEMMA AppendIncreasing ==
    ASSUME NEW s \in Seq(Frame), NEW n \in Frame,
           Increasing(s), Before(Range(s), {n})
    PROVE  /\ Increasing(Append(s, n))
           /\ Range(Append(s, n)) = Range(s) \union {n}
<1>1. Len(s) \in Nat /\ DOMAIN s = 1 .. Len(s)
  BY LenProperties
<1>2. /\ Append(s, n) \in Seq(Frame)
      /\ Len(Append(s, n)) = Len(s) + 1
      /\ \A i \in 1 .. Len(s) : Append(s, n)[i] = s[i]
      /\ Append(s, n)[Len(s) + 1] = n
  BY AppendProperties
<1>3. DOMAIN Append(s, n) = 1 .. Len(s) + 1
  BY <1>2, LenProperties
<1>4. Range(Append(s, n)) = Range(s) \union {n}
  <2>1. 1 .. Len(s) + 1 = (1 .. Len(s)) \union {Len(s) + 1}
    BY <1>1
  <2> QED
    BY <1>1, <1>2, <1>3, <2>1 DEF Range
<1>5. \A i \in 1 .. Len(s) : s[i] < n
  BY <1>1 DEF Before, Range
<1>6. ASSUME NEW i \in 1 .. Len(s) + 1, NEW j \in 1 .. Len(s) + 1, i < j
      PROVE  Append(s, n)[i] < Append(s, n)[j]
  <2>1. i \in 1 .. Len(s) /\ Append(s, n)[i] = s[i]
    BY <1>1, <1>2, <1>6
  <2>2. CASE j = Len(s) + 1
    BY <1>2, <1>5, <2>1, <2>2
  <2>3. CASE j # Len(s) + 1
    <3>1. j \in 1 .. Len(s) /\ Append(s, n)[j] = s[j]
      BY <1>1, <1>2, <2>3
    <3> QED
      BY <1>6, <2>1, <3>1 DEF Increasing
  <2> QED
    BY <2>2, <2>3
<1> QED
  BY <1>2, <1>4, <1>6 DEF Increasing

(* A queue without its first frame. *)
LEMMA TailIncreasing ==
    ASSUME NEW s \in Seq(Frame), s # <<>>, Increasing(s)
    PROVE  /\ Increasing(Tail(s))
           /\ Before({Head(s)}, Range(Tail(s)))
<1>1. Len(s) \in Nat \ {0} /\ Head(s) = s[1]
  BY EmptySeq, LenProperties
<1>2. /\ Tail(s) \in Seq(Frame)
      /\ Len(Tail(s)) = Len(s) - 1
      /\ \A i \in 1 .. Len(s) - 1 : Tail(s)[i] = s[i + 1]
  BY HeadTailProperties
<1>3. DOMAIN Tail(s) = 1 .. Len(s) - 1
  BY <1>2, LenProperties
<1>4. ASSUME NEW i \in 1 .. Len(s) - 1, NEW j \in 1 .. Len(s) - 1, i < j
      PROVE  Tail(s)[i] < Tail(s)[j]
  <2>1. i + 1 \in 1 .. Len(s) /\ j + 1 \in 1 .. Len(s) /\ i + 1 < j + 1
    BY <1>1, <1>4
  <2> QED
    BY <1>2, <2>1 DEF Increasing
<1>5. ASSUME NEW j \in 1 .. Len(s) - 1
      PROVE  Head(s) < Tail(s)[j]
  <2>1. 1 \in 1 .. Len(s) /\ j + 1 \in 1 .. Len(s) /\ 1 < j + 1
    BY <1>1
  <2> QED
    BY <1>1, <1>2, <2>1 DEF Increasing
<1>6. Increasing(Tail(s))
  BY <1>2, <1>4 DEF Increasing
<1> QED
  BY <1>3, <1>5, <1>6 DEF Before, Range

(* Frames are numbered as they come in; of two queues, what is in the one that
   is emptied first came first. *)
QueuesInOrder ==
    /\ Increasing(delivered) /\ Increasing(rx)
    /\ Increasing(batch) /\ Increasing(wire)
    /\ Before(Range(delivered), Range(rx) \union Range(batch) \union Range(wire))
    /\ Before(Range(rx), Range(batch) \union Range(wire))
    /\ Before(Range(batch), Range(wire))
    /\ Before(Range(delivered) \union Range(rx) \union Range(batch) \union Range(wire),
              {arrived + 1})

LEMMA OrderStep ==
    ASSUME FramesOK, QueuesInOrder, [Next]_vars
    PROVE  QueuesInOrder'
<1> USE DEF QueuesInOrder
<1>1. FramesMove
  BY EveryStepMoves
<1>2. Range(<<>>) = {} /\ Increasing(<<>>)
  BY DEF Range, Increasing
<1>3. /\ Range(rx) \subseteq Nat /\ Range(wire) \subseteq Nat
      /\ Range(batch) \subseteq Nat /\ Range(delivered) \subseteq Nat
      /\ arrived \in Nat
  <2>1. ASSUME NEW s \in Seq(Frame) PROVE Range(s) \subseteq Nat
    <3>1. DOMAIN s = 1 .. Len(s) /\ Frame \subseteq Nat
      BY LenProperties DEF Frame
    <3>2. \A i \in 1 .. Len(s) : s[i] \in Frame
      BY ElementOfSeq
    <3> QED
      BY <3>1, <3>2 DEF Range
  <2> QED
    BY <2>1, SocketCanConstants DEF FramesOK
<1>4. CASE UNCHANGED <<rx, wire, batch, delivered, arrived>>
  BY <1>4
<1>5. CASE wire' = <<>> /\ UNCHANGED <<rx, batch, delivered, arrived>>
  BY <1>2, <1>5 DEF Before
<1>6. CASE batch' = <<>> /\ UNCHANGED <<rx, wire, delivered, arrived>>
  BY <1>2, <1>6 DEF Before
<1>7. CASE rx' = <<>> /\ UNCHANGED <<wire, batch, delivered, arrived>>
  BY <1>2, <1>7 DEF Before
<1>8. CASE /\ arrived < MaxFrames
           /\ arrived' = arrived + 1
           /\ wire' = Append(wire, arrived + 1)
           /\ UNCHANGED <<rx, batch, delivered>>
  <2>1. arrived + 1 \in Frame
    BY <1>3, <1>8, SocketCanConstants DEF Frame
  <2>2. Before(Range(wire), {arrived + 1})
    BY DEF Before
  <2>3. Increasing(wire') /\ Range(wire') = Range(wire) \union {arrived + 1}
    BY <1>8, <2>1, <2>2, AppendIncreasing DEF FramesOK
  <2> QED
    BY <1>3, <1>8, <2>3 DEF Before
<1>9. CASE /\ wire # <<>>
           /\ wire' = Tail(wire)
           /\ batch' = batch \/ batch' = Append(batch, Head(wire))
           /\ UNCHANGED <<rx, delivered, arrived>>
  <2>1. Head(wire) \in Frame /\ Range(wire) = {Head(wire)} \union Range(wire')
    BY <1>9, Popped DEF FramesOK
  <2>2. Increasing(wire') /\ Before({Head(wire)}, Range(wire'))
    BY <1>9, TailIncreasing DEF FramesOK
  <2>3. CASE batch' = batch
    BY <1>9, <2>1, <2>2, <2>3 DEF Before
  <2>4. CASE batch' = Append(batch, Head(wire))
    <3>1. Before(Range(batch), {Head(wire)})
      BY <2>1 DEF Before
    <3>2. Increasing(batch') /\ Range(batch') = Range(batch) \union {Head(wire)}
      BY <2>1, <2>4, <3>1, AppendIncreasing DEF FramesOK
    <3> QED
      BY <1>9, <2>1, <2>2, <3>2 DEF Before
  <2> QED
    BY <1>9, <2>3, <2>4
<1>10. CASE rx' = rx \o batch /\ batch' = <<>> /\ UNCHANGED <<wire, delivered, arrived>>
  <2>1. Before(Range(rx), Range(batch))
    BY DEF Before
  <2>2. Increasing(rx') /\ Range(rx') = Range(rx) \union Range(batch)
    BY <1>10, <2>1, JoinIncreasing, RangeConcatenation DEF FramesOK
  <2> QED
    BY <1>2, <1>10, <2>2 DEF Before
<1>11. CASE delivered' = delivered \o rx /\ rx' = <<>> /\ UNCHANGED <<wire, batch, arrived>>
  <2>1. Before(Range(delivered), Range(rx))
    BY DEF Before
  <2>2. /\ Increasing(delivered')
        /\ Range(delivered') = Range(delivered) \union Range(rx)
    BY <1>11, <2>1, JoinIncreasing, RangeConcatenation DEF FramesOK
  <2> QED
    BY <1>2, <1>11, <2>2 DEF Before
<1> QED
  BY <1>1, <1>4, <1>5, <1>6, <1>7, <1>8, <1>9, <1>10, <1>11 DEF FramesMove

(* What the queues hold, one after the other. *)
LEMMA QueuesJoined ==
    ASSUME FramesOK, QueuesInOrder
    PROVE  FramesInOrder
<1> USE DEF FramesOK, QueuesInOrder
<1> DEFINE received == delivered \o rx
           read == received \o batch
           all == read \o wire
<1>1. /\ received \in Seq(Frame) /\ Increasing(received)
      /\ Range(received) = Range(delivered) \union Range(rx)
  <2>1. Before(Range(delivered), Range(rx))
    BY DEF Before
  <2> QED
    BY <2>1, JoinIncreasing, ConcatProperties, RangeConcatenation
<1> HIDE DEF received
<1>2. /\ read \in Seq(Frame) /\ Increasing(read)
      /\ Range(read) = Range(received) \union Range(batch)
  <2>1. Before(Range(received), Range(batch))
    BY <1>1 DEF Before
  <2>2. batch \in Seq(Frame) /\ Increasing(batch)
    OBVIOUS
  <2>3. Increasing(received \o batch)
    BY <1>1, <2>1, <2>2, JoinIncreasing
  <2> QED
    BY <1>1, <2>2, <2>3, ConcatProperties, RangeConcatenation
<1> HIDE DEF read
<1>3. all \in Seq(Frame) /\ Increasing(all)
  <2>1. Before(Range(read), Range(wire))
    BY <1>1, <1>2 DEF Before
  <2> QED
    BY <1>2, <2>1, JoinIncreasing, ConcatProperties
<1> HIDE DEF all
<1>4. \A i \in 1 .. Len(all) - 1 : all[i] < all[i + 1]
  <2>1. Len(all) \in Nat
    BY <1>3, LenProperties
  <2>2. ASSUME NEW i \in 1 .. Len(all) - 1
        PROVE  i \in 1 .. Len(all) /\ i + 1 \in 1 .. Len(all) /\ i < i + 1
    BY <2>1
  <2> QED
    BY <1>3, <2>2 DEF Increasing
<1> QED
  BY <1>4 DEF FramesInOrder, all, read, received

(* recvAll() hands out frames in the order they came in and none twice,
   whatever slots, errors, reconnections and other threads do in between. *)
THEOREM FramesStayInOrder == Spec => []FramesInOrder
<1>1. Init => FramesOK /\ QueuesInOrder
  <2>1. Range(<<>>) = {} /\ Increasing(<<>>)
    BY DEF Range, Increasing
  <2>2. Init => FramesOK
    BY SocketCanConstants, EmptySeq DEF Init, FramesOK
  <2> QED
    BY <2>1, <2>2 DEF Init, QueuesInOrder, Before
<1>2. FramesOK /\ QueuesInOrder /\ [Next]_vars => (FramesOK /\ QueuesInOrder)'
  BY FramesStep, OrderStep
<1>3. FramesOK /\ QueuesInOrder => FramesInOrder
  BY QueuesJoined
<1> QED
  BY <1>1, <1>2, <1>3, PTL DEF Spec

-----------------------------------------------------------------------------
(* What is on its way: the list of readSocket() and, behind it, what the
   socket holds. *)

LEMMA Parts ==
    ASSUME NEW s \in Seq(Frame), NEW t \in Seq(Frame)
    PROVE  /\ Len(s) \in 0 .. Len(s \o t)
           /\ SubSeq(s \o t, 1, Len(s)) = s
           /\ SubSeq(s \o t, Len(s) + 1, Len(s \o t)) = t
<1>1. Len(s) \in Nat /\ Len(t) \in Nat
  BY LenProperties
<1>2. /\ s \o t \in Seq(Frame)
      /\ Len(s \o t) = Len(s) + Len(t)
      /\ \A i \in 1 .. Len(s) + Len(t) :
             (s \o t)[i] = IF i <= Len(s) THEN s[i] ELSE t[i - Len(s)]
  BY ConcatProperties
<1> DEFINE all == s \o t
<1> HIDE DEF all
<1>3. \A i \in 1 .. Len(s) + Len(t) : all[i] \in Frame
  BY <1>2, ElementOfSeq DEF all
<1>4. SubSeq(all, 1, Len(s)) = s
  <2>1. /\ SubSeq(all, 1, Len(s)) \in Seq(Frame)
        /\ Len(SubSeq(all, 1, Len(s))) = Len(s)
        /\ \A i \in 1 .. Len(s) : SubSeq(all, 1, Len(s))[i] = all[i]
    <3>1. \A i \in 1 .. Len(s) : all[i] \in Frame
      BY <1>1, <1>3
    <3> DEFINE part == SubSeq(all, 1, Len(s))
    <3>2. /\ part \in Seq(Frame)
          /\ Len(part) = IF 1 <= Len(s) THEN Len(s) - 1 + 1 ELSE 0
          /\ \A i \in 1 .. Len(s) - 1 + 1 : part[i] = all[1 + i - 1]
      BY <1>1, <3>1, SubSeqProperties
    <3> HIDE DEF part
    <3>3. /\ Len(part) = Len(s)
          /\ \A i \in 1 .. Len(s) : part[i] = all[i]
      BY <1>1, <3>2
    <3> QED
      BY <3>2, <3>3 DEF part
  <2>2. \A i \in 1 .. Len(s) : all[i] = s[i]
    BY <1>1, <1>2 DEF all
  <2> QED
    BY <2>1, <2>2, SeqEqual
<1>5. SubSeq(all, Len(s) + 1, Len(all)) = t
  <2> DEFINE m == Len(s) + 1
             n == Len(s) + Len(t)
             part == SubSeq(all, m, n)
  <2>1. /\ part \in Seq(Frame)
        /\ Len(part) = IF m <= n THEN n - m + 1 ELSE 0
        /\ \A i \in 1 .. n - m + 1 : part[i] = all[m + i - 1]
    <3>1. m \in Int /\ n \in Int /\ \A i \in m .. n : all[i] \in Frame
      BY <1>1, <1>3
    <3> HIDE DEF m, n
    <3> QED
      BY <3>1, SubSeqProperties
  <2> HIDE DEF part
  <2>2. /\ Len(part) = Len(t)
        /\ \A i \in 1 .. Len(t) : part[i] = all[Len(s) + i]
    BY <1>1, <2>1
  <2>3. \A i \in 1 .. Len(t) : all[Len(s) + i] = t[i]
    BY <1>1, <1>2 DEF all
  <2>4. part = t
    BY <2>1, <2>2, <2>3, SeqEqual
  <2> QED
    BY <1>2, <2>4 DEF part, all
<1> QED
  BY <1>1, <1>2, <1>4, <1>5 DEF all

(* A frame more behind the list of the socket. *)
LEMMA AppendedBehind ==
    ASSUME NEW s \in Seq(Frame), NEW t \in Seq(Frame), NEW n \in Frame
    PROVE  s \o Append(t, n) = Append(s \o t, n)
<1>1. <<n>> \in Seq(Frame) /\ s \o t \in Seq(Frame)
  BY ConcatProperties
<1>2. Append(t, n) = t \o <<n>> /\ Append(s \o t, n) = (s \o t) \o <<n>>
  BY <1>1, AppendIsConcat
<1> QED
  BY <1>1, <1>2, ConcatAssociative

(* One frame is read: it is put behind the list, or it is dropped. *)
LEMMA OneRead ==
    ASSUME NEW s \in Seq(Frame), NEW t \in Seq(Frame), t # <<>>
    PROVE  /\ Append(s, Head(t)) \o Tail(t) = s \o t
           /\ Len(s) + 1 \in DOMAIN (s \o t)
           /\ RemoveAt(s \o t, Len(s) + 1) = s \o Tail(t)
<1>1. /\ Head(t) \in Frame /\ Tail(t) \in Seq(Frame)
      /\ Head(t) = t[1]
      /\ t = <<Head(t)>> \o Tail(t)
  <2>1. Len(t) \in Nat \ {0} /\ Head(t) = t[1]
    BY EmptySeq
  <2>2. SubSeq(t, 1, Len(t)) = <<t[1]>> \o SubSeq(t, 2, Len(t))
    <3>1. 1 \in 1 .. Len(t) /\ Len(t) \in 1 .. Len(t)
      BY <2>1
    <3> QED
      BY <3>1, SubSeqRecursiveFirst
  <2>3. SubSeq(t, 1, Len(t)) = t /\ Tail(t) = SubSeq(t, 2, Len(t))
    BY SubSeqFull, TailIsSubSeq
  <2> QED
    BY <2>1, <2>2, <2>3, HeadTailProperties
<1> DEFINE h == Head(t)
           u == Tail(t)
<1> HIDE DEF h, u
<1>2. h \in Frame /\ u \in Seq(Frame) /\ <<h>> \in Seq(Frame) /\ t = <<h>> \o u
  BY <1>1 DEF h, u
<1>3. /\ Append(s, h) = s \o <<h>>
      /\ Append(s, h) \in Seq(Frame)
      /\ Len(Append(s, h)) = Len(s) + 1
  BY <1>2, AppendIsConcat, AppendProperties
<1>4. Append(s, h) \o u = s \o t
  BY <1>2, <1>3, ConcatAssociative
<1>5. Len(s) \in Nat
  BY LenProperties
<1>6. SubSeq(s \o t, 1, (Len(s) + 1) - 1) = s
  BY <1>5, Parts
<1>7. /\ SubSeq(s \o t, (Len(s) + 1) + 1, Len(s \o t)) = u
      /\ Len(s) + 1 <= Len(s \o t)
  BY <1>2, <1>3, <1>4, <1>5, Parts
<1>8. Len(s) + 1 \in DOMAIN (s \o t)
  BY <1>5, <1>7, ConcatProperties, LenProperties
<1> QED
  BY <1>4, <1>6, <1>7, <1>8 DEF h, u, RemoveAt

-----------------------------------------------------------------------------
(* The interface as a pipe. *)

(* Frames that readSocket() has read are there only while it runs. *)
BatchHasReader == batch # <<>> => "read" \in Range(stack)

(* The kernel holds frames only for a socket that is open and bound. *)
LineIsOpen ==
    /\ wire # <<>> => bound
    /\ bound => socket # -1

PipeInv ==
    /\ FramesOK /\ StackOK /\ ErrorOK /\ FlagsOK
    /\ ConnectedHasSocket
    /\ BatchHasReader /\ LineIsOpen

LEMMA BatchStep ==
    ASSUME StackOK, BatchHasReader, [Next]_vars
    PROVE  BatchHasReader'
<1> USE DEF Running, Label
<1>1. CASE SlotReturns \/ OpenDone \/ ConnectReturnsFalse \/ Unlock
  <2>1. /\ stack # <<>> /\ stack' = Tail(stack) /\ batch' = batch
        /\ Head(stack) # "read"
    BY <1>1 DEF SlotReturns, OpenDone, ConnectReturnsFalse, Unlock
  <2> QED
    BY <2>1, Dropped DEF BatchHasReader
<1>2. CASE OpenRefused \/ OpenWithoutSocket \/ OpenUnbound
  <2> DEFINE rest == <<"connect.fail">> \o Tail(stack)
  <2>1. /\ stack # <<>> /\ Head(stack) # "read" /\ batch' = batch
        /\ Emit(rest) \/ stack' = rest
    BY <1>2, SetErrorEmits DEF OpenRefused, OpenWithoutSocket, OpenUnbound
  <2> HIDE DEF rest
  <2> QED
    BY <2>1, Replaced DEF rest, BatchHasReader
<1>3. CASE OpenBound
  <2> DEFINE rest == <<"open.register">> \o Tail(stack)
  <2>1. /\ stack # <<>> /\ Head(stack) # "read" /\ batch' = batch
        /\ Emit(rest) \/ stack' = rest
    BY <1>3, SetStateEmits DEF OpenBound
  <2> HIDE DEF rest
  <2> QED
    BY <2>1, Replaced DEF rest, BatchHasReader
<1>4. CASE ConnectFails
  <2> DEFINE rest == <<"connect.false">> \o Tail(stack)
  <2>1. /\ stack # <<>> /\ Head(stack) # "read" /\ batch' = batch
        /\ Emit(rest) \/ stack' = rest
    BY <1>4, SetStateEmits DEF ConnectFails
  <2> HIDE DEF rest
  <2> QED
    BY <2>1, Replaced DEF rest, BatchHasReader
<1>5. CASE Close
  <2>1. /\ stack # <<>> /\ Head(stack) # "read" /\ batch' = batch
        /\ Emit(Tail(stack)) \/ stack' = Tail(stack)
    BY <1>5, SetStateEmits DEF Close
  <2> QED
    BY <2>1, Dropped DEF BatchHasReader
<1>6. CASE CallReadSocket \/ Enqueue
  BY <1>6 DEF CallReadSocket, Enqueue, BatchHasReader
<1>7. CASE ReadFrame
  <2>1. /\ stack # <<>> /\ Head(stack) = "read"
        /\ Emit(stack) \/ stack' = stack
    BY <1>7, SetErrorEmits DEF ReadFrame
  <2>2. "read" \in Range(stack)
    BY <2>1, Popped DEF StackOK
  <2> QED
    BY <2>1, <2>2, Kept DEF BatchHasReader
<1>8. CASE Collect \/ DropEvent \/ Arrive \/ UNCHANGED vars
  BY <1>8 DEF Collect, DropEvent, Arrive, vars, BatchHasReader
<1>9. CASE Connect
  <2>1. batch' = batch
    BY <1>9 DEF Connect
  <2>2. CASE setError("ConnectionError", <<"connect.false">> \o stack)
    BY <2>1, <2>2, SetErrorEmits, Added DEF BatchHasReader
  <2>3. CASE setState("ConnectionPending", <<"connect.open">> \o stack)
    BY <2>1, <2>3, SetStateEmits, Added DEF BatchHasReader
  <2> QED
    BY <1>9, <2>2, <2>3 DEF Connect
<1>10. CASE Disconnect
  <2>1. /\ batch' = batch
        /\ setState("DisconnectPending", <<"disconnect.close">> \o stack)
    BY <1>10 DEF Disconnect
  <2> QED
    BY <2>1, SetStateEmits, Added DEF BatchHasReader
<1>11. CASE \/ Recv \/ RecvAll \/ FlushRx \/ SetConfigOther \/ SendFails \/ Scan
            \/ \E value \in BOOLEAN : SetConfigFD(value)
  <2>1. /\ \/ Emit(stack)
           \/ stack' = stack
           \/ stack' = <<"relock">> \o stack
        /\ batch' = batch
    BY <1>11, SetErrorEmits
       DEF Recv, RecvAll, FlushRx, SetConfigOther, SendFails, SetConfigFD,
           Scan, LockAgain
  <2> QED
    BY <2>1, Kept, Added DEF BatchHasReader
<1> QED
  BY <1>1, <1>2, <1>3, <1>4, <1>5, <1>6, <1>7, <1>8, <1>9, <1>10, <1>11
     DEF Next, OwnSteps, Calls

LEMMA LineStep ==
    ASSUME LineIsOpen, [Next]_vars
    PROVE  LineIsOpen'
<1> USE DEF LineIsOpen
<1>1. CASE OpenUnbound \/ OpenBound
  BY <1>1, SocketCanConstants DEF OpenUnbound, OpenBound, NewSocket, FreeFds
<1>2. CASE Close
  BY <1>2 DEF Close
<1>3. CASE Arrive
  BY <1>3 DEF Arrive, object
<1>4. CASE ReadFrame
  BY <1>4 DEF ReadFrame
<1>5. CASE UNCHANGED <<socket, bound, wire>>
  BY <1>5
<1>6. CASE OwnSteps /\ ~ OpenUnbound /\ ~ OpenBound /\ ~ Close /\ ~ ReadFrame
  <2>1. UNCHANGED <<socket, bound, wire>>
    BY <1>6
       DEF OwnSteps, object, kernel, SlotReturns, OpenRefused,
           OpenWithoutSocket, OpenDone, ConnectFails, ConnectReturnsFalse,
           Collect, DropEvent, CallReadSocket, Enqueue, Unlock
  <2> QED
    BY <1>5, <2>1
<1>7. CASE Calls \/ UNCHANGED vars
  <2>1. UNCHANGED <<socket, bound, wire>>
    BY <1>7
       DEF Calls, vars, object, kernel, Connect, Disconnect, Recv, RecvAll,
           FlushRx, SetConfigFD, SetConfigOther, SendFails, Scan
  <2> QED
    BY <1>5, <2>1
<1> QED
  BY <1>1, <1>2, <1>3, <1>4, <1>6, <1>7 DEF Next

(* Steps that move no frames: they may leave an error or clear it. *)
LEMMA Reports ==
    ASSUME lastError' \in CanBusError,
           UNCHANGED <<bound, wire, batch, rx, delivered, shown, arrived>>
    PROVE  Pipe!Report
  BY DEF Pipe!Report

LEMMA OpeningIsPiped ==
    ASSUME PipeInv, ErrorOK', OpenUnbound \/ OpenBound
    PROVE  Pipe!Next
<1>1. /\ wire = <<>> /\ wire' = <<>> /\ bound = FALSE
      /\ UNCHANGED <<batch, rx, delivered, shown, arrived>>
  BY DEF OpenUnbound, OpenBound, NewSocket, history, PipeInv, LineIsOpen,
         FlagsOK
<1>2. CASE OpenUnbound
  <2>1. bound' = FALSE
    BY <1>2 DEF OpenUnbound, NewSocket
  <2> QED
    BY <1>1, <2>1, Reports DEF ErrorOK, Pipe!Next
<1>3. CASE OpenBound
  <2>1. bound' = TRUE /\ lastError' = lastError
    BY <1>3 DEF OpenBound, NewSocket
  <2> QED
    BY <1>1, <2>1 DEF Pipe!Open, Pipe!Next
<1> QED
  BY <1>2, <1>3

LEMMA CloseIsPiped ==
    ASSUME PipeInv, ErrorOK', Close
    PROVE  Pipe!Next
<1>1. /\ wire' = <<>> /\ bound' = FALSE
      /\ UNCHANGED <<batch, rx, delivered, shown, arrived, lastError>>
  BY DEF Close, history
<1>2. CASE ~bound
  <2>1. wire = <<>> /\ bound = FALSE
    BY <1>2 DEF PipeInv, LineIsOpen, FlagsOK
  <2> QED
    BY <1>1, <2>1, Reports DEF ErrorOK, Pipe!Next
<1>3. CASE bound
  <2>1. /\ Len(batch) \in 0 .. Len(batch \o wire)
        /\ SubSeq(batch \o wire, 1, Len(batch)) = batch
    BY Parts DEF PipeInv, FramesOK
  <2>2. (batch \o wire)' = batch
    BY <1>1, ConcatEmptySeq DEF PipeInv, FramesOK
  <2>3. Pipe!Close
    BY <1>1, <1>3, <2>1, <2>2 DEF Pipe!Close
  <2> QED
    BY <2>3 DEF Pipe!Next
<1> QED
  BY <1>2, <1>3

LEMMA ReadIsPiped ==
    ASSUME PipeInv, ErrorOK', ReadFrame
    PROVE  Pipe!Next \/ UNCHANGED Pipe!vars
<1> USE DEF PipeInv, FramesOK
<1>1. /\ wire # <<>> /\ wire' = Tail(wire)
      /\ UNCHANGED <<bound, rx, delivered, shown, arrived>>
  BY DEF ReadFrame, history
<1>2. /\ Append(batch, Head(wire)) \o Tail(wire) = batch \o wire
      /\ Len(batch) + 1 \in DOMAIN (batch \o wire)
      /\ RemoveAt(batch \o wire, Len(batch) + 1) = batch \o Tail(wire)
  BY <1>1, OneRead
<1>3. CASE batch' = Append(batch, Head(wire))
  <2>1. (batch \o wire)' = batch \o wire
    BY <1>1, <1>2, <1>3
  <2> QED
    BY <1>1, <2>1 DEF ErrorOK, Pipe!Report, Pipe!Next
<1>4. CASE batch' = batch /\ lastError' = "RxError"
  <2>1. (batch \o wire)' = batch \o Tail(wire)
    BY <1>1, <1>4
  <2>2. Pipe!Reject
    BY <1>1, <1>2, <1>4, <2>1 DEF Pipe!Reject, Pipe!RemoveAt, RemoveAt
  <2> QED
    BY <2>2 DEF Pipe!Next
<1> QED
  BY <1>3, <1>4 DEF ReadFrame, setError

LEMMA EnqueueIsPiped ==
    ASSUME PipeInv, Enqueue
    PROVE  Pipe!Next
<1> USE DEF PipeInv, FramesOK
<1>1. /\ rx' = rx \o batch /\ batch' = <<>>
      /\ UNCHANGED <<bound, wire, delivered, shown, arrived, lastError>>
  BY DEF Enqueue, kernel, history
<1>2. /\ Len(batch) \in 0 .. Len(batch \o wire)
      /\ SubSeq(batch \o wire, 1, Len(batch)) = batch
      /\ SubSeq(batch \o wire, Len(batch) + 1, Len(batch \o wire)) = wire
  BY Parts
<1>3. (batch \o wire)' = wire
  BY <1>1, ConcatEmptySeq
<1>4. Pipe!Store
  BY <1>1, <1>2, <1>3 DEF Pipe!Store
<1> QED
  BY <1>4 DEF Pipe!Next

LEMMA ArrivalIsPiped ==
    ASSUME PipeInv, Arrive
    PROVE  Pipe!Next
<1> USE DEF PipeInv, FramesOK
<1>1. /\ bound /\ arrived < MaxFrames
      /\ arrived' = arrived + 1
      /\ wire' = Append(wire, arrived + 1)
      /\ UNCHANGED <<bound, rx, batch, delivered, shown, lastError>>
  BY DEF Arrive, object
<1>2. arrived + 1 \in Frame
  BY <1>1, SocketCanConstants DEF Frame
<1>3. (batch \o wire)' = Append(batch \o wire, arrived')
  BY <1>1, <1>2, AppendedBehind
<1>4. Pipe!Arrive
  BY <1>1, <1>3 DEF Pipe!Arrive
<1> QED
  BY <1>4 DEF Pipe!Next

LEMMA ReceiverIsPiped ==
    ASSUME PipeInv, ErrorOK', RecvAll \/ FlushRx
    PROVE  Pipe!Next
<1>1. UNCHANGED <<bound, wire, batch, arrived, shown>>
  BY DEF RecvAll, FlushRx, kernel, history
<1>2. CASE UNCHANGED <<rx, delivered>>
  BY <1>1, <1>2, Reports DEF ErrorOK, Pipe!Next
<1>3. CASE /\ state = "Connected" /\ lastError' = "NoError"
           /\ delivered' = delivered \o rx /\ rx' = <<>>
  <2>1. bound
    BY <1>3 DEF PipeInv, ConnectedHasSocket
  <2> QED
    BY <1>1, <1>3, <2>1 DEF Pipe!Receive, Pipe!Next
<1>4. CASE rx' = <<>> /\ UNCHANGED <<delivered, lastError>>
  BY <1>1, <1>4 DEF Pipe!Flush, Pipe!Next
<1> QED
  BY <1>2, <1>3, <1>4 DEF RecvAll, FlushRx, history

(* recv() shows what the pipe would show and moves nothing. *)
LEMMA RecvIsPiped ==
    ASSUME PipeInv, ErrorOK', Recv
    PROVE  Pipe!Next
<1>1. UNCHANGED <<bound, wire, batch, rx, delivered, arrived>>
  BY DEF Recv, kernel
<1>2. CASE lastError' = "OperationError" /\ shown' = InvalidFrame
  BY <1>1, <1>2 DEF ErrorOK, InvalidFrame, Pipe!Peek, Pipe!Next
<1>3. CASE UNCHANGED shown
  BY <1>1, <1>3, Reports DEF ErrorOK, Pipe!Next
<1>4. CASE /\ state = "Connected" /\ lastError' = "NoError"
           /\ shown' = IF rx = <<>> THEN InvalidFrame ELSE Head(rx)
  <2>1. bound
    BY <1>4 DEF PipeInv, ConnectedHasSocket
  <2> QED
    BY <1>1, <1>4, <2>1 DEF InvalidFrame, Pipe!Peek, Pipe!Next
<1> QED
  BY <1>2, <1>3, <1>4 DEF Recv, setError

(* The list is empty when a callback begins: no frames of an earlier one are
   thrown away. *)
LEMMA CallIsPiped ==
    ASSUME PipeInv, ErrorOK', CallReadSocket
    PROVE  Pipe!Next
<1>1. Range(stack) = {}
  BY DEF CallReadSocket, Range
<1>2. batch = <<>> /\ batch' = <<>>
  BY <1>1 DEF CallReadSocket, PipeInv, BatchHasReader
<1>3. UNCHANGED <<bound, wire, rx, delivered, shown, arrived>>
  BY DEF CallReadSocket, object, kernel, history
<1> QED
  BY <1>2, <1>3, Reports DEF ErrorOK, Pipe!Next

LEMMA StepsArePiped ==
    ASSUME PipeInv, ErrorOK', [Next]_vars
    PROVE  [Pipe!Next]_(Pipe!vars)
<1>1. CASE UNCHANGED <<bound, wire, batch, rx, delivered, shown, arrived>>
  BY <1>1, Reports DEF ErrorOK, Pipe!Next
<1>2. CASE \/ SlotReturns \/ OpenRefused \/ OpenWithoutSocket \/ OpenDone
           \/ ConnectFails \/ ConnectReturnsFalse \/ Collect \/ DropEvent
           \/ Unlock \/ UNCHANGED vars
  <2>1. UNCHANGED <<bound, wire, batch, rx, delivered, shown, arrived>>
    BY <1>2
       DEF SlotReturns, OpenRefused, OpenWithoutSocket, OpenDone,
           ConnectFails, ConnectReturnsFalse, Collect, DropEvent, Unlock, vars,
           object, kernel, history
  <2> QED
    BY <1>1, <2>1
<1>3. CASE \/ Connect \/ Disconnect \/ SetConfigOther \/ SendFails \/ Scan
           \/ \E value \in BOOLEAN : SetConfigFD(value)
  <2>1. UNCHANGED <<bound, wire, batch, rx, delivered, shown, arrived>>
    BY <1>3
       DEF Connect, Disconnect, SetConfigOther, SendFails, Scan, SetConfigFD,
           object, kernel, history
  <2> QED
    BY <1>1, <2>1
<1> QED
  BY <1>2, <1>3, OpeningIsPiped, CloseIsPiped, ReadIsPiped, EnqueueIsPiped,
     ArrivalIsPiped, ReceiverIsPiped, RecvIsPiped, CallIsPiped
     DEF Next, OwnSteps, Calls

(* No frame is lost between the socket and recvAll() but in the three ways the
   pipe allows, recvAll() hands none out twice or in another order, and recv()
   shows the oldest that is queued, however slots connect, disconnect, receive
   and flush while a batch is being read. *)
THEOREM InterfaceImplementsPipe == Spec => ImplementsReceivePipe
<1>1. Init => Pipe!Init /\ PipeInv
  <2> SUFFICES ASSUME Init PROVE Pipe!Init /\ PipeInv
    OBVIOUS
  <2>1. batch \o wire = <<>>
    <3>1. <<>> \o <<>> = <<>>
      BY EmptySeq, ConcatEmptySeq
    <3> QED
      BY <3>1 DEF Init
  <2>2. Pipe!Init
    BY <2>1, Zenon DEF Init, InvalidFrame, Pipe!Init
  <2>3. FramesOK /\ StackOK /\ ErrorOK
    BY SocketCanConstants, EmptySeq
       DEF Init, FramesOK, StackOK, ErrorOK, CanBusError
  <2>4. FlagsOK
    BY Zenon DEF Init, FlagsOK
  <2>5. ConnectedHasSocket /\ BatchHasReader /\ LineIsOpen
    BY DEF Init, ConnectedHasSocket, BatchHasReader, LineIsOpen
  <2> QED
    BY <2>2, <2>3, <2>4, <2>5 DEF PipeInv
<1>2. PipeInv /\ ConnectedHasSocket' /\ StackOK' /\ [Next]_vars => PipeInv'
  BY FramesStep, ErrorStep, FlagsStep, BatchStep, LineStep DEF PipeInv
<1>3. PipeInv /\ PipeInv' /\ [Next]_vars => [Pipe!Next]_(Pipe!vars)
  BY StepsArePiped DEF PipeInv
<1>4. Spec => [](ConnectedHasSocket /\ StackOK)
  BY ConnectedStateHasSocket, SettlingInvariance, PTL DEF Settling
<1> QED
  BY <1>1, <1>2, <1>3, <1>4, PTL DEF Spec, Pipe!Spec, ImplementsReceivePipe

=============================================================================
