------------------------------ MODULE SocketCan ------------------------------
(***************************************************************************)
(* CanInterface with its SocketCAN backend: the connection, its socket,    *)
(* the receive queue, and the registration with the EventDispatcher.       *)
(*                                                                         *)
(* The signals connectionStateChanged, errorOccurred and framesReceived    *)
(* run their slots in the middle of the operation that emits them, and a   *)
(* slot may call back into the interface.  stack is the call stack of the  *)
(* thread that runs the event loop: the labels of the operations that wait *)
(* for a slot to return, innermost first.  It is empty between two calls.  *)
(* Nothing else interrupts an operation, so what it does between two       *)
(* signals is one step.                                                    *)
(*                                                                         *)
(* Of the dispatcher there is what the interface can see: whether its      *)
(* socket is watched, and that an event which was returned for it is       *)
(* dispatched, to readSocket() or to nobody.  EventDispatcher models the   *)
(* lookup that decides which.                                              *)
(***************************************************************************)
EXTENDS Integers, Sequences, SequencesExt, FiniteSets

CONSTANTS
    Fds,             \* descriptor numbers socket() may return
    MaxFrames,       \* bound: frames the bus delivers
    MaxDepth,        \* bound: depth of the stack at which slots still call
    SlotCalls,       \* operations the slots call
    Failures,        \* opening and configuring the socket may fail
    ReadFailures,    \* reading it may fail, and yield bad frames
    Relock,          \* slots of framesReceived call what takes _rxLock
    ThreadsReceive   \* another thread calls recv() and recvAll()

ASSUME SocketCanConstants ==
    /\ Fds \subseteq Nat /\ IsFiniteSet(Fds)
    /\ MaxFrames \in Nat
    /\ MaxDepth \in Nat
    /\ {Failures, ReadFailures, Relock, ThreadsReceive} \subseteq BOOLEAN

VARIABLES
    state,       \* _state
    lastError,   \* _lastError
    socket,      \* _socket, -1 without one
    fdEnabled,   \* _fdEnabled
    rx,          \* _rxFrames
    openFds,     \* sockets this interface opened and has not closed
    bound,       \* the socket is bound to the CAN interface
    kernelFd,    \* its CAN_RAW_FD_FRAMES option
    wire,        \* frames the kernel holds for it
    lost,        \* sockets that scans opened and nobody has a number for
    files,       \* descriptors m_files has a Read key for
    epoll,       \* descriptors the epoll set watches
    stack,       \* what the loop's thread is in the middle of
    batch,       \* frames of the running readSocket()
    collected,   \* epoll_wait returned an event that is not yet dispatched
    arrived,     \* number of the last frame that came in
    delivered,   \* what recvAll() has handed out, in order
    shown        \* what recv() returned last

object == <<state, lastError, socket, fdEnabled, rx>>
kernel == <<openFds, bound, kernelFd, wire, lost>>
dispatcher == <<files, epoll, collected>>
history == <<arrived, delivered, shown>>
vars == <<object, kernel, dispatcher, stack, batch, history>>

(* enum CanConnectionState and CanBusError; two of the errors are unused. *)
CanConnectionState == {"Disconnected", "ConnectionPending", "Connected",
                       "DisconnectPending"}
CanBusError == {"NoError", "RxError", "TxError", "ConnectionError",
                "ConfigurationError", "OperationError"}

(* What recv() returns when it has no frame. *)
InvalidFrame == 0

Init ==
    /\ state = "Disconnected" /\ lastError = "NoError" /\ socket = -1
    /\ fdEnabled = FALSE /\ rx = <<>>
    /\ openFds = {} /\ bound = FALSE /\ kernelFd = FALSE /\ wire = <<>>
    /\ lost = {}
    /\ files = {} /\ epoll = {} /\ collected = FALSE
    /\ stack = <<>> /\ batch = <<>>
    /\ arrived = 0 /\ delivered = <<>> /\ shown = InvalidFrame

-----------------------------------------------------------------------------
(* Signals and calls. *)

Running(label) == stack # <<>> /\ Head(stack) = label

(* A signal is emitted: a slot runs, then what is below it goes on. *)
Emit(rest) == stack' = <<"slot">> \o rest

setState(new, rest) ==
    /\ state' = new
    /\ IF new = state THEN stack' = rest ELSE Emit(rest)

setError(error, rest) ==
    /\ lastError' = error
    /\ Emit(rest)

MayCall(operation) ==
    \/ stack = <<>>
    \/ Running("slot") /\ operation \in SlotCalls /\ Len(stack) < MaxDepth

SlotReturns ==
    /\ Running("slot")
    /\ stack' = Tail(stack)
    /\ UNCHANGED <<object, kernel, dispatcher, batch, history>>

-----------------------------------------------------------------------------
(* connect(), open(). *)

Connect ==
    /\ MayCall("connect")
    /\ \/ /\ state # "Disconnected"
          /\ setError("ConnectionError", <<"connect.false">> \o stack)
          /\ UNCHANGED state
       \/ /\ state = "Disconnected"
          /\ setState("ConnectionPending", <<"connect.open">> \o stack)
          /\ UNCHANGED lastError
    /\ UNCHANGED <<socket, fdEnabled, rx, kernel, dispatcher, batch, history>>

(* "already opened" *)
OpenRefused ==
    /\ Running("connect.open")
    /\ socket # -1
    /\ stack' = <<"connect.fail">> \o Tail(stack)
    /\ UNCHANGED <<object, kernel, dispatcher, batch, history>>

FreeFds == Fds \ (openFds \union lost)

(* socket() fails, for one because there is no descriptor left. *)
OpenWithoutSocket ==
    /\ Running("connect.open")
    /\ socket = -1
    /\ Failures \/ FreeFds = {}
    /\ setError("ConnectionError", <<"connect.fail">> \o Tail(stack))
    /\ UNCHANGED <<state, socket, fdEnabled, rx, kernel, dispatcher, batch,
                   history>>

(* A new socket has the kernel's defaults; the number was free. *)
NewSocket(isBound) ==
    \E fd \in FreeFds :
        /\ socket' = fd
        /\ openFds' = openFds \union {fd}
        /\ bound' = isBound
        /\ kernelFd' = FALSE
        /\ wire' = <<>>
        /\ UNCHANGED lost

(* The interface is not there, or bind() fails: the socket stays open. *)
OpenUnbound ==
    /\ Running("connect.open")
    /\ socket = -1
    /\ Failures
    /\ NewSocket(FALSE)
    /\ setError("ConnectionError", <<"connect.fail">> \o Tail(stack))
    /\ UNCHANGED <<state, fdEnabled, rx, dispatcher, batch, history>>

(* Mutant of OpenBound: no check for an open socket. *)
OpenUnchecked ==
    /\ Running("connect.open")
    /\ NewSocket(TRUE)
    /\ setState("Connected", <<"open.register">> \o Tail(stack))
    /\ UNCHANGED <<lastError, fdEnabled, rx, dispatcher, batch, history>>

OpenBound ==
    /\ Running("connect.open")
    /\ socket = -1
    /\ NewSocket(TRUE)
    /\ setState("Connected", <<"open.register">> \o Tail(stack))
    /\ UNCHANGED <<lastError, fdEnabled, rx, dispatcher, batch, history>>

(* Mutant of AddFile: no check for -1. *)
AddFileAnyFd(fd) ==
    IF fd \in files \/ fd \in epoll
    THEN UNCHANGED <<files, epoll>>
    ELSE files' = files \union {fd} /\ epoll' = epoll \union {fd}

(* addFile(fd, Read): refused for -1, for a key that is there, and for what
   the epoll set has already. *)
AddFile(fd) ==
    IF fd = -1 \/ fd \in files \/ fd \in epoll
    THEN UNCHANGED <<files, epoll>>
    ELSE files' = files \union {fd} /\ epoll' = epoll \union {fd}

(* Mutant of OpenDone: connect() sets the state of a connection that opened. *)
OpenDoneConnected ==
    /\ Running("open.register")
    /\ AddFile(socket)
    /\ lastError' = "NoError"
    /\ setState("Connected", Tail(stack))
    /\ UNCHANGED <<socket, fdEnabled, rx, kernel, collected, batch, history>>

(* The rest of open() once the slots of "Connected" have returned: there are
   no options to apply, for setConfigOption() adds no key to _configOptions;
   what addFile() says is ignored.  connect() clears the error. *)
OpenDone ==
    /\ Running("open.register")
    /\ AddFile(socket)
    /\ lastError' = "NoError"
    /\ stack' = Tail(stack)
    /\ UNCHANGED <<state, socket, fdEnabled, rx, kernel, collected, batch, history>>

(* Mutant of ConnectFails: the state is left as it is. *)
ConnectFailsPending ==
    /\ Running("connect.fail")
    /\ stack' = <<"connect.false">> \o Tail(stack)
    /\ UNCHANGED <<object, kernel, dispatcher, batch, history>>

ConnectFails ==
    /\ Running("connect.fail")
    /\ setState("Disconnected", <<"connect.false">> \o Tail(stack))
    /\ UNCHANGED <<lastError, socket, fdEnabled, rx, kernel, dispatcher, batch,
                   history>>

ConnectReturnsFalse ==
    /\ Running("connect.false")
    /\ stack' = Tail(stack)
    /\ UNCHANGED <<object, kernel, dispatcher, batch, history>>

-----------------------------------------------------------------------------
(* disconnect(), close(). *)

Disconnect ==
    /\ MayCall("disconnect")
    /\ state \notin {"Disconnected", "DisconnectPending"}
    /\ setState("DisconnectPending", <<"disconnect.close">> \o stack)
    /\ UNCHANGED <<lastError, socket, fdEnabled, rx, kernel, dispatcher, batch,
                   history>>

(* The kernel drops a closed socket from the epoll set, with the frames it
   held; m_files keeps its key. *)
Close ==
    /\ Running("disconnect.close")
    /\ openFds' = openFds \ {socket}
    /\ epoll' = epoll \ {socket}
    /\ socket' = -1
    /\ bound' = FALSE /\ kernelFd' = FALSE /\ wire' = <<>>
    /\ setState("Disconnected", Tail(stack))
    /\ UNCHANGED <<lastError, fdEnabled, rx, lost, files, collected, batch,
                   history>>

-----------------------------------------------------------------------------
(* Receiving. *)

Arrive ==
    /\ bound
    /\ arrived < MaxFrames
    /\ arrived' = arrived + 1
    /\ wire' = Append(wire, arrived')
    /\ UNCHANGED <<object, openFds, bound, kernelFd, lost, dispatcher, stack,
                   batch, delivered, shown>>

(* epoll_wait returns the socket's event; the loop dispatches it in its
   turn, perhaps after other callbacks have used the interface. *)
Collect ==
    /\ stack = <<>>
    /\ socket \in epoll
    /\ ~collected
    /\ collected' = TRUE
    /\ UNCHANGED <<object, kernel, files, epoll, stack, batch, history>>

(* The dispatcher finds no callback for the event: its lookup takes another
   key than the one addFile() recorded (Key in EventDispatcher). *)
DropEvent ==
    /\ stack = <<>>
    /\ collected
    /\ collected' = FALSE
    /\ UNCHANGED <<object, kernel, files, epoll, stack, batch, history>>

(* Or it finds this one. *)
CallReadSocket ==
    /\ stack = <<>>
    /\ collected
    /\ collected' = FALSE
    /\ stack' = <<"read">>
    /\ batch' = <<>>
    /\ UNCHANGED <<object, kernel, files, epoll, history>>

(* Mutant of ReadFrame: a frame that is incomplete is skipped in silence. *)
ReadFrameSilently ==
    /\ Running("read")
    /\ wire # <<>>
    /\ wire' = Tail(wire)
    /\ \/ /\ batch' = Append(batch, Head(wire))
          /\ UNCHANGED <<lastError, stack>>
       \/ /\ ReadFailures
          /\ batch' = batch
          /\ UNCHANGED <<lastError, stack>>
    /\ UNCHANGED <<state, socket, fdEnabled, rx, openFds, bound, kernelFd, lost,
                   dispatcher, history>>

(* One round of the loop in readSocket().  A frame without a timestamp is
   kept; one that is incomplete or has a wrong length is not. *)
ReadFrame ==
    /\ Running("read")
    /\ wire # <<>>
    /\ wire' = Tail(wire)
    /\ \/ /\ batch' = Append(batch, Head(wire))
          /\ UNCHANGED <<lastError, stack>>
       \/ /\ ReadFailures
          /\ batch' \in {batch, Append(batch, Head(wire))}
          /\ setError("RxError", stack)
    /\ UNCHANGED <<state, socket, fdEnabled, rx, openFds, bound, kernelFd, lost,
                   dispatcher, history>>

(* Mutant of Enqueue: the frames go to the front of the queue. *)
EnqueueInFront ==
    /\ Running("read")
    /\ wire = <<>> \/ ReadFailures
    /\ rx' = batch \o rx
    /\ batch' = <<>>
    /\ Emit(<<"enqueue.unlock">> \o Tail(stack))
    /\ UNCHANGED <<state, lastError, socket, fdEnabled, kernel, dispatcher,
                   history>>

(* recvmsg() has no frame, or fails, as it does for a closed socket: the
   frames go to the queue, and framesReceived is emitted, also for none,
   with _rxLock held. *)
Enqueue ==
    /\ Running("read")
    /\ wire = <<>> \/ ReadFailures
    /\ rx' = rx \o batch
    /\ batch' = <<>>
    /\ Emit(<<"enqueue.unlock">> \o Tail(stack))
    /\ UNCHANGED <<state, lastError, socket, fdEnabled, kernel, dispatcher,
                   history>>

Unlock ==
    /\ Running("enqueue.unlock")
    /\ stack' = Tail(stack)
    /\ UNCHANGED <<object, kernel, dispatcher, batch, history>>

rxLocked == Contains(stack, "enqueue.unlock")

(* _rxLock is not recursive: the thread that holds it waits for itself. *)
LockAgain ==
    /\ rxLocked
    /\ Relock
    /\ stack' = <<"relock">> \o stack

ThreadMayReceive == ThreadsReceive /\ state = "Connected" /\ ~rxLocked

(* recv() returns the first frame of the queue and leaves it there. *)
Recv ==
    /\ MayCall("recv") \/ ThreadMayReceive
    /\ \/ /\ state # "Connected"
          /\ setError("OperationError", stack)
          /\ shown' = InvalidFrame
       \/ /\ state = "Connected"
          /\ lastError' = "NoError"
          /\ \/ LockAgain /\ UNCHANGED shown
             \/ /\ ~rxLocked
                /\ shown' = IF rx = <<>> THEN InvalidFrame ELSE Head(rx)
                /\ UNCHANGED stack
    /\ UNCHANGED <<state, socket, fdEnabled, rx, kernel, dispatcher, batch,
                   arrived, delivered>>

RecvAll ==
    /\ MayCall("recvAll") \/ ThreadMayReceive
    /\ \/ /\ state # "Connected"
          /\ setError("OperationError", stack)
          /\ UNCHANGED <<rx, delivered>>
       \/ /\ state = "Connected"
          /\ lastError' = "NoError"
          /\ \/ LockAgain /\ UNCHANGED <<rx, delivered>>
             \/ /\ ~rxLocked
                /\ delivered' = delivered \o rx
                /\ rx' = <<>>
                /\ UNCHANGED stack
    /\ UNCHANGED <<state, socket, fdEnabled, kernel, dispatcher, batch, arrived,
                   shown>>

FlushRx ==
    /\ MayCall("flushRx")
    /\ \/ LockAgain /\ UNCHANGED rx
       \/ ~rxLocked /\ rx' = <<>> /\ UNCHANGED stack
    /\ UNCHANGED <<state, lastError, socket, fdEnabled, kernel, dispatcher,
                   batch, history>>

-----------------------------------------------------------------------------
(* Options, sending. *)

(* applyConfigOption() sets the option of an open socket and returns false
   all the same, so setConfigOption() goes on only without a socket. *)
SetConfigFD(value) ==
    /\ MayCall("setConfigOption")
    /\ \/ /\ socket # -1
          /\ kernelFd' = value
          /\ UNCHANGED <<fdEnabled, lastError, stack>>
       \/ /\ socket # -1
          /\ Failures
          /\ setError("ConfigurationError", stack)
          /\ UNCHANGED <<fdEnabled, kernelFd>>
       \/ /\ socket = -1
          /\ fdEnabled' = value
          /\ UNCHANGED <<kernelFd, lastError, stack>>
    /\ UNCHANGED <<state, socket, rx, openFds, bound, wire, lost, dispatcher,
                   batch, history>>

(* An option SocketCAN does not know, or a system call that refuses one. *)
SetConfigOther ==
    /\ MayCall("setConfigOption")
    /\ socket # -1
    /\ setError("ConfigurationError", stack)
    /\ UNCHANGED <<state, socket, fdEnabled, rx, kernel, dispatcher, batch,
                   history>>

(* send() leaves no trace in the interface unless it fails: an invalid frame,
   an FD frame without FD, or a write() that fails, as it does for an FD
   frame on a socket without the option. *)
SendFails ==
    /\ MayCall("send")
    /\ state = "Connected"
    /\ setError("TxError", stack)
    /\ UNCHANGED <<state, socket, fdEnabled, rx, kernel, dispatcher, batch,
                   history>>

(* availableChannels(), a static function: it tries the interfaces with a
   socket of its own, which it never closes.  The interface is not touched. *)
Scan ==
    /\ MayCall("scan")
    /\ \E fd \in FreeFds : lost' = lost \union {fd}
    /\ UNCHANGED <<object, openFds, bound, kernelFd, wire, dispatcher, stack,
                   batch, history>>

-----------------------------------------------------------------------------

(* What the loop's thread does by itself. *)
OwnSteps ==
    \/ SlotReturns \/ OpenRefused \/ OpenWithoutSocket \/ OpenUnbound
    \/ OpenBound \/ OpenDone \/ ConnectFails \/ ConnectReturnsFalse \/ Close
    \/ Collect \/ DropEvent \/ CallReadSocket \/ ReadFrame \/ Enqueue
    \/ Unlock

Calls ==
    \/ Connect \/ Disconnect \/ Recv \/ RecvAll \/ FlushRx
    \/ \E value \in BOOLEAN : SetConfigFD(value)
    \/ SetConfigOther \/ SendFails \/ Scan

Next == OwnSteps \/ Calls \/ Arrive

Spec == Init /\ [][Next]_vars

-----------------------------------------------------------------------------

Label == {"slot", "connect.open", "connect.fail", "connect.false",
          "open.register", "disconnect.close", "read", "enqueue.unlock",
          "relock"}

Frame == 1 .. MaxFrames

(* The domains of the variables. *)
TypeOK ==
    /\ state \in CanConnectionState
    /\ lastError \in CanBusError
    /\ socket \in Fds \union {-1}
    /\ {fdEnabled, bound, kernelFd, collected} \subseteq BOOLEAN
    /\ {openFds, lost, files} \subseteq SUBSET Fds /\ epoll \subseteq files
    /\ {rx, wire, batch, delivered} \subseteq Seq(Frame)
    /\ arrived \in 0 .. MaxFrames
    /\ shown \in Frame \union {InvalidFrame}
    /\ stack \in Seq(Label)

(* No socket of the interface leaks and none is closed behind its user's back:
   the sockets it has open are the one in _socket, however slots nest
   connect() and disconnect() and wherever open() gives up. *)
OwnsItsSocket == openFds = {socket} \ {-1}

(* Nobody ever sees ConnectedState without a bound socket, not even a slot
   that runs inside connect() or disconnect() (open, close, setState); this
   is what send() relies on when it writes to _socket. *)
ConnectedHasSocket == state = "Connected" => socket # -1 /\ bound

(* The pending states end with the call that entered them: between two calls
   the interface is connected or disconnected (connect, disconnect). *)
IdleIsSettled == stack = <<>> => state \in {"Connected", "Disconnected"}

(* Frames leave through recvAll() in the order they came in and it hands none
   out twice, whatever errors, reconnections and receivers come between
   readSocket(), the queue and recvAll(). *)
FramesInOrder ==
    LET all == delivered \o rx \o batch \o wire
    IN  \A i \in 1 .. Len(all) - 1 : all[i] < all[i + 1]

Pipe ==
    INSTANCE ReceivePipe
        WITH Errors <- CanBusError,
             up <- bound,
             coming <- batch \o wire,
             queued <- rx,
             received <- delivered,
             shown <- shown,
             last <- arrived,
             error <- lastError

(* recvAll() hands out all that is queued, in order and each frame once, and
   no frame is lost in silence: not between the socket, the list of
   readSocket() and _rxFrames, whatever slots do to the connection while a
   batch is read; only by flushRx(), with the socket, or with an RxError.
   recv() takes nothing: it shows the oldest frame that is still queued, as
   often as it is called, and says with an error when it may not. *)
ImplementsReceivePipe == Pipe!Spec

(* CanInterface.h, open(): "Subclasses should set useful error messages on
   failure": an open() that gives up has set an error, which is emitted, in
   this very call. *)
FailedOpenReports ==
    [][ LET fail == <<"connect.fail">> \o Tail(stack)
        IN  Running("connect.open") =>
                /\ stack' # fail
                /\ stack' = <<"slot">> \o fail => lastError' # "NoError" ]_vars

(* CanInterface.h, ConnectedState: "Connected, normal operation": between two
   calls the socket of a connected interface is watched. *)
ConnectedIsWatched == stack = <<>> /\ state = "Connected" => socket \in epoll

(* CanInterface.h, recv(): "@return Received frame, or
   CanFrame::InvalidFrame if no frame was available": it returns. *)
RecvReturns == ~Running("relock")

=============================================================================
