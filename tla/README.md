# Verification of dpflow / dplib

dplib is the library under the `dpflow` and `dpslot` programs: an event loop
with timers and watched descriptors, a CAN bus stack on Linux SocketCAN, an
Intel HEX reader, and the pieces of an application framework around them. This
directory holds TLA+ models of that code, the TLC configurations that check
them on small instances, and theorems that TLAPS checks for every value of the
constants.

Source paths below are relative to the root of the repository; the library is
under `src/src/` (implementation) and `src/include/dplib/` (headers).
`PROJECT.json` maps every definition that models code to the lines it models.

## 1. Inventory

| Component | State | Operations | Interacts with |
| --- | --- | --- | --- |
| EventDispatcher (`core/EventDispatcher`) | `m_timers` (a list), `m_files` (a map from descriptor and operation to callback), the kernel's epoll set, one id counter for all instances | `addTimer`, `removeTimer`, `addFile`, `removeFile`, `processEvents` | runs every client's callbacks inside its loop; mirrors `m_files` in epoll |
| CanInterface with SocketCanBackend (`net/can`) | `_state`, `_lastError`, `_socket`, `_fdEnabled`, `_configOptions`, `_rxFrames` under `_rxLock` | `connect`, `disconnect`, `send`, `recv`, `recvAll`, `flushRx`, `setConfigOption`, `readSocket` as a callback, and the static `availableChannels` | emits three signals in the middle of its operations; registers its socket with the dispatcher |
| CanFrame (`net/can/CanFrame.h`) | type, identifier, payload, five flags | setters, `isValid` | `send` turns it into a `can_frame` or `canfd_frame`, `readSocket` makes one of those |
| IntelHex | `m_state` (13 states), `m_rec`, `m_pos`, `m_pendingByte` | `parse` | hands each record to a callback, by reference |
| Application, Platform (`core`) | `running`, `started`, `exitStatus` | `run`, `exit`, forwarding to the dispatcher | owns the platform, which owns the dispatcher; registers the SocketCAN plugin |
| Event types (`core/Event`) | a set of ids under a mutex | `registerEventType` | nothing posts events |
| CanBus (`net/can/CanBus`) | the registry of backends | `registerPlugin`, `create`, `availableChannels` | calls the backends' functions |
| DpLoader (`dploader`) | none | `crc16`, `escape`, `unescape`, unfinished `encode` and `decode` | nothing calls it |
| dpflow (`apps/src/main.cpp`) | none of its own | wires a kill timer, a CAN interface and its slots, and runs the loop | Application, CanBus |
| Timer, Signal, ElapsedTimer, hexdump, dpslot | trivial or none | stubs and helpers | `Timer` never reaches the dispatcher |

Everything except explicit calls from other threads happens in one thread, the
one in `Application::run`. The behaviours that are hard all come from what may
happen *inside* an operation of that thread, and from the few things outside it:

- **Callbacks in a loop over live state.** A timer callback adds and removes
  timers while `processEvents` iterates over the list, which `addTimer` sorts
  and `removeTimer` shrinks.
- **Slots in the middle of an operation.** `connect`, `disconnect`, `readSocket`
  and every failure emit signals at points where the object is half way between
  two states; a slot may call any operation of the same object.
- **Two copies of one fact.** `m_files` and the epoll set; `_socket`, the
  descriptors open in the kernel, and the key in `m_files`; `_fdEnabled` and the
  socket's option; the FD flag and the size of a payload.
- **Time.** The sleep is computed from the first timer of a list that may be out
  of order, in milliseconds, and a negative number means for ever.
- **Failure.** Every system call of `open` can fail half way.
- **Other threads.** `addTimer` and `recvAll` take a mutex, so they are meant to
  be called from elsewhere; the loop itself takes none.
- **Long inputs.** The HEX parser carries its record and counters over from one
  record to the next.

What makes each component correct:

- *EventDispatcher*: a timer fires only while registered, never early, never
  nested; ids are unique; the iterator never stands on a freed node; the sleep goes
  by the first timer of the list; `m_files` and epoll agree; a timer that is due fires.
- *SocketCAN interface*: no socket leaks, connected means a bound socket, no
  pending state outlives its call, `recvAll` hands frames out in order and once, none
  is lost in silence, a failure leaves an error to look up.
- *CanFrame*: what is sent fits its buffer and is received as it was sent.
- *IntelHex*: a record reaches the callback exactly when its last digit is read,
  decoded as it is spelled.
- *Application*: `exit` ends `run`, which returns the last status; the kill timer
  ends the program. *CanBus*: `create` finds what was registered. *DpLoader*:
  `unescape` undoes `escape`, no delimiter is bare, `crc16` is the remainder it is
  meant to be.

## 2. Plan

| Order | Module | State of the work |
| --- | --- | --- |
| 1 | `EventDispatcher`, with `TimerService` as its abstract specification | modelled, checked, proved but for liveness |
| 2 | `SocketCan`: CanInterface and SocketCanBackend, with `ReceivePipe` as its abstract specification | modelled, checked, proved |
| 3 | `IntelHex`, with `HexRecords` as its abstract specification | modelled, checked, proved |
| 4 | `CanFrame` | modelled, checked, proved |
| 5 | `Application`: the program `dpflow` around the dispatcher's loop, with `exit` from a callback and from a thread, the kill timer, and the backend registry | modelled, checked, proved but for liveness |
| 6 | `DpLoader`: `escape`, `unescape`, `crc16` | modelled, checked, proved |
| 7 | the interface of `SocketCan` in place of the abstract files of `Application` | to do |
| 8 | the destructor of `SocketCanBackend` with an event already collected | to do |

`Application` extends `EventDispatcher`: `processEvents` is the dispatcher's own, step
by step, and the program's part is what starts it, calls into it and ends it. To it a
CAN interface is a descriptor that is watched. `SocketCan` leaves open whether the dispatcher
finds the callback of an event it was returned (`CallReadSocket` or `DropEvent`); 7 would put
the dispatcher's loop, with its lookup, in place of that choice.

Abstract specifications: `TimerService`, `HexRecords` and `ReceivePipe`, and a theorem for
each that the code's model implements it.

Every invariant and every refinement that a passing run checks has its theorem. What is left
to TLC is what must eventually happen. The prover's induction theorems take an operator as a
parameter, which its backends cannot instantiate; what a recursive function computes from data
of any length is proved with the first-order induction of `Recursion_proofs` instead.

## 3. The modules and the code

### EventDispatcher

`timers` is `m_timers` in list order; a node is `[id, period, due]` where `due` is
the expiry relative to the present, in ticks, `TicksPerMs` to the millisecond.
The code only compares expiries with each other and with the clock, so nothing is
lost, and `Tick` moves every `due` at once; it may come between any two steps.
`files` holds the keys of `m_files`, `epoll` what the kernel watches each
descriptor for, `open` which descriptors exist. `pc` says where `processEvents`
stands:

| `pc` | Place in `processEvents` | Steps |
| --- | --- | --- |
| `idle` | not running | `EnterWait` computes the timeout |
| `blocked` | in `epoll_wait` | `WakeTimeout`, `WakeInterrupted`, `WakeReady` |
| `files` | loop over the events | `CallFile`, `UnexpectedEvent`, `EventsDone` |
| `fileCallback` | in a file callback | `FileCallbackReturns`, and client calls |
| `timers` | range-for over the list | `FireTimer`, `StopTimerPass` |
| `timerCallback` | in a timer callback | `TimerCallbackReturns` (the rest of `fire()` and `++it`), `TimerCallbackDangles`, and client calls |
| `crashed` | undefined behaviour has been reached | none |

`AddTimer`, `RemoveTimer`, `AddFile`, `RemoveFile` are the client calls, `CloseFd`
is `close(2)` by the owner of a descriptor. `std::list::sort` is stable and
`operator<` compares expiries, so there is one order it can leave (`SortOrders`).
Three constants say what clients do: `ThreadsCall`,
`SelfRemove`, `CloseRegistered`. If a callback removes its own timer, the code
writes to a freed node and increments a dangling iterator; the model stops the
loop there (`TimerCallbackDangles`), for nothing meaningful can be said of what follows.

The lookup after `epoll_wait` is modelled as written: the event mask is taken for
the descriptor and the descriptor for the operation (`Key`).

Two details are left out. `EnterWait` reads the clock and goes to sleep in one step, so the
time between the two, by which the code sleeps longer than it computed, is not there. And
what `removeTimer` returns is not modelled: it compares the numbers of timers the wrong way
round (`EventDispatcher.cpp:38`), so it is never true, and nothing looks at it.

`TimerService` is the promise to a client with the list, the sleep and the loop
left out: which timers are registered, how old each one is, which one is running.
`EventDispatcher` maps to it with a timer's age in place of its expiry.

### SocketCan

`stack` is the call stack of the loop's thread: labels of operations that wait for
slots to return. `setState` and `setError` push `"slot"` over the label of what is
left to do, so a slot may call `connect`, `disconnect`, `send`, `recv`, `recvAll`,
`flushRx` or `setConfigOption` (as `SlotCalls` says) before the operation goes on:

| Label on the stack | What is left |
| --- | --- |
| `connect.open` | `open()`, and with it `OpenRefused`, `OpenWithoutSocket`, `OpenUnbound`, `OpenBound` |
| `open.register` | the end of `open()`: `addFile`, and `connect` clears the error (`OpenDone`) |
| `connect.fail`, `connect.false` | `connect` sets `Disconnected`, and returns false |
| `disconnect.close` | `close()` |
| `read` | the loop in `readSocket`, one frame per step |
| `enqueue.unlock` | `framesReceived` is being emitted with `_rxLock` held |
| `relock` | the thread waits for the lock it holds |

Frames are numbers in the order of arrival and move from `wire` (the kernel) to `batch` (the
list in `readSocket`) to `rx` (`_rxFrames`) to `delivered`, which is what `recvAll` has handed
out. `recv` returns the first frame of `rx` and leaves it there: `shown` is what it returned
last. Both are history variables. Another thread may call either (`ThreadMayReceive`), which
waits while the loop's thread has the lock. The kernel's part is small: a new socket gets any
free number and default options, `close` removes a descriptor from epoll and drops its frames.
`Scan` is `availableChannels`, which opens a socket and never closes it: the number goes to
`lost`, and no later socket gets it. The dispatcher appears as `files`, `epoll` and `collected`
(an event that `epoll_wait` has returned and the loop has not yet dispatched); the event then
reaches `readSocket` (`CallReadSocket`) or nobody (`DropEvent`), for which of the two it is the
lookup in `EventDispatcher` decides. With the lookup as it is, it is nobody for any socket with
a number from 3 on. What `SocketCan` says of frames is therefore what the interface does with
those it is called for.

`ReceivePipe` is the promise to the receiver with the call stack, the descriptors and the states
of the connection left out. `SocketCan` maps to it with `batch` and, behind it, `wire` as what
is on its way. `recvAll` hands out all that is queued at once, in order and each frame once;
`recv` shows the oldest, as often as it is called, and takes it from nobody, so `recvAll` still
hands it out; a frame is lost only to `flushRx`, with the socket (the last ones, never one that
was read before), or with an `RxError`. The pipe begins at the socket: what the kernel or the
bus drop before is not the interface's.

### IntelHex

One step is one call of `parse(uint8_t)`. A character is a start code, a digit or
anything else. The number of values of a digit is the constant `Radix`, 16 in the
code; a byte has two digits and wraps at `Radix * Radix`, so a smaller radix has
the same states and the same overflows. `input` is the character the call got, and `call`
what the callback got from it. The callback has a reference to the record and may take the data out.
`BareRecords` says whether the input has records without a `':'`.

`HexRecords` is the reader without states: it gets the same characters, may pass over a digit
only while it reads no record, and a record is the digits since its start code: it is handed on
when their number is the one its count byte asks for, and it is decoded from the digits, with
the check byte *chosen* as the one that makes the sum zero. The refinement mapping in `IntelHex`
computes the digits read so far from the parser's state, so it needs no history.

### CanFrame

A frame is a record; each setter is an operator from frames to frames. `Encode` is
what `send` writes, `Decode` what `readSocket` makes of it, setter by setter in the
order of the code. `Forward` sends the frame and goes on with what was received,
so `Edit` and `Forward` reach every frame that any mixture of setters and sockets
can produce. The payload is its size, an identifier a number below two limits.

### Application

`mainAt` says how far `main` is; every other variable of the program is a member of
`Application` (`started`, `running`, `exitStatus`), the names in the backend registry,
the id of the kill timer, or what `run` returned.

| `mainAt` | What is next in `main` | Steps |
| --- | --- | --- |
| `start` | the constructor of `Application` | `AppStart`, or `Quit` for `--help` and `--version` |
| `started` | `addTimer` of the kill timer | `ArmKillTimer`, or `Quit` for `--scan` |
| `armed` | the interface's name and `CanBus::create` | `CreateBus`, `NoChannel` |
| `created` | `bus->connect()` | `ConnectBus` |
| `wired` | `app.run()` | `Run`; slots of `connect` may call `exit` before |
| `run` | the loop in `run` | `Pass`, `RunReturns`; callbacks make `ProgramCalls` and `Exit` |
| `returned` | another `run` | `RunRefused` |
| `crashed` | an unknown backend was called, or `substr` threw | none |

`Pass(step)` is a step of `processEvents`; the first one of a pass needs `running`. The
kill timer's callback is nothing but `exit(0)`, so that happens as it is called, and the
program does nothing else there. `asked` is a history variable: the status of the last
`exit` since `run` began.

### DpLoader

A byte is the set of its bits that are one, and so is the checksum: exclusive or is the
symmetric difference and a shift moves the elements, so `crc16` is modelled bit by bit
without arithmetic. `Escape` is one round of the loops in `escape` and `crc16`; `Receive`
is the line, which may lose the end; `UnescapeByte` is one round of the loop in `unescape`,
which skips an escape character without looking for the end (`Overrun`). The reference for
the checksum is long division of polynomials (`Remainder`), and for the escaping the
message itself.

## 4. What the runs check

| Run | Question | Result |
| --- | --- | --- |
| `clients` | Do threads and callbacks, the firing one's own included, that add and remove timers break the promise of `TimerService` or the uniqueness of ids; can the epoll set watch for something `m_files` does not have, when descriptors are closed and reused behind the dispatcher's back? | No; the reverse of the last does happen. |
| `app` | The whole program, with one thread but for `exit`, and orderly clients: does the iterator stay valid, does the sleep go by the first timer of the list, do `m_files` and epoll agree; does `run` return, for an `exit` of its own time and with the last status; does the kill timer end it; does a loop that keeps being woken fire every timer? | Yes, although the list does not stay sorted; but when the first timer is overdue by a millisecond or more the loop sleeps without limit, so the last two need something that wakes it. |
| `loader` | Does `unescape` undo `escape`, when does it read behind the end, is a delimiter ever bare, is `crc16` the remainder by its polynomial? | It does; only when the end was lost; no; yes. |
| `sorted` | Is the list sorted when the scan stops, as the comment says? | No (finding). |
| `unexpected` | Is an event whose key is not found always one nobody registered? | No (finding). |
| `can_slots` | With operations nested in slots, failures of every system call and a second receiver: do sockets leak, is a connected interface without a bound socket, does a pending state remain, does `recvAll` hand frames out of order or twice, does `recv` show one that is not the oldest or take one, is one lost that was neither flushed, nor closed away, nor reported as bad? | No. |
| `can_silent` | Does an `open` that gives up set an error? | Not one that is refused because an earlier one left the socket open (finding). |
| `can_deaf` | Is a connected interface always watched? | No (finding). |
| `can_relock` | Does `recv` return? | Not when called from a slot of `framesReceived` (finding). |
| `hex_records` | With a `':'` before each record, in both modes: exactly the records the input spells? | Yes. |
| `hex_bare` | And without the `':'` that only strict mode is said to require? | No (finding). |
| `can_frames` | After any setters and sockets: does a payload fit, is a frame received as it was sent, can it be sent on? | Yes. |

Bounds, and why they are enough:

- *Timers*: two in `clients`, three in `app`. A list of two has all orders; the third
  gives one that is neither first nor last when another is removed or rearmed. Periods 0
  and 1 in `app` make a timer rearmed for later stand before one that is due at once, and
  `TicksPerMs` is 2 there, where rounding to milliseconds is the point, and 1 elsewhere.
  Overdue expiries are tracked to `MaxLate`, which is beyond one millisecond's worth of
  ticks where the sign of the timeout matters.
- *Files*: descriptors 0 and 1 in `clients` include the numbers that are also values of
  `FileOperation`, and 1 is the value of `EPOLLIN`, so the swapped key is found in
  some states and not in others; `MaxEvents` is 2 and not 10. In `app` one is enough to
  wake the loop; since the swapped key of one descriptor is never that of another operation on
  it, `CallFile` does not happen there and is left to `clients`. With two, `app` has more
  states than can be searched for liveness in a few minutes.
- *Application*: one delay for the kill timer, or none; two statuses, so that the last and
  the first of two differ; a registered backend and one that is not.
- *DpLoader*: messages of up to three bytes out of six: none of the bits, the three special
  bytes, the top bit, all bits. Three bytes put every special byte first, last and between;
  24 bits pass the checksum's 16.
- *SocketCan*: depth 5 lets a slot of a nested operation call yet another one; two
  descriptor numbers let a new socket get another number or the same, and let scans
  use up one of them or both; two frames have an order. Slots of `can_slots` call
  `connect`, `disconnect`, `recv` and `recvAll`; the calls that only set an error or an option
  (`send`, `setConfigOption`) and `flushRx` happen between the calls of the loop there.
- *IntelHex*: radix 2 gives lengths 0 to 3 (no data, one, several, the largest a
  byte holds) and sums that wrap several times.
- *CanFrame*: two standard and two extended identifiers and one out of range; sizes
  0, 8, 9, 12, 64 and 65 are on both sides of every limit in `isValid`.

Three runs allow deadlock: `can_slots`, since with `Relock` the thread really stops,
which is what `can_relock` shows; `clients`, since with `SelfRemove` the model ends
where the loop writes to a freed node (`pc = "crashed"`); and `loader`, which ends with
the message. The mutants in `PROJECT.json` (operators named "Mutant of ..."
in the modules) are plausible bugs; each property fails for its own.

### Fairness

- `Application!AppFairSpec`: the main thread takes its own steps (`main` goes on, `run`
  calls `processEvents` again and again, callbacks return), and time passes. Nothing is
  assumed of clients, other threads or descriptors. `WokenLoopFiresTimers` and
  `KillTimerEndsRun` have the premise that the loop keeps being woken, for a first timer
  that is overdue by a millisecond gives a negative timeout, and the loop then sleeps until
  something else wakes it. `ExitEndsRun` needs no such premise, but leaves out an `exit`
  from another thread while the loop sleeps, which does not wake it; and it rests on
  `MaxTimerId`, for callbacks that add due timers for ever keep a pass from ending. That
  callbacks return is an assumption on the program: the slot of `main.cpp` that receives
  in a loop does not (`can_relock`).
- `SocketCan` has no liveness. That what arrives is received would need the dispatcher to
  call `readSocket` again and again, and `unexpected` shows that its lookup does not.
- `IntelHex`, `CanFrame` and `DpLoader` have no liveness: they only answer to calls.

## 5. What is proved

All theorems hold for every value of the constants that the named `ASSUME`s allow:
any number of descriptors, timers, periods, any depth of nesting, any radix, messages and
records of any length.

`Recursion_proofs` holds what the other modules need for data of any length. `Induction` says
that a set with 0 and the successor of each of its numbers has all of them. It speaks of a set
instead of an operator, so that its instances are first-order; it comes from the library's
fact that strict inclusion of finite sets is well-founded, applied to the intervals `1 .. n` for
the numbers `n` the set lacks, of which one would be the smallest. `RecursionExists` gets from
it that a function defined by recursion over `0 .. n` exists and satisfies its equations, which
the language leaves to the reader to show.

`EventDispatcher_proofs`:

- `TypeCorrect`, `IdsStayUnique`, `EpollStaysWithinFiles`, without further assumptions.
  `TypeOK` is not inductive: that there is an event whose callback is running, and that
  the cursor is set only while the loop is over the list, follow from where `processEvents`
  stands. `TypeInv` is `TypeOK` with `LoopShape`, which says so. `UniqueIds`
  needs lemmas on the list: sorting by a permutation, removing at an index and rearming
  in place keep ids apart; `addTimer` uses an id above all others.
- `OwnedFilesMirrorEpoll`, if `~CloseRegistered`: owners call `removeFile` before `close`.
  It is stronger than `EpollWithinFiles` and false without the assumption.
- `IteratorStaysValid`, if `~SelfRemove`: no callback removes its own timer. It rests on
  `IdsStayUnique`, for removing a timer must not remove the node of another.
- `SleepGoesByFirstTimer`, if `~ThreadsCall`: nobody adds or removes a timer while the loop
  sleeps. A sleep with a limit ends when the first timer expires, to the millisecond; one
  without limit is for an empty list, or for a first timer that is overdue by a millisecond or
  more, whose negative rest `epoll_wait` takes for no limit. `CeilBounds` is the rounding to
  milliseconds, for any `TicksPerMs`, and `CeilNegative` says when it is below zero; the clock then
  takes the same from the sleep and from the expiry, down to the bound `MaxLate`.

`TimerService_proofs`: `DispatcherImplementsTimerService`, the refinement that `clients`
checks, without assumptions on clients, those that remove their own timer included. A list is
seen by a client as a function from ids to periods and ages (`View`), whatever its order; each
operation has a lemma that says what it does to the view. `Mapped` is the invariant: the types,
unique ids, and that between two callbacks the cursor stands on a node of the list (`CursorOK`).

`SocketCan_proofs`:

- `InterfaceTypeCorrect`, group by group of the variables; that only known labels are on the
  stack comes from `Settling` below.
- `FramesStayInOrder`: `QueuesInOrder` says that each of the four queues is increasing, that
  each lies before all those it is filled from, and that no number has been given out that is
  still to come; `FramesInOrder` for the four in a row follows. `EveryStepMoves` lists the ways
  a step can move frames, so slots at any depth need no case of their own.
- `NoSocketLeaks` and `ConnectedStateHasSocket`: inductive as they stand, for any depth
  of nesting, because each step that touches the socket reads `_socket` in that same step;
  that is the point of modelling every call between two signals as one step.
- `IdleStateIsSettled`: `Settling` says that a pending state has its caller on the stack
  (`ConnectionPending` has a `connect.open` or `connect.fail`, `DisconnectPending` a
  `disconnect.close`), wherever the slots above it have got to. Lemmas `Pushed` and
  `Popped` say which labels a push or a pop leaves.
- `InterfaceImplementsPipe`, without assumptions on slots: the refinement that `can_slots`
  checks: what `recvAll` hands out, and that `recv` shows the oldest frame and takes none.
  `RecvIsPiped` is the part of `recv`. `PipeInv` adds to the invariants above that frames are in
  `batch` only while a `read` is on the stack (`BatchHasReader`), so a callback never begins by
  throwing away what another one has read, and that the kernel holds frames only for a socket
  that is open and bound (`LineIsOpen`), so a new socket replaces nothing. `Parts`, `OneRead`
  and `AppendedBehind` say what cutting, reading and adding do to the two queues in a row.

`IntelHex_proofs`:

- `ParserTypeCorrect`: what overflows a byte or an address is cut off where the code cuts it.
- `DataIsComplete`, if every record has its `':'` or the parser is strict. `Progress` says
  per state how much data there is: none before the data states, `m_pos` bytes within them,
  as many as the length after; and `m_pos < length` keeps the 8-bit counter from wrapping.
- `ParserImplementsHexRecords`, under the same condition, without which it is false
  (`hex_bare`). Both sides get the same characters. The mapping writes out the digits read so
  far from the parser's state, so each step must put exactly the digit it got behind them.
  Beside `TypeOK` and `Progress` that needs `Pending`: half a byte in `m_pendingByte` is a digit
  in the upper place, half an address a byte in the upper one. `DigitsSpell` says that what is
  written out is read back as the same bytes, `DigitsGrow` that one byte more adds its two
  digits, and `ChecksumIsCheckByte` that the sum of the record, cut to a byte at every step and
  complemented, is the byte that makes the whole sum zero: by `Induction` the sums of both agree
  up to multiples of 256, or of `Radix * Radix`. Each action then has a lemma.

`CanFrame_proofs`:

- `FrameTypeCorrect`, `SwitchMakesFD` and `NoOverflow`. Each setter and `readSocket` give a
  `Consistent` frame; `PayloadFits` then follows from `isValid`.
- `SocketsKeepFrames` and `SocketsKeepFramesSendable`, for every frame that is valid to send.
  `DecodedFields` follows the setters that `readSocket` calls, in their order, and `WhatArrives`
  puts them behind what `send` wrote; a frame of more than 8 bytes comes back as an FD frame
  because only an FD frame was valid with so many.

`Application_proofs`:

- `ProgramIsAClient`: every step of the program is a step of `EventDispatcher` or leaves its
  variables alone, so each theorem above holds of the program; `ProgramIteratorValid`,
  `ProgramFilesMirrorEpoll` and `ProgramSleepGoesByFirstTimer` say so for three that `app` checks.
- `RunReturnsWhatExitSaid`: `RunInv` adds that nobody but `run` is inside `processEvents`, and
  that while `run` is, `running` is false only after an `exit` whose status is in `exitStatus`.
- `ProgramImplementsTimerService`: the callbacks of the whole program are called as
  `TimerService` promises.
- `ProgramTypeCorrect`, from `TypeCorrect` of the dispatcher: the kill timer's id is below the
  counter.

`DpLoader_proofs`, for messages of any length over any bytes:

- `UnescapeInvertsEscape`, `NoOverrun`, `DelimitersStayMarked` and `TypeCorrect`. `Layout` says
  where in the escaped data each byte of the message stands (the history `starts`), what is
  there as far as it arrived, and that `unescape` always stands between two of them.
- `CrcDivides`: `crc16` is the remainder of the long division of the message, with 16 zero bits
  behind it, by the polynomial. A polynomial is the set of its exponents, so that adding is the
  symmetric difference and needs no arithmetic. `DividedSteps` takes the recursive division
  apart into its steps, by `Induction`; `DivisionSkips` says that it does nothing at places
  above the highest term; `CrcByteDivides` that dividing a message with one byte more is
  dividing it without and then doing what `crc16` does for that byte; `MessageGrows` that a byte
  more moves the message by eight places. With `MessageTerms`, which bounds its terms, and
  `TypeOK`, `CrcIsRemainder` is inductive.

Only model-checked is what must eventually happen: `ExitEndsRun`, `KillTimerEndsRun` and
`WokenLoopFiresTimers`; liveness under fairness and `ENABLED` are out
of the prover's reach. The six findings are TLC's counterexamples.

## 6. Findings

Each is a run that TLC refutes, with the line that says otherwise; details in
`PROJECT.json`.

1. `sorted`: `fire()` rearms a timer without sorting, so the scan of `processEvents`
   and the sleep go by an unsorted list (`EventDispatcher.cpp:145`).
2. `unexpected`: the lookup of an event swaps mask and descriptor
   (`EventDispatcher.cpp:131`).
3. `can_deaf`: `close()` leaves its key in `m_files`, and a reconnection that gets the
   same descriptor number is not watched (`SocketCanBackend.cpp:311`).
4. `can_relock`: `framesReceived` is emitted under `_rxLock`, which `recv` takes
   (`CanInterface.cpp:69`); the slot of `main.cpp` does just that. In `dpflow` finding 2
   hides it: the swapped lookup keeps `readSocket` from being called at all.
5. `hex_bare`: without strict mode the data of a record is kept for the next
   (`IntelHex.cpp:105`).
6. `can_silent`: `open()` refuses an open socket without setting an error
   (`SocketCanBackend.cpp:261`), which `CanInterface.h:308` asks of it. A failed `bind` leaves such
   a socket, in state `Disconnected`, in which `disconnect()` does nothing; so every later
   `connect()` fails, and `error()` says what was there before.

Met while modelling, in the models as the code has it, and without a run of their own: a scan
for channels leaves its socket open (`SocketCanBackend.cpp:86`); `create` calls an empty
function for a backend nobody registered (`CanBus.h:75`); an `exit` before `run` is lost
(`Application.cpp:35`) and `run` cannot be called twice; `setConfigOption` for FD reaches only
the flag or only the socket (`SocketCanBackend.cpp:151`); `recv` returns the oldest frame and
leaves it in the queue (`CanInterface.cpp:142`), where `CanInterface.h:173` says "the
most-recently received CAN frame"; frames stay queued over a disconnection; a slot of
`ConnectionPending` that disconnects and connects leaves the outer `connect` reporting
`Disconnected` over an open socket; `isValid` takes FD frames of fewer than 8 bytes, which its
comment does not list (`CanFrame.h:171`).

## 7. What is not modelled

- *Event types*: `registerEventType` is one insertion into a set under a mutex, and nothing
  calls it; events are plain objects that nothing posts.
- *`decode` and `encode` of the boot loader*: unfinished and not called. `decode` takes the
  number of bytes behind the last end of frame for the length, which is 0 for a complete frame,
  and then reads in front of its buffer; `encode` returns nothing.
- *The list of channels* that `availableChannels` returns; that a scan takes a descriptor and
  keeps it is in `SocketCan`.
- *Slots of `main.cpp`* as they are written: in `Application` callbacks call what they like and
  return.
- *Data races.* `processEvents` does not take `m_mutex`; a call from another thread during
  the scan is undefined behaviour with no bounded set of outcomes. In the models other threads
  call only while the loop sleeps, or where a lock orders them.
- *Lifetime.* Destructors, and callbacks bound to destroyed objects.
- *SocketCAN's bitrate, statistics and bus state calls* (libsocketcan and netlink): they read
  or write the network device and leave the interface object as it is.
- *The transmit queue* of `CanInterface`: nothing fills it.
- *Timestamps, logging, formatting.*
- *Timer, Signal, ElapsedTimer, hexdump, dpslot*: stubs and helpers without shared state.

## 8. Running

    tlc -config EventDispatcher_clients.cfg EventDispatcher.tla
    tlapm EventDispatcher_proofs.tla

and likewise for the other configurations (`<module>_<question>.cfg`) and proof modules
(`<module>_proofs.tla`).
