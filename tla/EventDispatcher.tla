-------------------------- MODULE EventDispatcher --------------------------
(***************************************************************************)
(* dplib's EventDispatcher: the list of timers, the map of watched files,  *)
(* the epoll set that mirrors it, and the loop processEvents() runs.       *)
(*                                                                         *)
(* Time is counted in ticks, TicksPerMs to the millisecond, and an expiry  *)
(* is kept relative to the present: due = expiry - now().  The code only   *)
(* ever compares expiries with each other and with now(), so nothing is    *)
(* lost, and the clock needs no bound.                                     *)
(*                                                                         *)
(* Every step of processEvents() that reads state a client may change is a *)
(* step here; Tick may come between any two of them.  Clients call the     *)
(* dispatcher between two passes, from a callback, and, if ThreadsCall,    *)
(* from another thread while the loop sleeps in epoll_wait.                *)
(***************************************************************************)
EXTENDS Integers, Sequences, SequencesExt, FiniteSets, FiniteSetsExt, Functions

CONSTANTS
    Fds,             \* file descriptors the program may hold
    Periods,         \* timer periods clients ask for, in milliseconds
    TicksPerMs,      \* clock ticks in a millisecond
    MaxLate,         \* bound: an expiry is not tracked further in the past
    MaxTimerId,      \* bound: ids addTimer hands out
    MaxEvents,       \* events one epoll_wait may return (10 in the code)
    ThreadsCall,     \* another thread uses the dispatcher while it sleeps
    SelfRemove,      \* a timer may be removed while its callback runs
    CloseRegistered  \* a watched file may be closed without removeFile

ASSUME DispatcherConstants ==
    /\ Fds \subseteq Nat /\ IsFiniteSet(Fds)
    /\ Periods \subseteq Nat
    /\ TicksPerMs \in Nat \ {0}
    /\ MaxLate \in Nat
    /\ MaxTimerId \in Nat
    /\ MaxEvents \in Nat \ {0}
    /\ {ThreadsCall, SelfRemove, CloseRegistered} \subseteq BOOLEAN

VARIABLES
    timers,       \* m_timers, a list of [id, period, due]
    nextTimerId,  \* the counter of that name
    files,        \* keys of m_files: <<fd, operation>>
    open,         \* descriptors that are open
    epoll,        \* the epoll set: fd -> the flag it is watched for, or 0
    pc,           \* where processEvents() stands
    wait,         \* ticks left of the epoll_wait, or Forever
    events,       \* what epoll_wait returned and is not yet dispatched
    cursor        \* id of the node the loop over m_timers is at, 0 at the end

loopVars == <<pc, wait, events, cursor>>
fileVars == <<files, open, epoll>>
timerVars == <<timers, nextTimerId>>
vars == <<timerVars, fileVars, loopVars>>

(* enum FileOperation, and the flags of <sys/epoll.h>. *)
Read == 0
Write == 1
Error == 2
FileOperation == {Read, Write, Error}

EPOLLIN == 1
EPOLLOUT == 4
EPOLLERR == 8
EPOLLHUP == 16

(* The switch of addFile and removeFile. *)
Flag(op) == CASE op = Read -> EPOLLIN
              [] op = Write -> EPOLLOUT
              [] op = Error -> EPOLLERR

(* epoll_wait reports any of the watched flag, EPOLLERR and EPOLLHUP. *)
Masks(flag) ==
    { MapThenSumSet(LAMBDA f : f, S) :
        S \in (SUBSET {flag, EPOLLERR, EPOLLHUP}) \ {{}} }

Forever == -1

PC == {"idle", "blocked", "files", "fileCallback", "timers", "timerCallback",
       "crashed"}

Init ==
    /\ timers = <<>>
    /\ nextTimerId = 1
    /\ files = {}
    /\ open = Fds
    /\ epoll = [fd \in Fds |-> 0]
    /\ pc = "idle"
    /\ wait = Forever
    /\ events = <<>>
    /\ cursor = 0

(***************************************************************************)
(* The timer list.                                                         *)
(***************************************************************************)

Ids == { timers[i].id : i \in DOMAIN timers }

Info(id) == timers[CHOOSE i \in DOMAIN timers : timers[i].id = id]

(* ++it: the node behind the one with this id, in the list as it is now. *)
Successor(id) ==
    LET i == CHOOSE i \in DOMAIN timers : timers[i].id = id
    IN  IF i < Len(timers) THEN timers[i + 1].id ELSE 0

FirstTimer == IF timers = <<>> THEN 0 ELSE Head(timers).id

(* std::list::sort with operator<: by expiry, equal elements keep their
   order.  The index orders that sort s; there is exactly one. *)
SortOrders(s) ==
    { o \in Injection(1 .. Len(s), 1 .. Len(s)) :
        \A i, j \in 1 .. Len(s) :
            i < j => \/ s[o[i]].due < s[o[j]].due
                     \/ s[o[i]].due = s[o[j]].due /\ o[i] < o[j] }

ClientMayCall ==
    \/ pc \in {"idle", "fileCallback", "timerCallback"}
    \/ pc = "blocked" /\ ThreadsCall

AddTimer(p) ==
    /\ ClientMayCall
    /\ nextTimerId <= MaxTimerId
    /\ LET grown == Append(timers, [id |-> nextTimerId, period |-> p,
                                    due |-> p * TicksPerMs])
       IN  \E o \in SortOrders(grown) :
               timers' = [i \in 1 .. Len(grown) |-> grown[o[i]]]
    /\ nextTimerId' = nextTimerId + 1
    /\ UNCHANGED <<fileVars, loopVars>>

(* Mutant of RemoveTimer: the id is handed out again. *)
RemoveTimerReusingId(id) ==
    /\ ClientMayCall
    /\ (pc = "timerCallback" /\ cursor = id) => SelfRemove
    /\ \E i \in DOMAIN timers :
           timers[i].id = id /\ timers' = RemoveAt(timers, i)
    /\ nextTimerId' = id
    /\ UNCHANGED <<fileVars, loopVars>>

(* remove_if drops every node with the id; UniqueIds says there is one.  What
   removeTimer() returns, which is never true, is left out. *)
RemoveTimer(id) ==
    /\ ClientMayCall
    /\ (pc = "timerCallback" /\ cursor = id) => SelfRemove
    /\ \E i \in DOMAIN timers :
           timers[i].id = id /\ timers' = RemoveAt(timers, i)
    /\ UNCHANGED <<nextTimerId, fileVars, loopVars>>

(***************************************************************************)
(* The watched files.  Calls that return false change nothing.             *)
(***************************************************************************)

(* Mutant of AddFile: the key is recorded whatever EPOLL_CTL_ADD says. *)
AddFileUnchecked(fd, op) ==
    /\ ClientMayCall
    /\ <<fd, op>> \notin files
    /\ fd \in open
    /\ epoll' = [epoll EXCEPT ![fd] = IF @ = 0 THEN Flag(op) ELSE @]
    /\ files' = files \union {<<fd, op>>}
    /\ UNCHANGED <<open, timerVars, loopVars>>

(* Mutant of AddFile: the key is recorded with the flag for the operation. *)
AddFileByFlag(fd, op) ==
    /\ ClientMayCall
    /\ <<fd, op>> \notin files
    /\ fd \in open
    /\ epoll[fd] = 0
    /\ epoll' = [epoll EXCEPT ![fd] = Flag(op)]
    /\ files' = files \union {<<fd, Flag(op)>>}
    /\ UNCHANGED <<open, timerVars, loopVars>>

(* EPOLL_CTL_ADD fails for a descriptor that is closed or already in the
   epoll set; the key is recorded only after it succeeded. *)
AddFile(fd, op) ==
    /\ ClientMayCall
    /\ <<fd, op>> \notin files
    /\ fd \in open
    /\ epoll[fd] = 0
    /\ epoll' = [epoll EXCEPT ![fd] = Flag(op)]
    /\ files' = files \union {<<fd, op>>}
    /\ UNCHANGED <<open, timerVars, loopVars>>

(* Mutant of RemoveFile: the key is erased, the epoll set is left alone. *)
RemoveFileKeepingEpoll(fd, op) ==
    /\ ClientMayCall
    /\ <<fd, op>> \in files
    /\ files' = files \ {<<fd, op>>}
    /\ UNCHANGED <<open, epoll, timerVars, loopVars>>

(* EPOLL_CTL_DEL fails for a descriptor that is not in the epoll set, and
   takes it out whatever flag it was added with. *)
RemoveFile(fd, op) ==
    /\ ClientMayCall
    /\ <<fd, op>> \in files
    /\ epoll[fd] # 0
    /\ epoll' = [epoll EXCEPT ![fd] = 0]
    /\ files' = files \ {<<fd, op>>}
    /\ UNCHANGED <<open, timerVars, loopVars>>

(* The owner closes the descriptor: the kernel drops it from the epoll set,
   m_files is not told. *)
CloseFd(fd) ==
    /\ ClientMayCall
    /\ fd \in open
    /\ CloseRegistered \/ \A op \in FileOperation : <<fd, op>> \notin files
    /\ open' = open \ {fd}
    /\ epoll' = [epoll EXCEPT ![fd] = 0]
    /\ UNCHANGED <<files, timerVars, loopVars>>

(* A later open() hands the number out again. *)
OpenFd(fd) ==
    /\ ClientMayCall
    /\ fd \notin open
    /\ open' = open \union {fd}
    /\ UNCHANGED <<files, epoll, timerVars, loopVars>>

(***************************************************************************)
(* processEvents().                                                        *)
(***************************************************************************)

(* Mutant of CeilMs: duration_cast, which rounds towards the past. *)
FloorMs(d) == d \div TicksPerMs

(* std::chrono::ceil<milliseconds> of a duration in ticks. *)
CeilMs(d) == -((-d) \div TicksPerMs)

(* -1 without a timer; else what is left of the first timer in the list,
   which is negative when that timer is overdue by a millisecond. *)
timeoutMs == IF timers = <<>> THEN -1 ELSE CeilMs(Head(timers).due)

(* epoll_wait takes any negative timeout for an unlimited one. *)
EpollTimeout(ms) == IF ms < 0 THEN Forever ELSE ms * TicksPerMs

(* Reading the clock and going to sleep are one step: the time between them,
   by which the code sleeps longer than it computed, is left out. *)
EnterWait ==
    /\ pc = "idle"
    /\ pc' = "blocked"
    /\ wait' = EpollTimeout(timeoutMs)
    /\ UNCHANGED <<events, cursor, timerVars, fileVars>>

StartTimerPass ==
    /\ pc' = "timers"
    /\ cursor' = FirstTimer

(* epoll_wait returns 0 at the timeout, -1 when a signal interrupts it:
   either way the loop over the events is empty. *)
WakeWithoutEvents ==
    /\ pc = "blocked"
    /\ wait' = Forever
    /\ StartTimerPass
    /\ UNCHANGED <<events, timerVars, fileVars>>

WakeTimeout == wait = 0 /\ WakeWithoutEvents
WakeInterrupted == WakeWithoutEvents

(* Between one and MaxEvents descriptors of the epoll set are ready. *)
WakeReady ==
    /\ pc = "blocked"
    /\ \E fds \in SetToAllKPermutations({fd \in Fds : epoll[fd] # 0}) :
           /\ Len(fds) \in 1 .. MaxEvents
           /\ \E masks \in [1 .. Len(fds) ->
                               UNION {Masks(epoll[fd]) : fd \in Range(fds)}] :
                  /\ \A i \in 1 .. Len(fds) : masks[i] \in Masks(epoll[fds[i]])
                  /\ events' = [i \in 1 .. Len(fds) |->
                                    [fd |-> fds[i], events |-> masks[i]]]
    /\ wait' = Forever
    /\ pc' = "files"
    /\ UNCHANGED <<cursor, timerVars, fileVars>>

(* The key looked up for an event: the code takes the event mask for the
   descriptor and the descriptor for the operation. *)
Key(e) == <<e.events, e.fd>>

CallFile ==
    /\ pc = "files"
    /\ events # <<>>
    /\ Key(Head(events)) \in files
    /\ pc' = "fileCallback"
    /\ UNCHANGED <<wait, events, cursor, timerVars, fileVars>>

FileCallbackReturns ==
    /\ pc = "fileCallback"
    /\ pc' = "files"
    /\ events' = Tail(events)
    /\ UNCHANGED <<wait, cursor, timerVars, fileVars>>

(* The else branch of the lookup. *)
UnexpectedEvent ==
    /\ pc = "files"
    /\ events # <<>>
    /\ Key(Head(events)) \notin files
    /\ events' = Tail(events)
    /\ UNCHANGED <<pc, wait, cursor, timerVars, fileVars>>

EventsDone ==
    /\ pc = "files"
    /\ events = <<>>
    /\ StartTimerPass
    /\ UNCHANGED <<wait, events, timerVars, fileVars>>

FireTimer ==
    /\ pc = "timers"
    /\ cursor # 0
    /\ Info(cursor).due <= 0
    /\ pc' = "timerCallback"
    /\ UNCHANGED <<wait, events, cursor, timerVars, fileVars>>

(* Mutants of TimerCallbackReturns: the next expiry counted from the last
   one; one timer per pass; a timer dropped after it fired, with the
   iterator left on its node. *)
RearmFromExpiry ==
    /\ pc = "timerCallback"
    /\ cursor \in Ids
    /\ timers' = [i \in DOMAIN timers |->
                     IF timers[i].id = cursor
                     THEN [timers[i] EXCEPT !.due = @ + timers[i].period * TicksPerMs]
                     ELSE timers[i]]
    /\ cursor' = Successor(cursor)
    /\ pc' = "timers"
    /\ UNCHANGED <<wait, events, nextTimerId, fileVars>>

FireOnePerPass ==
    /\ pc = "timerCallback"
    /\ cursor \in Ids
    /\ timers' = [i \in DOMAIN timers |->
                     IF timers[i].id = cursor
                     THEN [timers[i] EXCEPT !.due = timers[i].period * TicksPerMs]
                     ELSE timers[i]]
    /\ cursor' = 0
    /\ pc' = "timers"
    /\ UNCHANGED <<wait, events, nextTimerId, fileVars>>

DropFiredTimer ==
    /\ pc = "timerCallback"
    /\ cursor \in Ids
    /\ timers' = SelectSeq(timers, LAMBDA t : t.id # cursor)
    /\ pc' = "timers"
    /\ UNCHANGED <<cursor, wait, events, nextTimerId, fileVars>>

(* fire() rearms the timer once func() has returned, then the loop goes on
   to the next node. *)
TimerCallbackReturns ==
    /\ pc = "timerCallback"
    /\ cursor \in Ids
    /\ timers' = [i \in DOMAIN timers |->
                     IF timers[i].id = cursor
                     THEN [timers[i] EXCEPT !.due = timers[i].period * TicksPerMs]
                     ELSE timers[i]]
    /\ cursor' = Successor(cursor)
    /\ pc' = "timers"
    /\ UNCHANGED <<wait, events, nextTimerId, fileVars>>

(* The node was freed while its callback ran: fire() writes to it and the
   loop follows its next pointer.  What happens next is undefined; the model
   ends the loop there. *)
TimerCallbackDangles ==
    /\ pc = "timerCallback"
    /\ cursor \notin Ids
    /\ cursor' = 0
    /\ pc' = "crashed"
    /\ UNCHANGED <<wait, events, timerVars, fileVars>>

(* The end of the list, or a timer that is not expired: "It's a sorted list,
   so we can stop now". *)
StopTimerPass ==
    /\ pc = "timers"
    /\ cursor # 0 => Info(cursor).due > 0
    /\ cursor' = 0
    /\ pc' = "idle"
    /\ UNCHANGED <<wait, events, timerVars, fileVars>>

Tick ==
    /\ pc # "crashed"
    /\ timers' = [i \in DOMAIN timers |->
                     IF timers[i].due > -MaxLate
                     THEN [timers[i] EXCEPT !.due = @ - 1]
                     ELSE timers[i]]
    /\ wait' = IF wait > 0 THEN wait - 1 ELSE wait
    /\ UNCHANGED <<nextTimerId, fileVars, pc, events, cursor>>

Loop ==
    \/ EnterWait \/ WakeTimeout \/ WakeInterrupted \/ WakeReady
    \/ CallFile \/ FileCallbackReturns \/ UnexpectedEvent \/ EventsDone
    \/ FireTimer \/ TimerCallbackReturns \/ TimerCallbackDangles
    \/ StopTimerPass

Client ==
    \/ \E p \in Periods : AddTimer(p)
    \/ \E id \in Ids : RemoveTimer(id)
    \/ \E fd \in Fds, op \in FileOperation : AddFile(fd, op) \/ RemoveFile(fd, op)
    \/ \E fd \in Fds : CloseFd(fd) \/ OpenFd(fd)

Next == Loop \/ Client \/ Tick

Spec == Init /\ [][Next]_vars

(* What the thread that runs the loop does by itself: whether files or signals
   ever wake it is up to the environment. *)
OwnSteps ==
    \/ EnterWait \/ WakeTimeout
    \/ CallFile \/ FileCallbackReturns \/ UnexpectedEvent \/ EventsDone
    \/ FireTimer \/ TimerCallbackReturns \/ TimerCallbackDangles
    \/ StopTimerPass

-----------------------------------------------------------------------------

TimerInfo == [id : Nat \ {0}, period : Nat, due : Int]

EventInfo ==
    [fd : Fds, events : UNION {Masks(Flag(op)) : op \in FileOperation}]

(* The domains of the variables. *)
TypeOK ==
    /\ timers \in Seq(TimerInfo)
    /\ nextTimerId \in Nat \ {0}
    /\ files \subseteq Fds \X FileOperation
    /\ open \subseteq Fds
    /\ epoll \in [Fds -> {0, EPOLLIN, EPOLLOUT, EPOLLERR}]
    /\ pc \in PC
    /\ wait \in Nat \union {Forever}
    /\ events \in Seq(EventInfo)
    /\ cursor \in Nat

(* Ids name timers: no two timers in the list share one, however often the
   list is sorted and shrunk, and addTimer has not handed out the next one
   (addTimer, removeTimer; removeTimer relies on it). *)
UniqueIds ==
    /\ \A i \in DOMAIN timers : timers[i].id < nextTimerId
    /\ \A i, j \in DOMAIN timers : timers[i].id = timers[j].id => i = j

(* The iterator of the loop over m_timers denotes a node of the list when
   the loop uses it, although callbacks may add timers (which sorts the list
   under the loop) and remove any timer but the one being fired, the next
   one included: processEvents() takes the successor only after the callback
   has returned. *)
IteratorValid == cursor # 0 => cursor \in Ids

(* The sleep goes by the first timer in the list (ceil in processEvents).  A
   sleep with a limit ends neither before that timer expires nor a whole
   millisecond after it: a wake-up at the timeout finds it expired, and the
   loop does not spin.  A sleep without a limit is for an empty list, but
   also for a first timer that is overdue by a millisecond or more: the
   negative number that is left of it means no limit to epoll_wait, and it
   fires only when something else wakes the loop. *)
SleepMatchesFrontTimer ==
    pc = "blocked" =>
        IF wait = Forever
        THEN timers = <<>> \/ Head(timers).due <= -TicksPerMs
        ELSE /\ timers # <<>>
             /\ Head(timers).due <= wait
             /\ wait > 0 => wait < Head(timers).due + TicksPerMs

(* The epoll set never watches a descriptor on behalf of nobody: what it
   watches for is an operation recorded in m_files (addFile, removeFile),
   although descriptors are closed and reused behind the dispatcher's back. *)
EpollWithinFiles ==
    \A fd \in Fds : epoll[fd] # 0 =>
        \E op \in FileOperation : <<fd, op>> \in files /\ epoll[fd] = Flag(op)

(* While owners call removeFile before they close, m_files and the epoll set
   say the same (addFile, removeFile): every recorded key is watched for, and
   a descriptor has one operation at most. *)
FilesMirrorEpoll ==
    \A fd \in Fds, op \in FileOperation :
        <<fd, op>> \in files <=> epoll[fd] = Flag(op)

(* The timers as a client sees them: TimerService, with the age of a timer
   in place of its expiry. *)
Armed ==
    [ id \in Ids |->
        LET t == Info(id)
        IN  [period |-> t.period, age |-> t.period * TicksPerMs - t.due] ]

Service ==
    INSTANCE TimerService
        WITH armed <- Armed,
             firing <- IF pc = "timerCallback" THEN cursor ELSE 0,
             lastId <- nextTimerId - 1

(* The loop starts a callback only for a timer that is registered, a full
   period after addTimer or after the end of its last callback, and one at a
   time; a removed timer never fires and no id comes back. *)
ImplementsTimerService == Service!Spec

(* "It's a sorted list, so we can stop now": when processEvents() leaves the
   loop at a timer that is not expired, no timer behind it is expired. *)
StopLeavesNoneExpired ==
    [][ pc = "timers" /\ pc' = "idle" =>
          \A i, j \in DOMAIN timers :
              timers[i].id = cursor /\ i < j => timers[j].due > 0 ]_vars

(* "log error for unexpected event?": the lookup fails only for a descriptor
   nobody watches any more. *)
UnexpectedIsUnregistered ==
    [][ pc = "files" /\ pc' = "files" /\ Len(events') < Len(events) =>
          \A op \in FileOperation : <<Head(events).fd, op>> \notin files ]_vars

=============================================================================
