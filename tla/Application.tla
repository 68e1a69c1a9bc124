---------------------------- MODULE Application ----------------------------
(***************************************************************************)
(* A program on top of the dispatcher: Application::run() and exit(), the  *)
(* platform and the backend registry behind it, and main(), wired the way  *)
(* dpflow does it: a timer that ends the program, a CAN interface whose    *)
(* socket is watched, and the loop.                                        *)
(*                                                                         *)
(* main() is straight-line code; mainAt says how far it is.  The program's *)
(* callbacks, and other threads while the loop sleeps, call the dispatcher *)
(* and exit().  Application and Platform only forward the calls.           *)
(***************************************************************************)
EXTENDS EventDispatcher

CONSTANTS
    KillDelays,   \* periods main() may give the timer that ends the program
    Statuses,     \* statuses the program's callbacks pass to exit()
    Backend,      \* the backend the platform registers, "SocketCAN"
    Plugins       \* backend names a user may ask for

ASSUME ApplicationConstants ==
    /\ KillDelays \subseteq Periods
    /\ Statuses \subseteq Nat /\ 0 \in Statuses

VARIABLES
    mainAt,      \* where main() stands
    started,     \* the members of Application
    running,
    exitStatus,
    registry,    \* names in plugin_registry
    killTimer,   \* id of the timer that ends the program, 0 without one
    result,      \* what run() returned
    asked        \* history: status of the last exit() since run() began

object == <<started, running, exitStatus>>
appVars == <<mainAt, object, registry, killTimer, result, asked>>
allVars == <<vars, appVars>>

None == -2   \* no status: run() returns -1 or what exit() was given

Main == {"start", "started", "armed", "created", "wired", "run", "returned",
         "quit", "crashed"}

AppInit ==
    /\ Init
    /\ mainAt = "start"
    /\ started = FALSE /\ running = FALSE /\ exitStatus = 0
    /\ registry = {}
    /\ killTimer = 0
    /\ result = None /\ asked = None

-----------------------------------------------------------------------------
(* main() up to the loop. *)

(* A name that is taken is refused. *)
registerPlugin(name) == registry' = registry \union {name}

(* The constructor of Application creates the platform, whose appStart()
   registers its backend. *)
AppStart ==
    /\ mainAt = "start"
    /\ mainAt' = "started"
    /\ registerPlugin(Backend)
    /\ UNCHANGED <<vars, object, killTimer, result, asked>>

(* --help and --version print and return before there is an Application,
   --scan after it has registered the backends it asks for channels. *)
Quit ==
    /\ mainAt \in {"start", "started"}
    /\ mainAt' = "quit"
    /\ UNCHANGED <<vars, object, registry, killTimer, result, asked>>

(* Mutant of ArmKillTimer: the id is read when the counter has moved on. *)
ArmKillTimerLate ==
    /\ mainAt = "started"
    /\ mainAt' = "armed"
    /\ \/ /\ \E p \in KillDelays : AddTimer(p)
          /\ killTimer' = nextTimerId'
       \/ UNCHANGED <<vars, killTimer>>
    /\ UNCHANGED <<object, registry, result, asked>>

(* app.addTimer(KILL_DELAY_MS, ...); a program that ends by other means has
   no such timer. *)
ArmKillTimer ==
    /\ mainAt = "started"
    /\ mainAt' = "armed"
    /\ \/ /\ \E p \in KillDelays : AddTimer(p)
          /\ killTimer' = nextTimerId
       \/ UNCHANGED <<vars, killTimer>>
    /\ UNCHANGED <<object, registry, result, asked>>

(* An interface without a '.' in its name: substr() throws, and nobody catches
   it. *)
NoChannel ==
    /\ mainAt = "armed"
    /\ mainAt' = "crashed"
    /\ UNCHANGED <<vars, object, registry, killTimer, result, asked>>

(* create() looks the backend up with operator[], which adds an entry for a
   name nobody registered; the function in that entry is never set, and the
   call through it is undefined. *)
CreateBus ==
    /\ mainAt = "armed"
    /\ \E name \in Plugins :
           /\ mainAt' = IF name \in registry THEN "created" ELSE "crashed"
           /\ registry' = registry \union {name}
    /\ UNCHANGED <<vars, object, killTimer, result, asked>>

(* bus->connect(): open() watches the socket, or fails; main() goes on. *)
ConnectBus ==
    /\ mainAt = "created"
    /\ mainAt' = "wired"
    /\ (\E fd \in Fds : AddFile(fd, Read)) \/ UNCHANGED vars
    /\ UNCHANGED <<object, registry, killTimer, result, asked>>

-----------------------------------------------------------------------------
(* run() and exit(). *)

Run ==
    /\ mainAt = "wired"
    /\ ~started
    /\ mainAt' = "run"
    /\ started' = TRUE
    /\ running' = TRUE
    /\ asked' = None
    /\ UNCHANGED <<vars, exitStatus, registry, killTimer, result>>

(* "Application already running", also when it no longer is. *)
RunRefused ==
    /\ mainAt = "returned"
    /\ started
    /\ result' = -1
    /\ UNCHANGED <<vars, mainAt, object, registry, killTimer, asked>>

RunReturns ==
    /\ mainAt = "run"
    /\ pc = "idle"
    /\ ~running
    /\ mainAt' = "returned"
    /\ result' = exitStatus
    /\ UNCHANGED <<vars, object, registry, killTimer, asked>>

(* Mutant of ExitWith: the first call wins. *)
ExitOnce(status) ==
    /\ exitStatus' = IF running THEN status ELSE exitStatus
    /\ running' = FALSE
    /\ asked' = status

ExitWith(status) ==
    /\ exitStatus' = status
    /\ running' = FALSE
    /\ asked' = status

(* The callback of the kill timer does nothing but call exit(0). *)
InKillCallback == pc = "timerCallback" /\ cursor = killTimer

(* The slots of connect(), the callbacks in the loop, and other threads while
   it sleeps. *)
ProgramMayCall ==
    \/ mainAt = "wired"
    \/ mainAt = "run" /\ pc # "idle" /\ ~InKillCallback

(* Another thread may call exit() while the loop sleeps, whether or not it
   uses the dispatcher. *)
Exit(status) ==
    /\ ProgramMayCall
    /\ ClientMayCall \/ pc = "blocked"
    /\ ExitWith(status)
    /\ UNCHANGED <<vars, mainAt, started, registry, killTimer, result>>

(* Mutant of MayPass: the flag is looked at after a pass only. *)
MayPassFirst == mainAt = "run"

(* while (running) processEvents() *)
MayPass == mainAt = "run" /\ running

(* A step of processEvents(). *)
Pass(step) ==
    /\ step
    /\ pc = "idle" => MayPass
    /\ IF pc = "timers" /\ pc' = "timerCallback" /\ cursor = killTimer
       THEN ExitWith(0) ELSE UNCHANGED <<exitStatus, running, asked>>
    /\ UNCHANGED <<mainAt, started, registry, killTimer, result>>

(* The program keeps the id of the kill timer to itself. *)
ProgramCalls ==
    /\ ProgramMayCall
    /\ Client
    /\ killTimer # 0 => killTimer \in Ids'
    /\ UNCHANGED appVars

Startup ==
    \/ AppStart \/ Quit \/ ArmKillTimer \/ NoChannel \/ CreateBus
    \/ ConnectBus \/ Run

AppNext ==
    \/ Startup \/ RunReturns \/ RunRefused
    \/ Pass(Loop)
    \/ ProgramCalls
    \/ \E status \in Statuses : Exit(status)
    \/ Tick /\ UNCHANGED appVars

AppSpec == AppInit /\ [][AppNext]_allVars

(* Fairness: the main thread is scheduled, callbacks return, time passes. *)
AppFairSpec ==
    /\ AppSpec
    /\ WF_allVars(Startup \/ RunReturns \/ Pass(OwnSteps))
    /\ WF_allVars(Tick /\ UNCHANGED appVars)

-----------------------------------------------------------------------------

(* The domains of the variables; the kill timer's id has been handed out. *)
AppTypeOK ==
    /\ mainAt \in Main
    /\ {started, running} \subseteq BOOLEAN
    /\ exitStatus \in Statuses
    /\ registry \subseteq {Backend} \union Plugins
    /\ killTimer \in 0 .. nextTimerId - 1
    /\ result \in Statuses \union {None, -1}
    /\ asked \in Statuses \union {None}

(* run() comes back for an exit() that was called while it ran, and with the
   status of the last one: not for an exit() before run(), whose request is
   lost, and not with the first status of two in one pass (run, exit). *)
RunReturnsLastExit ==
    mainAt = "returned" /\ result # -1 => asked # None /\ result = asked

(* Once exit() is called run() returns after the pass it is in, whatever the
   timers and files of that pass still do, as long as they do not add timers
   for ever (MaxTimerId); only a loop that another thread asks to end in its
   sleep may sleep on, for exit() does not wake it. *)
ExitEndsRun ==
    mainAt = "run" /\ ~running /\ pc # "blocked" ~> mainAt = "returned"

(* The kill timer of main() ends the program: callbacks may add timers in
   front of it, and the list is not kept in order, but as long as something
   wakes the loop run() returns (processEvents, run, main). *)
KillTimerEndsRun ==
    []<>(pc # "blocked") =>
        (mainAt = "run" /\ killTimer # 0 ~> mainAt = "returned")

(* A loop that keeps being woken, by files, signals or its own timeout,
   fires every timer again and again until it is removed, although the list
   is not kept in expiry order: a timer waits at most for the ones before it
   (processEvents).  The premise is needed: a first timer that is overdue by
   a millisecond makes the timeout negative, and the loop sleeps for good. *)
Firing(id) == pc = "timerCallback" /\ cursor = id

WokenLoopFiresTimers ==
    []<>(mainAt = "run" /\ pc # "blocked") =>
        \A id \in 1 .. MaxTimerId : []<>(id \notin Ids \/ Firing(id))

=============================================================================
