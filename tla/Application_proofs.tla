------------------------- MODULE Application_proofs -------------------------
(***************************************************************************)
(* The program: what it keeps of the dispatcher's promises, and what run() *)
(* returns, for every value of the constants.                              *)
(***************************************************************************)
EXTENDS Application, TimerService_proofs

(* main(), run() and exit() only use the dispatcher as its clients may: to the
   dispatcher the program is one of the behaviours it allows. *)
THEOREM ProgramIsAClient == AppSpec => Spec
<1>1. AppInit => Init
  BY DEF AppInit
<1>2. [AppNext]_allVars => [Next]_vars
  <2> SUFFICES ASSUME [AppNext]_allVars PROVE [Next]_vars
    OBVIOUS
  <2>1. CASE UNCHANGED allVars
    BY <2>1 DEF allVars
  <2>2. CASE AppStart \/ Quit \/ NoChannel \/ CreateBus \/ Run
    BY <2>2 DEF AppStart, Quit, NoChannel, CreateBus, Run
  <2>3. CASE ArmKillTimer
    <3>1. KillDelays \subseteq Periods
      BY ApplicationConstants
    <3> QED
      BY <2>3, <3>1 DEF ArmKillTimer, Next, Client
  <2>4. CASE ConnectBus
    <3>1. Read \in FileOperation
      BY DEF FileOperation
    <3> QED
      BY <2>4, <3>1 DEF ConnectBus, Next, Client
  <2>5. CASE RunReturns \/ RunRefused \/ \E status \in Statuses : Exit(status)
    BY <2>5 DEF RunReturns, RunRefused, Exit
  <2>6. CASE Pass(Loop)
    BY <2>6 DEF Pass, Next
  <2>7. CASE ProgramCalls
    BY <2>7 DEF ProgramCalls, Next
  <2>8. CASE Tick /\ UNCHANGED appVars
    BY <2>8 DEF Next
  <2> QED
    BY <2>1, <2>2, <2>3, <2>4, <2>5, <2>6, <2>7, <2>8 DEF AppNext, Startup
<1> QED
  BY <1>1, <1>2, PTL DEF AppSpec, Spec

(* While callbacks leave their own timers alone, no pass of the program's loop
   ever stands on a freed node. *)
THEOREM ProgramIteratorValid ==
    ASSUME ~SelfRemove
    PROVE  AppSpec => []IteratorValid
<1>1. Spec => []IteratorValid
  BY IteratorStaysValid
<1> QED
  BY <1>1, ProgramIsAClient, PTL

(* While descriptors are removed before they are closed, as no CAN interface
   does, the program's files and the kernel's set agree. *)
THEOREM ProgramFilesMirrorEpoll ==
    ASSUME ~CloseRegistered
    PROVE  AppSpec => []FilesMirrorEpoll
<1>1. Spec => []FilesMirrorEpoll
  BY OwnedFilesMirrorEpoll
<1> QED
  BY <1>1, ProgramIsAClient, PTL

(* While no other thread touches the timers, the program's sleep goes by the
   first one in the list: to the millisecond, or without a limit when there
   is none or it is overdue by a millisecond. *)
THEOREM ProgramSleepGoesByFirstTimer ==
    ASSUME ~ThreadsCall
    PROVE  AppSpec => []SleepMatchesFrontTimer
<1>1. Spec => []SleepMatchesFrontTimer
  BY SleepGoesByFirstTimer
<1> QED
  BY <1>1, ProgramIsAClient, PTL

(* The callbacks of the whole program are called as TimerService promises, from
   its start through run() to its end: for registered timers only, never before
   a full period is over, one at a time. *)
THEOREM ProgramImplementsTimerService == AppSpec => ImplementsTimerService
  BY ProgramIsAClient, DispatcherImplementsTimerService, PTL

-----------------------------------------------------------------------------
(* Types. *)

(* The counter only moves on. *)
LEMMA NextIdGrows ==
    ASSUME TypeOK, [Next]_vars
    PROVE  nextTimerId \in Nat /\ nextTimerId' \in {nextTimerId, nextTimerId + 1}
<1>1. nextTimerId \in Nat
  BY DispatcherConstants DEF TypeOK
<1>2. CASE Loop \/ Tick \/ UNCHANGED vars
  BY <1>1, <1>2
     DEF Loop, EnterWait, WakeTimeout, WakeInterrupted, WakeWithoutEvents,
         WakeReady, CallFile, FileCallbackReturns, UnexpectedEvent, EventsDone,
         FireTimer, TimerCallbackReturns, TimerCallbackDangles, StopTimerPass,
         Tick, vars, timerVars
<1>3. CASE Client
  BY <1>1, <1>3
     DEF Client, AddTimer, RemoveTimer, AddFile, RemoveFile, CloseFd, OpenFd,
         timerVars
<1> QED
  BY <1>1, <1>2, <1>3 DEF Next

(* The program's variables stay in their domains, and the id main() keeps is
   one the dispatcher has handed out. *)
THEOREM ProgramTypeCorrect == AppSpec => []AppTypeOK
<1> USE DEF AppTypeOK
<1>1. AppInit => AppTypeOK
  <2>1. AppInit => killTimer = 0 /\ nextTimerId = 1
    BY DEF AppInit, Init
  <2>2. 0 \in 0 .. 1 - 1
    OBVIOUS
  <2>3. AppInit => killTimer \in 0 .. nextTimerId - 1
    BY <2>1, <2>2
  <2> QED
    BY <2>3, ApplicationConstants DEF AppInit, Main
<1>2. TypeOK /\ [Next]_vars /\ AppTypeOK /\ [AppNext]_allVars => AppTypeOK'
  <2> SUFFICES ASSUME TypeOK, [Next]_vars, AppTypeOK, [AppNext]_allVars
               PROVE  AppTypeOK'
    OBVIOUS
  <2>1. /\ nextTimerId \in Nat
        /\ nextTimerId' \in {nextTimerId, nextTimerId + 1}
    BY NextIdGrows
  <2>2. 0 .. nextTimerId - 1 \subseteq 0 .. nextTimerId' - 1
    <3>1. ASSUME NEW n \in Nat, NEW m \in {n, n + 1}
          PROVE  0 .. n - 1 \subseteq 0 .. m - 1
      OBVIOUS
    <3> QED
      BY <2>1, <3>1
  <2>3. ASSUME NEW status \in Statuses, ExitWith(status)
        PROVE  /\ exitStatus' \in Statuses
               /\ running' \in BOOLEAN
               /\ asked' \in Statuses \union {None}
    BY <2>3 DEF ExitWith
  <2>4. CASE AppStart \/ Quit \/ NoChannel \/ CreateBus \/ ConnectBus \/ Run
    BY <2>2, <2>4
       DEF AppStart, registerPlugin, Quit, NoChannel, CreateBus, ConnectBus,
           Run, object, Main
  <2>5. CASE ArmKillTimer
    <3>1. CASE \E p \in KillDelays : AddTimer(p) /\ killTimer' = nextTimerId
      <4>1. nextTimerId' = nextTimerId + 1
        BY <3>1 DEF AddTimer
      <4> QED
        BY <2>1, <2>5, <3>1, <4>1 DEF ArmKillTimer, object, Main
    <3>2. CASE UNCHANGED killTimer
      BY <2>2, <2>5, <3>2 DEF ArmKillTimer, object, Main
    <3> QED
      BY <2>5, <3>1, <3>2 DEF ArmKillTimer
  <2>6. CASE RunReturns \/ RunRefused
    BY <2>2, <2>6 DEF RunReturns, RunRefused, object, Main
  <2>7. CASE \E status \in Statuses : Exit(status)
    BY <2>2, <2>3, <2>7 DEF Exit
  <2>8. CASE Pass(Loop)
    BY <2>2, <2>3, <2>8, ApplicationConstants DEF Pass
  <2>9. CASE UNCHANGED appVars
    BY <2>2, <2>9 DEF appVars, object
  <2> QED
    BY <2>4, <2>5, <2>6, <2>7, <2>8, <2>9
       DEF AppNext, Startup, ProgramCalls, allVars
<1>3. Spec => []TypeOK /\ [][Next]_vars
  BY TypeCorrect, PTL DEF Spec
<1> QED
  BY <1>1, <1>2, <1>3, ProgramIsAClient, PTL DEF AppSpec

-----------------------------------------------------------------------------
(* Where the dispatcher stands. *)

(* Clients and the clock leave processEvents() where it is. *)
LEMMA PassKeepsItsPlace ==
    ASSUME Client \/ Tick
    PROVE  pc' = pc
  BY DEF Client, AddTimer, RemoveTimer, AddFile, RemoveFile, CloseFd, OpenFd,
         Tick, loopVars

(* What a call of exit() leaves is the last request. *)
LastRequestKept == ~running => asked # None /\ exitStatus = asked

(* run() is the only one to call processEvents(), and while it runs the two
   members it looks at hold the last request, if there was one. *)
RunInv ==
    /\ mainAt # "run" => pc = "idle"
    /\ mainAt = "run" => LastRequestKept
    /\ mainAt = "returned" /\ result # -1 => asked # None /\ result = asked

LEMMA ExitIsRequest ==
    ASSUME NEW status \in Statuses, ExitWith(status)
    PROVE  LastRequestKept'
<1>1. status # None
  BY ApplicationConstants DEF None
<1> QED
  BY <1>1 DEF ExitWith, LastRequestKept

LEMMA StartupRunInv ==
    ASSUME RunInv, Startup
    PROVE  RunInv'
<1> USE DEF RunInv, LastRequestKept
<1>1. CASE AppStart \/ Quit \/ NoChannel \/ CreateBus
  BY <1>1 DEF AppStart, Quit, NoChannel, CreateBus, vars, loopVars
<1>2. CASE ArmKillTimer
  <2>1. pc' = pc
    BY <1>2 DEF ArmKillTimer, AddTimer, vars, loopVars
  <2> QED
    BY <1>2, <2>1 DEF ArmKillTimer
<1>3. CASE ConnectBus
  <2>1. pc' = pc
    BY <1>3 DEF ConnectBus, AddFile, vars, loopVars
  <2> QED
    BY <1>3, <2>1 DEF ConnectBus
<1>4. CASE Run
  BY <1>4 DEF Run
<1> QED
  BY <1>1, <1>2, <1>3, <1>4 DEF Startup

LEMMA PassRunInv ==
    ASSUME RunInv, Pass(Loop)
    PROVE  RunInv'
<1>1. mainAt = "run"
  <2>1. CASE pc = "idle"
    BY <2>1 DEF Pass, MayPass
  <2>2. CASE pc # "idle"
    BY <2>2 DEF RunInv
  <2> QED
    BY <2>1, <2>2
<1>2. mainAt' = "run"
  BY <1>1 DEF Pass
<1>3. LastRequestKept'
  <2>1. CASE UNCHANGED <<exitStatus, running, asked>>
    BY <1>1, <2>1 DEF RunInv, LastRequestKept
  <2>2. CASE ExitWith(0)
    BY <2>2, ExitIsRequest, ApplicationConstants
  <2> QED
    BY <2>1, <2>2 DEF Pass
<1> QED
  BY <1>2, <1>3 DEF RunInv

LEMMA ExitRunInv ==
    ASSUME RunInv, NEW status \in Statuses, Exit(status)
    PROVE  RunInv'
<1>1. mainAt \in {"wired", "run"} /\ mainAt' = mainAt /\ pc' = pc
  BY DEF Exit, ProgramMayCall, vars, loopVars
<1>2. LastRequestKept'
  BY ExitIsRequest DEF Exit
<1> QED
  BY <1>1, <1>2 DEF RunInv

LEMMA RunInvariance == AppSpec => []RunInv
<1>1. AppInit => RunInv
  BY DEF AppInit, Init, RunInv
<1>2. RunInv /\ [AppNext]_allVars => RunInv'
  <2> SUFFICES ASSUME RunInv, [AppNext]_allVars PROVE RunInv'
    OBVIOUS
  <2>1. CASE Startup
    BY <2>1, StartupRunInv
  <2>2. CASE RunReturns
    BY <2>2 DEF RunReturns, RunInv, LastRequestKept, vars, loopVars
  <2>3. CASE RunRefused
    BY <2>3 DEF RunRefused, RunInv, vars, loopVars
  <2>4. CASE Pass(Loop)
    BY <2>4, PassRunInv
  <2>5. CASE \E status \in Statuses : Exit(status)
    BY <2>5, ExitRunInv
  <2>6. CASE ProgramCalls \/ (Tick /\ UNCHANGED appVars)
    <3>1. pc' = pc /\ UNCHANGED appVars
      BY <2>6, PassKeepsItsPlace DEF ProgramCalls
    <3> QED
      BY <3>1 DEF appVars, object, RunInv, LastRequestKept
  <2>7. CASE UNCHANGED allVars
    BY <2>7 DEF allVars, appVars, object, vars, loopVars, RunInv, LastRequestKept
  <2> QED
    BY <2>1, <2>2, <2>3, <2>4, <2>5, <2>6, <2>7 DEF AppNext
<1> QED
  BY <1>1, <1>2, PTL DEF AppSpec

(* run() returns the status of the last exit() that was called while it ran. *)
THEOREM RunReturnsWhatExitSaid == AppSpec => []RunReturnsLastExit
<1>1. RunInv => RunReturnsLastExit
  BY DEF RunInv, RunReturnsLastExit
<1> QED
  BY <1>1, RunInvariance, PTL

=============================================================================
