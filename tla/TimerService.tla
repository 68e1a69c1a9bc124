---------------------------- MODULE TimerService ----------------------------
(***************************************************************************)
(* What EventDispatcher promises about timers, whatever order it keeps     *)
(* them in and however its loop sleeps: a callback starts only for a timer *)
(* that is registered at that moment, and only when a full period has gone *)
(* by since it was registered or since its last callback ended; at most    *)
(* one callback runs at a time; an id is handed out once.  That a timer    *)
(* fires on time, or at all, is no part of the promise.                    *)
(***************************************************************************)
EXTENDS Integers

CONSTANTS
    Periods,     \* periods a client may ask for, in milliseconds
    TicksPerMs,  \* clock ticks in a millisecond
    MaxLate,     \* bound: an age is not counted further past the period
    MaxTimerId   \* bound: ids handed out

VARIABLES
    armed,   \* registered timers: id -> period, and age since (re)arming
    firing,  \* id whose callback runs, 0 when none does
    lastId   \* last id handed out

vars == <<armed, firing, lastId>>

Init ==
    /\ armed = <<>>
    /\ firing = 0
    /\ lastId = 0

Register(p) ==
    /\ lastId < MaxTimerId
    /\ lastId' = lastId + 1
    /\ armed' = [id \in DOMAIN armed \union {lastId'} |->
                    IF id = lastId' THEN [period |-> p, age |-> 0] ELSE armed[id]]
    /\ UNCHANGED firing

Unregister(id) ==
    /\ armed' = [other \in DOMAIN armed \ {id} |-> armed[other]]
    /\ UNCHANGED <<firing, lastId>>

Start(id) ==
    /\ firing = 0
    /\ armed[id].age >= armed[id].period * TicksPerMs
    /\ firing' = id
    /\ UNCHANGED <<armed, lastId>>

Finish ==
    /\ firing # 0
    /\ firing' = 0
    /\ armed' = [id \in DOMAIN armed |->
                    IF id = firing THEN [armed[id] EXCEPT !.age = 0]
                    ELSE armed[id]]
    /\ UNCHANGED lastId

Tick ==
    /\ armed' = [id \in DOMAIN armed |->
                    IF armed[id].age < armed[id].period * TicksPerMs + MaxLate
                    THEN [armed[id] EXCEPT !.age = @ + 1]
                    ELSE armed[id]]
    /\ UNCHANGED <<firing, lastId>>

Next ==
    \/ \E p \in Periods : Register(p)
    \/ \E id \in DOMAIN armed : Unregister(id) \/ Start(id)
    \/ Finish
    \/ Tick

Spec == Init /\ [][Next]_vars

=============================================================================
