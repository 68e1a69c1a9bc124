------------------------- MODULE TimerService_proofs -------------------------
(***************************************************************************)
(* EventDispatcher implements TimerService, for every value of its         *)
(* constants: callbacks of any periods, however they add and remove        *)
(* timers, the one that runs included.                                     *)
(***************************************************************************)
EXTENDS EventDispatcher_proofs

-----------------------------------------------------------------------------
(* A list of timers as a client sees it. *)

Distinct(s) == \A i, j \in DOMAIN s : s[i].id = s[j].id => i = j

IdsOf(s) == { s[i].id : i \in DOMAIN s }

Entry(t) == [period |-> t.period, age |-> t.period * TicksPerMs - t.due]

View(s) ==
    [ id \in IdsOf(s) |-> Entry(s[CHOOSE i \in DOMAIN s : s[i].id = id]) ]

LEMMA ArmedIsView ==
    /\ Armed = View(timers) /\ Ids = IdsOf(timers)
    /\ Armed' = View(timers') /\ Ids' = IdsOf(timers')
  BY DEF Armed, View, Ids, IdsOf, Info, Entry

(* An id names its node. *)
LEMMA ViewOfNode ==
    ASSUME NEW s, Distinct(s), NEW i \in DOMAIN s
    PROVE  s[i].id \in IdsOf(s) /\ View(s)[s[i].id] = Entry(s[i])
<1> DEFINE k == CHOOSE k \in DOMAIN s : s[k].id = s[i].id
<1>1. k \in DOMAIN s /\ s[k].id = s[i].id
  OBVIOUS
<1>2. k = i
  BY <1>1 DEF Distinct
<1>3. s[i].id \in IdsOf(s)
  BY DEF IdsOf
<1> QED
  BY <1>2, <1>3 DEF View

(* A function that has the ids of a list and what its nodes say is its view. *)
LEMMA ViewIs ==
    ASSUME NEW s, Distinct(s), NEW f, DOMAIN f = IdsOf(s),
           f = [id \in DOMAIN f |-> f[id]],
           \A i \in DOMAIN s : f[s[i].id] = Entry(s[i])
    PROVE  View(s) = f
<1>1. ASSUME NEW id \in IdsOf(s)
      PROVE  View(s)[id] = f[id]
  <2>1. PICK i \in DOMAIN s : id = s[i].id
    BY DEF IdsOf
  <2> QED
    BY <2>1, ViewOfNode
<1>2. View(s) = [id \in IdsOf(s) |-> View(s)[id]]
  BY DEF View
<1> QED
  BY <1>1, <1>2

(* A timer whose expiry is set, as the client sees it. *)
LEMMA EntryOfExpirySet ==
    ASSUME NEW r \in TimerInfo, NEW v \in Int
    PROVE  /\ Entry([r EXCEPT !.due = v]) =
                  [period |-> r.period, age |-> r.period * TicksPerMs - v]
           /\ [r EXCEPT !.due = v].id = r.id
  BY DEF Entry, TimerInfo

-----------------------------------------------------------------------------
(* The invariant. *)

(* Where the loop over the list stands, it stands on a node: no client can
   call between two timers. *)
CursorOK == pc = "timers" /\ cursor # 0 => cursor \in Ids

Mapped == TypeInv /\ UniqueIds /\ CursorOK

LEMMA CursorStep ==
    ASSUME TypeInv, CursorOK, [Next]_vars
    PROVE  CursorOK'
<1> USE DEF CursorOK
<1>1. FirstTimer \in Ids \union {0}
  BY FirstTimerInList DEF TypeInv
<1>2. CASE WakeTimeout \/ WakeInterrupted \/ EventsDone
  <2>1. cursor' = FirstTimer /\ Ids' = Ids
    BY <1>2 DEF WakeTimeout, WakeInterrupted, WakeWithoutEvents, EventsDone,
                StartTimerPass, timerVars, Ids
  <2> QED
    BY <1>1, <2>1
<1>3. CASE TimerCallbackReturns
  <2>1. cursor' \in Ids \union {0}
    BY <1>3, SuccessorInList DEF TimerCallbackReturns, TypeInv
  <2>2. Ids' = Ids
    <3>1. /\ DOMAIN timers = 1 .. Len(timers)
          /\ DOMAIN timers' = 1 .. Len(timers)
          /\ \A i \in 1 .. Len(timers) : timers'[i].id = timers[i].id
      BY <1>3, RearmList, LenProperties DEF TypeInv, TypeOK
    <3> QED
      BY <3>1 DEF Ids
  <2> QED
    BY <2>1, <2>2
<1>4. CASE Tick
  <2>1. Ids' = Ids
    <3>1. /\ DOMAIN timers = 1 .. Len(timers)
          /\ DOMAIN timers' = 1 .. Len(timers)
          /\ \A i \in 1 .. Len(timers) : timers'[i].id = timers[i].id
      BY <1>4, TickList, LenProperties DEF TypeInv, TypeOK
    <3> QED
      BY <3>1 DEF Ids
  <2>2. UNCHANGED <<pc, cursor>>
    BY <1>4 DEF Tick
  <2> QED
    BY <2>1, <2>2
<1>5. CASE Client
  <2>1. pc' = pc /\ pc # "timers"
    BY <1>5 DEF Client, AddTimer, RemoveTimer, AddFile, RemoveFile, CloseFd,
                OpenFd, ClientMayCall, loopVars
  <2> QED
    BY <2>1
<1>6. CASE \/ EnterWait \/ WakeReady \/ CallFile \/ FileCallbackReturns
           \/ UnexpectedEvent \/ FireTimer \/ TimerCallbackDangles
           \/ StopTimerPass
  <2>1. pc' # "timers"
    BY <1>6 DEF EnterWait, WakeReady, CallFile, FileCallbackReturns,
                UnexpectedEvent, FireTimer, TimerCallbackDangles, StopTimerPass
  <2> QED
    BY <2>1
<1>7. CASE UNCHANGED vars
  BY <1>7 DEF vars, timerVars, loopVars, Ids
<1> QED
  BY <1>2, <1>3, <1>4, <1>5, <1>6, <1>7 DEF Next, Loop

LEMMA MappedInvariance == Spec => []Mapped
<1>1. Init => CursorOK
  BY DEF Init, CursorOK
<1>2. TypeInv /\ CursorOK /\ [Next]_vars => CursorOK'
  BY CursorStep
<1> QED
  BY <1>1, <1>2, TypeInvariance, IdsStayUnique, PTL DEF Spec, Mapped

(* The list before and after a step has distinct ids. *)
LEMMA MappedLists ==
    ASSUME Mapped, Mapped'
    PROVE  /\ timers \in Seq(TimerInfo) /\ DOMAIN timers = 1 .. Len(timers)
           /\ timers' \in Seq(TimerInfo) /\ DOMAIN timers' = 1 .. Len(timers')
           /\ Distinct(timers) /\ Distinct(timers')
           /\ Len(timers) \in Nat /\ Len(timers') \in Nat
           /\ nextTimerId \in Nat \ {0}
           /\ \A i \in DOMAIN timers : timers[i] \in TimerInfo
  BY LenProperties, ElementOfSeq
     DEF Mapped, TypeInv, TypeOK, UniqueIds, Distinct

-----------------------------------------------------------------------------
(* Each operation, as the client sees it. *)

RunningTimer == IF pc = "timerCallback" THEN cursor ELSE 0

(* addTimer registers a timer of age 0, wherever the sort puts it. *)
LEMMA AddTimerRegisters ==
    ASSUME Mapped, Mapped', NEW p \in Periods, AddTimer(p)
    PROVE  Armed' = [id \in DOMAIN Armed \union {nextTimerId} |->
                        IF id = nextTimerId THEN [period |-> p, age |-> 0]
                        ELSE Armed[id]]
<1> DEFINE n == Len(timers) + 1
           new == [id |-> nextTimerId, period |-> p, due |-> p * TicksPerMs]
           grown == Append(timers, new)
           f == [id \in DOMAIN Armed \union {nextTimerId} |->
                        IF id = nextTimerId THEN [period |-> p, age |-> 0]
                        ELSE Armed[id]]
<1>1. PICK o \in Injection(1 .. n, 1 .. n) :
          /\ o \in Surjection(1 .. n, 1 .. n)
          /\ \A i \in 1 .. n : timers'[i] = grown[o[i]]
          /\ Len(timers') = n
  BY AddTimerList DEF Mapped, TypeInv
<1>2. /\ DOMAIN timers' = 1 .. n /\ DOMAIN timers = 1 .. Len(timers)
      /\ Distinct(timers) /\ Distinct(timers')
      /\ timers \in Seq(TimerInfo) /\ Len(timers) \in Nat
  <2> HIDE DEF grown, new
  <2>1. /\ DOMAIN timers' = 1 .. Len(timers') /\ DOMAIN timers = 1 .. Len(timers)
        /\ Distinct(timers) /\ Distinct(timers')
        /\ timers \in Seq(TimerInfo) /\ Len(timers) \in Nat
    BY MappedLists, Zenon
  <2> QED
    BY <1>1, <2>1, Zenon
<1>3. \A k \in 1 .. n : grown[k] = IF k = n THEN new ELSE timers[k]
  BY <1>2
<1>4. /\ \A i \in 1 .. n : o[i] \in 1 .. n
      /\ \A k \in 1 .. n : \E i \in 1 .. n : o[i] = k
  <2> HIDE DEF n, grown, new, f
  <2>1. o \in [1 .. n -> 1 .. n]
    BY <1>1, Fun_InjectionProperties
  <2>2. \A k \in 1 .. n : \E i \in 1 .. n : o[i] = k
    BY <1>1, Zenon DEF Surjection
  <2> QED
    BY <2>1, <2>2
<1>5. new.id = nextTimerId /\ Entry(new) = [period |-> p, age |-> 0]
  <2>1. p * TicksPerMs \in Int
    BY DispatcherConstants
  <2>2. p * TicksPerMs - p * TicksPerMs = 0
    BY <2>1
  <2> QED
    BY <2>2 DEF Entry
<1>6. DOMAIN Armed = IdsOf(timers)
  BY ArmedIsView DEF View
<1>7. /\ \A k \in 1 .. n : k # n => k \in DOMAIN timers /\ grown[k] = timers[k]
      /\ \A k \in DOMAIN timers : k \in 1 .. n /\ k # n
      /\ n \in 1 .. n /\ grown[n] = new
  BY <1>2, <1>3
<1> HIDE DEF grown, new, n
<1>8. ASSUME NEW k \in DOMAIN timers
      PROVE  /\ f[timers[k].id] = Entry(timers[k])
             /\ timers[k].id \in IdsOf(timers)
  <2>1. timers[k].id # nextTimerId
    <3>1. timers[k].id < nextTimerId /\ timers[k].id \in Nat
      BY MappedLists DEF Mapped, UniqueIds, TimerInfo
    <3> QED
      BY <3>1
  <2>2. Armed[timers[k].id] = Entry(timers[k]) /\ timers[k].id \in IdsOf(timers)
    BY <1>2, ArmedIsView, ViewOfNode
  <2> QED
    BY <1>6, <2>1, <2>2
<1>9. f[nextTimerId] = [period |-> p, age |-> 0]
  OBVIOUS
<1>10. DOMAIN f = IdsOf(timers) \union {nextTimerId}
  BY <1>6
<1>11. f = [id \in DOMAIN f |-> f[id]]
  OBVIOUS
<1> HIDE DEF f
<1>12. ASSUME NEW i \in 1 .. n
       PROVE  f[timers'[i].id] = Entry(timers'[i])
  <2>1. CASE o[i] = n
    <3>1. timers'[i] = new
      BY <1>1, <1>4, <1>7, <2>1
    <3> QED
      BY <1>5, <1>9, <3>1
  <2>2. CASE o[i] # n
    <3>1. o[i] \in DOMAIN timers /\ timers'[i] = timers[o[i]]
      BY <1>1, <1>4, <1>7, <2>2
    <3> QED
      BY <1>8, <3>1
  <2> QED
    BY <2>1, <2>2
<1>13. IdsOf(timers') = IdsOf(timers) \union {nextTimerId}
  <2>1. ASSUME NEW i \in 1 .. n
        PROVE  timers'[i].id \in IdsOf(timers) \union {nextTimerId}
    <3>1. CASE o[i] = n
      BY <1>1, <1>4, <1>5, <1>7, <3>1
    <3>2. CASE o[i] # n
      <4>1. o[i] \in DOMAIN timers /\ timers'[i] = timers[o[i]]
        BY <1>1, <1>4, <1>7, <3>2
      <4> QED
        BY <1>8, <4>1
    <3> QED
      BY <3>1, <3>2
  <2>2. nextTimerId \in IdsOf(timers')
    <3>1. PICK i \in 1 .. n : o[i] = n
      BY <1>4, <1>7
    <3>2. timers'[i] = new
      BY <1>1, <1>7, <3>1
    <3> QED
      BY <1>2, <1>5, <3>2 DEF IdsOf
  <2>3. ASSUME NEW k \in DOMAIN timers
        PROVE  timers[k].id \in IdsOf(timers')
    <3>1. k \in 1 .. n /\ k # n
      BY <1>7
    <3>2. PICK i \in 1 .. n : o[i] = k
      BY <1>4, <3>1
    <3>3. timers'[i] = timers[k]
      BY <1>1, <1>7, <3>1, <3>2
    <3> QED
      BY <1>2, <3>3 DEF IdsOf
  <2>4. IdsOf(timers') \subseteq IdsOf(timers) \union {nextTimerId}
    BY <1>2, <2>1 DEF IdsOf
  <2>5. IdsOf(timers) \subseteq IdsOf(timers')
    BY <2>3 DEF IdsOf
  <2> QED
    BY <2>2, <2>4, <2>5
<1>14. View(timers') = f
  BY <1>2, <1>10, <1>11, <1>12, <1>13, ViewIs
<1> QED
  BY <1>14, ArmedIsView DEF f

(* removeTimer takes a timer away and leaves the others as they are. *)
LEMMA RemoveTimerUnregisters ==
    ASSUME Mapped, Mapped', NEW id \in Ids, RemoveTimer(id)
    PROVE  Armed' = [other \in DOMAIN Armed \ {id} |-> Armed[other]]
<1> DEFINE f == [other \in DOMAIN Armed \ {id} |-> Armed[other]]
<1>1. PICK k \in 1 .. Len(timers) :
          /\ timers[k].id = id
          /\ Len(timers') = Len(timers) - 1
          /\ \A j \in 1 .. Len(timers) - 1 :
                 timers'[j] = IF j < k THEN timers[j] ELSE timers[j + 1]
  BY RemoveTimerList DEF Mapped, TypeInv
<1>2. /\ DOMAIN timers' = 1 .. Len(timers) - 1 /\ DOMAIN timers = 1 .. Len(timers)
      /\ Distinct(timers) /\ Distinct(timers') /\ Len(timers) \in Nat
  BY <1>1, MappedLists
<1>3. DOMAIN f = IdsOf(timers) \ {id}
  BY ArmedIsView DEF View
<1>4. f = [other \in DOMAIN f |-> f[other]]
  OBVIOUS
<1>5. ASSUME NEW i \in DOMAIN timers, i # k
      PROVE  /\ timers[i].id \in IdsOf(timers) \ {id}
             /\ f[timers[i].id] = Entry(timers[i])
  <2>1. timers[i].id # id
    BY <1>1, <1>2, <1>5 DEF Distinct
  <2>2. Armed[timers[i].id] = Entry(timers[i]) /\ timers[i].id \in IdsOf(timers)
    BY <1>2, ArmedIsView, ViewOfNode
  <2> QED
    BY <1>3, <2>1, <2>2
<1> HIDE DEF f
<1>6. ASSUME NEW j \in DOMAIN timers'
      PROVE  \E i \in DOMAIN timers : i # k /\ timers'[j] = timers[i]
  <2>1. CASE j < k
    BY <1>1, <1>2, <2>1
  <2>2. CASE ~ j < k
    <3>1. j + 1 \in DOMAIN timers /\ j + 1 # k /\ timers'[j] = timers[j + 1]
      BY <1>1, <1>2, <2>2
    <3> QED
      BY <3>1
  <2> QED
    BY <2>1, <2>2
<1>7. ASSUME NEW i \in DOMAIN timers, i # k
      PROVE  \E j \in DOMAIN timers' : timers'[j] = timers[i]
  <2>1. CASE i < k
    <3>1. i \in DOMAIN timers' /\ timers'[i] = timers[i]
      BY <1>1, <1>2, <2>1
    <3> QED
      BY <3>1
  <2>2. CASE ~ i < k
    <3>1. /\ i - 1 \in DOMAIN timers' /\ ~ (i - 1 < k)
          /\ (i - 1) + 1 = i
      BY <1>1, <1>2, <1>7, <2>2
    <3>2. timers'[i - 1] = timers[i]
      BY <1>1, <1>2, <3>1
    <3> QED
      BY <3>1, <3>2
  <2> QED
    BY <2>1, <2>2
<1>8. \A j \in DOMAIN timers' : f[timers'[j].id] = Entry(timers'[j])
  BY <1>5, <1>6
<1>9. IdsOf(timers') = IdsOf(timers) \ {id}
  <2>1. IdsOf(timers') \subseteq IdsOf(timers) \ {id}
    BY <1>5, <1>6 DEF IdsOf
  <2>2. ASSUME NEW other \in IdsOf(timers) \ {id}
        PROVE  other \in IdsOf(timers')
    <3>1. PICK i \in DOMAIN timers : timers[i].id = other
      BY DEF IdsOf
    <3>2. i # k
      BY <1>1, <2>2, <3>1
    <3>3. PICK j \in DOMAIN timers' : timers'[j] = timers[i]
      BY <1>7, <3>2
    <3> QED
      BY <3>1, <3>3 DEF IdsOf
  <2> QED
    BY <2>1, <2>2
<1>10. View(timers') = f
  BY <1>2, <1>3, <1>4, <1>8, <1>9, ViewIs
<1> QED
  BY <1>10, ArmedIsView DEF f

(* A step that keeps every node in its place. *)
LEMMA SamePlaces ==
    ASSUME Mapped, Mapped', Len(timers') = Len(timers),
           \A i \in 1 .. Len(timers) : timers'[i].id = timers[i].id,
           NEW f, DOMAIN f = DOMAIN Armed, f = [id \in DOMAIN f |-> f[id]],
           \A i \in 1 .. Len(timers) : f[timers[i].id] = Entry(timers'[i])
    PROVE  Armed' = f
<1>1. /\ DOMAIN timers = 1 .. Len(timers) /\ DOMAIN timers' = 1 .. Len(timers)
      /\ Distinct(timers')
  BY MappedLists
<1>2. IdsOf(timers') = IdsOf(timers)
  BY <1>1 DEF IdsOf
<1>3. DOMAIN f = IdsOf(timers')
  BY <1>2, ArmedIsView DEF View
<1>4. \A i \in DOMAIN timers' : f[timers'[i].id] = Entry(timers'[i])
  BY <1>1
<1>5. View(timers') = f
  BY <1>1, <1>3, <1>4, ViewIs
<1> QED
  BY <1>5, ArmedIsView

(* The end of a callback makes its timer young again. *)
LEMMA CallbackEndRearms ==
    ASSUME Mapped, Mapped', TimerCallbackReturns
    PROVE  Armed' = [id \in DOMAIN Armed |->
                        IF id = cursor THEN [Armed[id] EXCEPT !.age = 0]
                        ELSE Armed[id]]
<1> DEFINE f == [id \in DOMAIN Armed |->
                        IF id = cursor THEN [Armed[id] EXCEPT !.age = 0]
                        ELSE Armed[id]]
<1>1. ASSUME NEW i \in 1 .. Len(timers)
      PROVE  f[timers[i].id] = Entry(timers'[i])
  <2>1. /\ i \in DOMAIN timers /\ timers[i] \in TimerInfo /\ Distinct(timers)
    BY MappedLists
  <2>2. Armed[timers[i].id] = Entry(timers[i]) /\ timers[i].id \in DOMAIN Armed
    BY <2>1, ArmedIsView, ViewOfNode DEF View
  <2>3. timers'[i] = IF timers[i].id = cursor
                     THEN [timers[i] EXCEPT !.due = timers[i].period * TicksPerMs]
                     ELSE timers[i]
    BY <2>1 DEF TimerCallbackReturns
  <2>4. CASE timers[i].id = cursor
    <3> DEFINE v == timers[i].period * TicksPerMs
    <3>1. v \in Int
      BY <2>1, DispatcherConstants DEF TimerInfo
    <3> HIDE DEF v
    <3>2. v - v = 0
      BY <3>1
    <3>3. Entry(timers'[i]) = [period |-> timers[i].period, age |-> 0]
      <4>1. timers'[i] = [timers[i] EXCEPT !.due = v]
        BY <2>3, <2>4 DEF v
      <4>2. Entry([timers[i] EXCEPT !.due = v]) =
                [period |-> timers[i].period, age |-> v - v]
        BY <2>1, <3>1, EntryOfExpirySet DEF v
      <4> QED
        BY <3>2, <4>1, <4>2
    <3>4. [Entry(timers[i]) EXCEPT !.age = 0] = [period |-> timers[i].period, age |-> 0]
      BY DEF Entry
    <3> QED
      BY <2>2, <2>4, <3>3, <3>4
  <2>5. CASE timers[i].id # cursor
    BY <2>2, <2>3, <2>5
  <2> QED
    BY <2>4, <2>5
<1>2. DOMAIN f = DOMAIN Armed /\ f = [id \in DOMAIN f |-> f[id]]
  OBVIOUS
<1>3. /\ Len(timers') = Len(timers)
      /\ \A i \in 1 .. Len(timers) : timers'[i].id = timers[i].id
  BY RearmList DEF Mapped, TypeInv
<1> HIDE DEF f
<1>4. Armed' = f
  BY <1>1, <1>2, <1>3, SamePlaces
<1> QED
  BY <1>4 DEF f

(* Time makes every timer older, up to the bound. *)
LEMMA TickAges ==
    ASSUME Mapped, Mapped', Tick
    PROVE  Armed' = [id \in DOMAIN Armed |->
                        IF Armed[id].age < Armed[id].period * TicksPerMs + MaxLate
                        THEN [Armed[id] EXCEPT !.age = @ + 1]
                        ELSE Armed[id]]
<1> DEFINE f == [id \in DOMAIN Armed |->
                        IF Armed[id].age < Armed[id].period * TicksPerMs + MaxLate
                        THEN [Armed[id] EXCEPT !.age = @ + 1]
                        ELSE Armed[id]]
<1>1. ASSUME NEW i \in 1 .. Len(timers)
      PROVE  f[timers[i].id] = Entry(timers'[i])
  <2> DEFINE t == timers[i]
             v == t.period * TicksPerMs
             d == t.due
  <2>1. /\ i \in DOMAIN timers /\ t \in TimerInfo /\ Distinct(timers)
    BY MappedLists
  <2>2. Armed[t.id] = Entry(t) /\ t.id \in DOMAIN Armed
    BY <2>1, ArmedIsView, ViewOfNode DEF View
  <2>3. timers'[i] = IF t.due > -MaxLate
                     THEN [t EXCEPT !.due = t.due - 1]
                     ELSE t
    BY <2>1 DEF Tick
  <2>4. v \in Int /\ d \in Int /\ MaxLate \in Int
    BY <2>1, DispatcherConstants DEF TimerInfo
  <2>5. Entry(t) = [period |-> t.period, age |-> v - d]
    BY DEF Entry
  <2>6. f[t.id] = IF v - d < v + MaxLate
                  THEN [period |-> t.period, age |-> v - d + 1]
                  ELSE Entry(t)
    BY <2>2, <2>5
  <2>7. Entry([t EXCEPT !.due = d - 1]) = [period |-> t.period, age |-> v - (d - 1)]
    <3>1. d - 1 \in Int
      BY <2>4
    <3> HIDE DEF t, d
    <3> QED
      BY <2>1, <3>1, EntryOfExpirySet
  <2> HIDE DEF t, v, d
  <2>8. /\ (v - d < v + MaxLate) = (d > -MaxLate)
        /\ v - (d - 1) = v - d + 1
    BY <2>4
  <2>9. CASE d > -MaxLate
    BY <2>3, <2>6, <2>7, <2>8, <2>9 DEF d, t
  <2>10. CASE ~ d > -MaxLate
    BY <2>3, <2>6, <2>8, <2>10 DEF d, t
  <2> QED
    BY <2>9, <2>10
<1>2. DOMAIN f = DOMAIN Armed /\ f = [id \in DOMAIN f |-> f[id]]
  OBVIOUS
<1>3. /\ Len(timers') = Len(timers)
      /\ \A i \in 1 .. Len(timers) : timers'[i].id = timers[i].id
  BY TickList DEF Mapped, TypeInv
<1> HIDE DEF f
<1>4. Armed' = f
  BY <1>1, <1>2, <1>3, SamePlaces
<1> QED
  BY <1>4 DEF f

(* A callback starts for a timer that is old enough. *)
LEMMA FireTimerStarts ==
    ASSUME Mapped, FireTimer
    PROVE  /\ cursor \in DOMAIN Armed
           /\ Armed[cursor].age >= Armed[cursor].period * TicksPerMs
<1>1. cursor \in Ids /\ Info(cursor).due <= 0
  BY DEF Mapped, CursorOK, FireTimer
<1>2. /\ cursor \in DOMAIN Armed
      /\ Armed[cursor] = Entry(Info(cursor))
  BY <1>1 DEF Armed, Entry
<1>3. Info(cursor) \in TimerInfo
  <2>1. \A i \in DOMAIN timers : timers[i] \in TimerInfo
    BY ElementOfSeq, LenProperties DEF Mapped, TypeInv, TypeOK
  <2> QED
    BY <1>1, <2>1 DEF Info, Ids
<1> DEFINE t == Info(cursor)
           v == t.period * TicksPerMs
           d == t.due
<1>4. v \in Int /\ d \in Int
  BY <1>3, DispatcherConstants DEF TimerInfo
<1>5. Entry(t).age = v - d /\ Entry(t).period = t.period
  BY DEF Entry
<1> HIDE DEF t
<1>6. v - d >= v
  <2>1. d <= 0
    BY <1>1 DEF t
  <2> HIDE DEF v, d
  <2> QED
    BY <1>4, <2>1
<1> QED
  BY <1>2, <1>5, <1>6 DEF t

-----------------------------------------------------------------------------
(* The refinement. *)

(* The steps the client does not see. *)
LEMMA HiddenSteps ==
    ASSUME Mapped, UNCHANGED timerVars, RunningTimer' = RunningTimer
    PROVE  UNCHANGED <<Armed, RunningTimer, nextTimerId - 1>>
  BY DEF timerVars, Armed, Ids, Info

LEMMA FilesAndLoopHidden ==
    ASSUME [Next]_vars,
           ~ \E p \in Periods : AddTimer(p),
           ~ \E id \in Ids : RemoveTimer(id),
           ~ FireTimer, ~ TimerCallbackReturns, ~ TimerCallbackDangles, ~ Tick
    PROVE  UNCHANGED timerVars /\ RunningTimer' = RunningTimer
<1> USE DEF RunningTimer
<1>1. CASE Client
  <2>1. UNCHANGED <<timerVars, loopVars>>
    BY <1>1 DEF Client, AddFile, RemoveFile, CloseFd, OpenFd
  <2> QED
    BY <2>1 DEF loopVars
<1>2. CASE Loop
  <2>1. UNCHANGED timerVars /\ pc # "timerCallback" /\ pc' # "timerCallback"
    BY <1>2 DEF Loop, EnterWait, WakeTimeout, WakeInterrupted,
                WakeWithoutEvents, StartTimerPass, WakeReady, CallFile,
                FileCallbackReturns, UnexpectedEvent, EventsDone, StopTimerPass
  <2> QED
    BY <2>1
<1>3. CASE UNCHANGED vars
  BY <1>3 DEF vars, loopVars
<1> QED
  BY <1>1, <1>2, <1>3 DEF Next

LEMMA StepsImplementService ==
    ASSUME Mapped, Mapped', [Next]_vars
    PROVE  [Service!Next]_(Service!vars)
<1> DEFINE lastId == nextTimerId - 1
<1>0. /\ nextTimerId \in Nat \ {0} /\ MaxTimerId \in Nat
      /\ cursor \in Nat
      /\ Ids \subseteq Nat \ {0}
      /\ DOMAIN Armed = Ids
  BY DispatcherConstants, IdsArePositive DEF Mapped, TypeInv, TypeOK, Armed
<1>1. ASSUME NEW p \in Periods, AddTimer(p)
      PROVE  Service!Register(p)
  <2>1. /\ nextTimerId <= MaxTimerId /\ nextTimerId' = nextTimerId + 1
        /\ UNCHANGED loopVars
    BY <1>1 DEF AddTimer
  <2>2. lastId < MaxTimerId /\ (nextTimerId - 1)' = lastId + 1
        /\ (nextTimerId - 1)' = nextTimerId
    BY <1>0, <2>1
  <2>3. Armed' = [id \in DOMAIN Armed \union {nextTimerId} |->
                      IF id = nextTimerId THEN [period |-> p, age |-> 0]
                      ELSE Armed[id]]
    BY <1>1, AddTimerRegisters
  <2>4. RunningTimer' = RunningTimer
    BY <2>1 DEF loopVars, RunningTimer
  <2> QED
    BY <2>2, <2>3, <2>4, Zenon DEF Service!Register, RunningTimer
<1>2. ASSUME NEW id \in Ids, RemoveTimer(id)
      PROVE  Service!Unregister(id)
  <2>1. Armed' = [other \in DOMAIN Armed \ {id} |-> Armed[other]]
    BY <1>2, RemoveTimerUnregisters
  <2>2. RunningTimer' = RunningTimer /\ (nextTimerId - 1)' = nextTimerId - 1
    BY <1>2 DEF RemoveTimer, loopVars, RunningTimer
  <2> QED
    BY <2>1, <2>2, Zenon DEF Service!Unregister, RunningTimer
<1>3. ASSUME FireTimer
      PROVE  cursor \in DOMAIN Armed /\ Service!Start(cursor)
  <2>1. RunningTimer = 0 /\ RunningTimer' = cursor /\ UNCHANGED timerVars
    BY <1>3 DEF FireTimer, RunningTimer
  <2>2. Armed' = Armed /\ (nextTimerId - 1)' = nextTimerId - 1
    BY <2>1 DEF timerVars, Armed, Ids, Info
  <2> QED
    BY <1>3, <2>1, <2>2, FireTimerStarts, Zenon DEF Service!Start, RunningTimer
<1>4. ASSUME TimerCallbackReturns
      PROVE  Service!Finish
  <2>1. RunningTimer = cursor /\ RunningTimer' = 0 /\ cursor # 0
        /\ (nextTimerId - 1)' = nextTimerId - 1
    BY <1>0, <1>4 DEF TimerCallbackReturns, RunningTimer
  <2>2. Armed' = [id \in DOMAIN Armed |->
                      IF id = cursor THEN [Armed[id] EXCEPT !.age = 0]
                      ELSE Armed[id]]
    BY <1>4, CallbackEndRearms
  <2> QED
    BY <2>1, <2>2, Zenon DEF Service!Finish, RunningTimer
<1>5. ASSUME TimerCallbackDangles
      PROVE  Service!Finish \/ UNCHANGED Service!vars
  <2>1. RunningTimer = cursor /\ RunningTimer' = 0 /\ UNCHANGED timerVars /\ cursor \notin Ids
    BY <1>5 DEF TimerCallbackDangles, RunningTimer
  <2>2. Armed' = Armed /\ (nextTimerId - 1)' = nextTimerId - 1
    BY <2>1 DEF timerVars, Armed, Ids, Info
  <2>3. CASE cursor = 0
    BY <2>1, <2>2, <2>3 DEF Service!vars, RunningTimer
  <2>4. CASE cursor # 0
    <3>1. Armed = [id \in DOMAIN Armed |->
                       IF id = cursor THEN [Armed[id] EXCEPT !.age = 0]
                       ELSE Armed[id]]
      <4>1. \A id \in DOMAIN Armed : id # cursor
        BY <1>0, <2>1
      <4>2. Armed = [id \in DOMAIN Armed |-> Armed[id]]
        BY DEF Armed
      <4> QED
        BY <4>1, <4>2
    <3> QED
      BY <2>1, <2>2, <2>4, <3>1, Zenon DEF Service!Finish, RunningTimer
  <2> QED
    BY <2>3, <2>4
<1>6. ASSUME Tick
      PROVE  Service!Tick
  <2>1. RunningTimer' = RunningTimer /\ (nextTimerId - 1)' = nextTimerId - 1
    BY <1>6 DEF Tick, RunningTimer
  <2>2. Armed' = [id \in DOMAIN Armed |->
                      IF Armed[id].age < Armed[id].period * TicksPerMs + MaxLate
                      THEN [Armed[id] EXCEPT !.age = @ + 1]
                      ELSE Armed[id]]
    BY <1>6, TickAges
  <2> QED
    BY <2>1, <2>2, Zenon DEF Service!Tick, RunningTimer
<1>7. ASSUME UNCHANGED timerVars, RunningTimer' = RunningTimer
      PROVE  UNCHANGED Service!vars
  BY <1>7, HiddenSteps DEF Service!vars, RunningTimer
<1> QED
  <2>1. CASE \E p \in Periods : AddTimer(p)
    BY <1>1, <2>1 DEF Service!Next
  <2>2. CASE \E id \in Ids : RemoveTimer(id)
    BY <1>0, <1>2, <2>2 DEF Service!Next
  <2>3. CASE FireTimer
    BY <1>3, <2>3 DEF Service!Next
  <2>4. CASE TimerCallbackReturns \/ TimerCallbackDangles \/ Tick
    BY <1>4, <1>5, <1>6, <2>4 DEF Service!Next
  <2> QED
    BY <1>7, <2>1, <2>2, <2>3, <2>4, FilesAndLoopHidden

(* Callbacks start only for registered timers, a full period after they were
   armed and one at a time, and no id comes back: whatever the order of the
   list, the sleep of the loop, and the calls from callbacks and threads. *)
THEOREM DispatcherImplementsTimerService == Spec => ImplementsTimerService
<1>1. Init => Service!Init
  <2>1. ASSUME Init PROVE Armed = <<>>
    BY <2>1 DEF Init, Armed, Ids
  <2> QED
    BY <2>1 DEF Init, Service!Init
<1>2. Mapped /\ Mapped' /\ [Next]_vars => [Service!Next]_(Service!vars)
  BY StepsImplementService
<1> QED
  BY <1>1, <1>2, MappedInvariance, PTL DEF Spec, Service!Spec, ImplementsTimerService

=============================================================================
