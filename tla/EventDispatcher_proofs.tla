----------------------- MODULE EventDispatcher_proofs -----------------------
(***************************************************************************)
(* Invariants of EventDispatcher, for every value of its constants.        *)
(***************************************************************************)
EXTENDS EventDispatcher, SequenceTheorems, FunctionTheorems,
        FiniteSetTheorems, TLAPS

-----------------------------------------------------------------------------
(* Sequences. *)

(* A function on 1 .. n is a sequence of length n. *)
LEMMA FunctionIsSeq ==
    ASSUME NEW S, NEW n \in Nat, NEW f \in [1 .. n -> S]
    PROVE  f \in Seq(S) /\ Len(f) = n /\ DOMAIN f = 1 .. n
  OBVIOUS

(* RemoveAt(s, k), the list without its k-th node. *)
LEMMA RemoveAtProperties ==
    ASSUME NEW S, NEW s \in Seq(S), NEW k \in 1 .. Len(s)
    PROVE  /\ RemoveAt(s, k) \in Seq(S)
           /\ Len(RemoveAt(s, k)) = Len(s) - 1
           /\ \A j \in 1 .. Len(s) - 1 :
                  RemoveAt(s, k)[j] = IF j < k THEN s[j] ELSE s[j + 1]
<1> DEFINE a == SubSeq(s, 1, k - 1)
           b == SubSeq(s, k + 1, Len(s))
<1>1. /\ a \in Seq(S)
      /\ Len(a) = k - 1
      /\ \A i \in 1 .. k - 1 : a[i] = s[i]
  <2>1. \A i \in 1 .. k - 1 : s[i] \in S
    OBVIOUS
  <2> QED
    BY <2>1, SubSeqProperties
<1>2. /\ b \in Seq(S)
      /\ Len(b) = Len(s) - k
      /\ \A i \in 1 .. Len(s) - k : b[i] = s[k + i]
  <2>1. \A i \in k + 1 .. Len(s) : s[i] \in S
    OBVIOUS
  <2>2. \A i \in 1 .. Len(s) - k : k + 1 + i - 1 = k + i
    OBVIOUS
  <2> QED
    BY <2>1, <2>2, SubSeqProperties
<1> HIDE DEF a, b
<1>3. /\ a \o b \in Seq(S)
      /\ Len(a \o b) = Len(s) - 1
      /\ \A i \in 1 .. Len(s) - 1 :
             (a \o b)[i] = IF i <= k - 1 THEN a[i] ELSE b[i - (k - 1)]
  BY <1>1, <1>2, ConcatProperties
<1>4. ASSUME NEW j \in 1 .. Len(s) - 1
      PROVE  (a \o b)[j] = IF j < k THEN s[j] ELSE s[j + 1]
  <2>1. CASE j < k
    BY <1>1, <1>3, <2>1
  <2>2. CASE ~(j < k)
    BY <1>2, <1>3, <2>2
  <2> QED
    BY <2>1, <2>2
<1> QED
  BY <1>3, <1>4 DEF RemoveAt, a, b


-----------------------------------------------------------------------------
(* The effect of each operation on the list of timers. *)

(* addTimer appends a node and permutes the list. *)
LEMMA AddTimerList ==
    ASSUME TypeOK, NEW p \in Periods, AddTimer(p)
    PROVE  LET n == Len(timers) + 1
               grown == Append(timers, [id |-> nextTimerId, period |-> p,
                                        due |-> p * TicksPerMs])
           IN  /\ timers' \in Seq(TimerInfo)
               /\ Len(timers') = n
               /\ \E o \in Injection(1 .. n, 1 .. n) :
                      /\ o \in Surjection(1 .. n, 1 .. n)
                      /\ \A i \in 1 .. n : timers'[i] = grown[o[i]]
<1> DEFINE new == [id |-> nextTimerId, period |-> p, due |-> p * TicksPerMs]
           grown == Append(timers, new)
           n == Len(timers) + 1
<1>1. new \in TimerInfo
  <2>1. p * TicksPerMs \in Int
    BY DispatcherConstants
  <2> QED
    BY <2>1, DispatcherConstants DEF TypeOK, TimerInfo
<1>2. timers \in Seq(TimerInfo)
  BY DEF TypeOK
<1> HIDE DEF new
<1>3. /\ grown \in Seq(TimerInfo)
      /\ Len(grown) = n
      /\ n \in Nat
  BY <1>1, <1>2, AppendProperties
<1>4. PICK o \in SortOrders(grown) :
          timers' = [i \in 1 .. Len(grown) |-> grown[o[i]]]
  BY DEF AddTimer, new
<1> HIDE DEF grown, n
<1>5. o \in Injection(1 .. n, 1 .. n)
  BY <1>3, <1>4 DEF SortOrders
<1>6. o \in Surjection(1 .. n, 1 .. n)
  <2>1. IsFiniteSet(1 .. n)
    BY <1>3, FS_Interval
  <2> QED
    BY <1>5, <2>1, FS_Injection
<1>7. \A i \in 1 .. n : o[i] \in 1 .. n
  <2>1. o \in [1 .. n -> 1 .. n]
    BY <1>5, Fun_InjectionProperties
  <2> QED
    BY <2>1
<1>8. timers' \in [1 .. n -> TimerInfo]
  BY <1>3, <1>4, <1>7, ElementOfSeq
<1>9. /\ timers' \in Seq(TimerInfo)
      /\ Len(timers') = n
  BY <1>3, <1>8, FunctionIsSeq
<1>10. \A i \in 1 .. n : timers'[i] = grown[o[i]]
  BY <1>3, <1>4
<1> QED
  BY <1>5, <1>6, <1>9, <1>10 DEF new, grown, n

(* Setting the expiry of a node leaves its id and period. *)
LEMMA ExpirySet ==
    ASSUME NEW r \in TimerInfo, NEW v \in Int
    PROVE  /\ [r EXCEPT !.due = v] \in TimerInfo
           /\ [r EXCEPT !.due = v].id = r.id
           /\ [r EXCEPT !.due = v].due = v
  BY DEF TimerInfo

(* The clock moves expiries, and no node. *)
LEMMA TickList ==
    ASSUME TypeOK, Tick
    PROVE  /\ timers' \in Seq(TimerInfo)
           /\ Len(timers') = Len(timers)
           /\ \A i \in 1 .. Len(timers) : timers'[i].id = timers[i].id
<1>1. /\ timers \in Seq(TimerInfo)
      /\ Len(timers) \in Nat
      /\ DOMAIN timers = 1 .. Len(timers)
  BY LenProperties DEF TypeOK
<1>2. ASSUME NEW i \in DOMAIN timers
      PROVE  /\ timers'[i] \in TimerInfo
             /\ timers'[i].id = timers[i].id
  <2>1. timers[i] \in TimerInfo
    BY <1>1, ElementOfSeq
  <2>2. timers[i].due - 1 \in Int
    BY <2>1 DEF TimerInfo
  <2>3. timers'[i] = IF timers[i].due > -MaxLate
                     THEN [timers[i] EXCEPT !.due = timers[i].due - 1]
                     ELSE timers[i]
    BY DEF Tick
  <2> QED
    BY <2>1, <2>2, <2>3, ExpirySet
<1>3. timers' \in [1 .. Len(timers) -> TimerInfo]
  BY <1>1, <1>2 DEF Tick
<1> QED
  BY <1>1, <1>2, <1>3, FunctionIsSeq

(* Rearming a timer moves its expiry, and no node. *)
LEMMA RearmList ==
    ASSUME TypeOK, TimerCallbackReturns
    PROVE  /\ timers' \in Seq(TimerInfo)
           /\ Len(timers') = Len(timers)
           /\ \A i \in 1 .. Len(timers) : timers'[i].id = timers[i].id
<1>1. /\ timers \in Seq(TimerInfo)
      /\ Len(timers) \in Nat
      /\ DOMAIN timers = 1 .. Len(timers)
  BY LenProperties DEF TypeOK
<1>2. ASSUME NEW i \in DOMAIN timers
      PROVE  /\ timers'[i] \in TimerInfo
             /\ timers'[i].id = timers[i].id
  <2>1. timers[i] \in TimerInfo
    BY <1>1, ElementOfSeq
  <2>2. timers[i].period * TicksPerMs \in Int
    BY <2>1, DispatcherConstants DEF TimerInfo
  <2>3. timers'[i] = IF timers[i].id = cursor
                     THEN [timers[i] EXCEPT !.due = timers[i].period * TicksPerMs]
                     ELSE timers[i]
    BY DEF TimerCallbackReturns
  <2> QED
    BY <2>1, <2>2, <2>3, ExpirySet
<1>3. timers' \in [1 .. Len(timers) -> TimerInfo]
  BY <1>1, <1>2 DEF TimerCallbackReturns
<1> QED
  BY <1>1, <1>2, <1>3, FunctionIsSeq

(* removeTimer takes one node out; the others keep their order. *)
LEMMA RemoveTimerList ==
    ASSUME TypeOK, NEW id, RemoveTimer(id)
    PROVE  \E k \in 1 .. Len(timers) :
               /\ timers[k].id = id
               /\ timers' \in Seq(TimerInfo)
               /\ Len(timers') = Len(timers) - 1
               /\ \A j \in 1 .. Len(timers) - 1 :
                      timers'[j] = IF j < k THEN timers[j] ELSE timers[j + 1]
<1>1. /\ timers \in Seq(TimerInfo)
      /\ DOMAIN timers = 1 .. Len(timers)
  BY LenProperties DEF TypeOK
<1>2. PICK k \in DOMAIN timers :
          timers[k].id = id /\ timers' = RemoveAt(timers, k)
  BY DEF RemoveTimer
<1> QED
  BY <1>1, <1>2, RemoveAtProperties

-----------------------------------------------------------------------------
(* Ids: the iterator and the node it denotes. *)

(* The node behind a node of the list is a node of the list, or its end. *)
LEMMA SuccessorInList ==
    ASSUME TypeOK, NEW id \in Ids
    PROVE  Successor(id) \in Ids \union {0}
<1>1. /\ Len(timers) \in Nat
      /\ DOMAIN timers = 1 .. Len(timers)
  BY LenProperties DEF TypeOK
<1> DEFINE i == CHOOSE i \in DOMAIN timers : timers[i].id = id
<1>2. i \in DOMAIN timers
  BY DEF Ids
<1>3. Successor(id) = IF i < Len(timers) THEN timers[i + 1].id ELSE 0
  BY DEF Successor
<1> HIDE DEF i
<1>4. i < Len(timers) => i + 1 \in DOMAIN timers
  BY <1>1, <1>2
<1> QED
  BY <1>3, <1>4 DEF Ids

(* The first node is in the list, or the list is empty. *)
LEMMA FirstTimerInList ==
    ASSUME TypeOK
    PROVE  FirstTimer \in Ids \union {0}
<1>1. timers # <<>> => 1 \in DOMAIN timers /\ Head(timers) = timers[1]
  BY EmptySeq, LenProperties DEF TypeOK
<1> QED
  BY <1>1 DEF FirstTimer, Ids

(* Ids are positive. *)
LEMMA IdsArePositive ==
    ASSUME TypeOK
    PROVE  Ids \subseteq Nat \ {0}
<1>1. \A i \in DOMAIN timers : timers[i] \in TimerInfo
  BY ElementOfSeq, LenProperties DEF TypeOK
<1> QED
  BY <1>1 DEF Ids, TimerInfo

-----------------------------------------------------------------------------
(* Type correctness. *)

(* What the place of the loop says of its variables. *)
LoopShape ==
    /\ pc = "fileCallback" => events # <<>>
    /\ cursor # 0 => pc \in {"timers", "timerCallback"}

(* The inductive invariant every other one rests on. *)
TypeInv == TypeOK /\ LoopShape

(* What epoll_wait hands over is well typed: descriptors of the epoll set,
   with masks that belong to the flag each is watched for. *)
LEMMA WokenEvents ==
    ASSUME TypeOK, WakeReady
    PROVE  events' \in Seq(EventInfo)
<1> DEFINE watched == {fd \in Fds : epoll[fd] # 0}
           AllMasks == UNION {Masks(Flag(op)) : op \in FileOperation}
<1>1. PICK fds \in SetToAllKPermutations(watched) :
          \E masks \in [1 .. Len(fds) ->
                           UNION {Masks(epoll[fd]) : fd \in Range(fds)}] :
              /\ \A i \in 1 .. Len(fds) : masks[i] \in Masks(epoll[fds[i]])
              /\ events' = [i \in 1 .. Len(fds) |->
                                [fd |-> fds[i], events |-> masks[i]]]
  BY DEF WakeReady
<1>2. PICK s \in SUBSET watched : fds \in SetToSeqs(s)
  BY DEF SetToAllKPermutations
<1>3. Cardinality(s) \in Nat
  <2>1. IsFiniteSet(s)
    BY DispatcherConstants, FS_Subset
  <2> QED
    BY <2>1, FS_CardinalityType
<1>4. fds \in [1 .. Cardinality(s) -> s]
  BY <1>2 DEF SetToSeqs
<1>5. /\ Len(fds) \in Nat
      /\ \A i \in 1 .. Len(fds) : fds[i] \in watched
  BY <1>3, <1>4, FunctionIsSeq
<1>6. PICK masks :
          /\ \A i \in 1 .. Len(fds) : masks[i] \in Masks(epoll[fds[i]])
          /\ events' = [i \in 1 .. Len(fds) |->
                            [fd |-> fds[i], events |-> masks[i]]]
  BY <1>1
<1>7. \A fd \in watched : Masks(epoll[fd]) \subseteq AllMasks
  <2>1. \A fd \in watched : \E op \in FileOperation : epoll[fd] = Flag(op)
    BY DEF TypeOK, FileOperation, Flag, Read, Write, Error,
           EPOLLIN, EPOLLOUT, EPOLLERR
  <2> QED
    BY <2>1
<1>8. \A i \in 1 .. Len(fds) : [fd |-> fds[i], events |-> masks[i]] \in EventInfo
  <2>1. \A i \in 1 .. Len(fds) : masks[i] \in AllMasks
    BY <1>5, <1>6, <1>7
  <2> HIDE DEF AllMasks
  <2>2. EventInfo = [fd : Fds, events : AllMasks]
    BY DEF EventInfo, AllMasks
  <2> QED
    BY <1>5, <2>1, <2>2
<1>9. events' \in [1 .. Len(fds) -> EventInfo]
  BY <1>6, <1>8
<1> QED
  BY <1>5, <1>9, FunctionIsSeq

(* The timeout handed to epoll_wait is a duration or Forever. *)
LEMMA TimeoutType ==
    ASSUME TypeOK
    PROVE  EpollTimeout(timeoutMs) \in Nat \union {Forever}
<1>1. timeoutMs \in Int
  <2>1. CASE timers = <<>>
    BY <2>1 DEF timeoutMs
  <2>2. CASE timers # <<>>
    <3>1. Head(timers).due \in Int
      <4>1. Head(timers) \in TimerInfo
        BY <2>2, HeadTailProperties DEF TypeOK
      <4> QED
        BY <4>1 DEF TimerInfo
    <3> DEFINE d == Head(timers).due
    <3>2. timeoutMs = CeilMs(d)
      BY <2>2 DEF timeoutMs
    <3> HIDE DEF d
    <3>3. d \in Int
      BY <3>1 DEF d
    <3>4. (-d) \div TicksPerMs \in Int
      BY <3>3, DispatcherConstants
    <3> QED
      BY <3>2, <3>4 DEF CeilMs
  <2> QED
    BY <2>1, <2>2
<1> HIDE DEF timeoutMs
<1>2. CASE timeoutMs < 0
  BY <1>2 DEF EpollTimeout
<1>3. CASE ~(timeoutMs < 0)
  <2>1. timeoutMs * TicksPerMs \in Nat
    BY <1>1, <1>3, DispatcherConstants
  <2> QED
    BY <1>3, <2>1 DEF EpollTimeout
<1> QED
  BY <1>2, <1>3

(* Every step of the loop keeps the variables in their domains. *)
LEMMA LoopTypeOK ==
    ASSUME TypeInv, Loop
    PROVE  TypeInv'
<1> USE DEF timerVars, fileVars, TypeInv, LoopShape
<1>1. FirstTimer \in Nat
  BY FirstTimerInList, IdsArePositive
<1>2. CASE EnterWait
  BY <1>2, TimeoutType DEF TypeOK, EnterWait, PC
<1>3. CASE WakeTimeout \/ WakeInterrupted
  BY <1>1, <1>3 DEF TypeOK, WakeTimeout, WakeInterrupted, WakeWithoutEvents,
                    StartTimerPass, PC
<1>4. CASE WakeReady
  BY <1>4, WokenEvents DEF TypeOK, WakeReady, PC
<1>5. CASE CallFile
  BY <1>5 DEF TypeOK, CallFile, PC
<1>6. CASE FileCallbackReturns \/ UnexpectedEvent
  <2>1. events # <<>>
    BY <1>6 DEF FileCallbackReturns, UnexpectedEvent
  <2>2. Tail(events) \in Seq(EventInfo)
    BY <2>1, HeadTailProperties DEF TypeOK
  <2> QED
    BY <1>6, <2>2 DEF TypeOK, FileCallbackReturns, UnexpectedEvent, PC
<1>7. CASE EventsDone
  BY <1>1, <1>7 DEF TypeOK, EventsDone, StartTimerPass, PC
<1>8. CASE FireTimer
  BY <1>8 DEF TypeOK, FireTimer, PC
<1>9. CASE TimerCallbackReturns
  <2>1. cursor' \in Nat
    BY <1>9, SuccessorInList, IdsArePositive DEF TimerCallbackReturns
  <2>2. timers' \in Seq(TimerInfo)
    BY <1>9, RearmList
  <2> QED
    BY <1>9, <2>1, <2>2 DEF TypeOK, TimerCallbackReturns, PC
<1>10. CASE TimerCallbackDangles
  BY <1>10 DEF TypeOK, TimerCallbackDangles, PC
<1>11. CASE StopTimerPass
  BY <1>11 DEF TypeOK, StopTimerPass, PC
<1> QED
  BY <1>2, <1>3, <1>4, <1>5, <1>6, <1>7, <1>8, <1>9, <1>10, <1>11 DEF Loop

(* So does every call of a client. *)
LEMMA ClientTypeOK ==
    ASSUME TypeInv, Client
    PROVE  TypeInv'
<1> USE DEF timerVars, fileVars, loopVars, TypeInv, LoopShape
<1>1. CASE \E p \in Periods : AddTimer(p)
  <2>1. PICK p \in Periods : AddTimer(p)
    BY <1>1
  <2>2. timers' \in Seq(TimerInfo)
    BY <2>1, AddTimerList
  <2>3. nextTimerId' = nextTimerId + 1 /\ UNCHANGED <<fileVars, loopVars>>
    BY <2>1 DEF AddTimer
  <2> QED
    BY <2>2, <2>3 DEF TypeOK
<1>2. CASE \E id \in Ids : RemoveTimer(id)
  <2>1. timers' \in Seq(TimerInfo)
    BY <1>2, RemoveTimerList
  <2> QED
    BY <1>2, <2>1 DEF TypeOK, RemoveTimer
<1>3. CASE \E fd \in Fds, op \in FileOperation : AddFile(fd, op) \/ RemoveFile(fd, op)
  <2>1. PICK fd \in Fds, op \in FileOperation : AddFile(fd, op) \/ RemoveFile(fd, op)
    BY <1>3
  <2>2. Flag(op) \in {0, EPOLLIN, EPOLLOUT, EPOLLERR}
    BY DEF FileOperation, Flag, Read, Write, Error
  <2>3. /\ epoll' \in [Fds -> {0, EPOLLIN, EPOLLOUT, EPOLLERR}]
        /\ files' \subseteq Fds \X FileOperation
    <3>1. CASE AddFile(fd, op)
      BY <2>2, <3>1 DEF TypeOK, AddFile
    <3>2. CASE RemoveFile(fd, op)
      BY <3>2 DEF TypeOK, RemoveFile
    <3> QED
      BY <2>1, <3>1, <3>2
  <2>4. UNCHANGED <<open, timerVars, loopVars>>
    BY <2>1 DEF AddFile, RemoveFile
  <2> QED
    BY <2>3, <2>4 DEF TypeOK
<1>4. CASE \E fd \in Fds : CloseFd(fd) \/ OpenFd(fd)
  BY <1>4 DEF TypeOK, CloseFd, OpenFd
<1> QED
  BY <1>1, <1>2, <1>3, <1>4 DEF Client

LEMMA TypeInvariance == Spec => []TypeInv
<1> USE DEF TypeInv, LoopShape
<1>1. Init => TypeInv
  BY EmptySeq DEF Init, TypeOK, PC, Forever
<1>2. TypeInv /\ [Next]_vars => TypeInv'
  <2> SUFFICES ASSUME TypeInv, [Next]_vars PROVE TypeInv'
    OBVIOUS
  <2>1. CASE Tick
    <3>1. wait' \in Nat \union {Forever}
      BY <2>1 DEF TypeOK, Tick, Forever
    <3> QED
      BY <2>1, <3>1, TickList DEF TypeOK, Tick, fileVars
  <2>2. CASE UNCHANGED vars
    BY <2>2 DEF TypeOK, vars, timerVars, fileVars, loopVars
  <2> QED
    BY <2>1, <2>2, LoopTypeOK, ClientTypeOK DEF Next
<1> QED
  BY <1>1, <1>2, PTL DEF Spec

(* TypeOK holds in every reachable state. *)
THEOREM TypeCorrect == Spec => []TypeOK
  BY TypeInvariance, PTL DEF TypeInv

-----------------------------------------------------------------------------
(* Ids are unique. *)

(* addTimer gives the new node an id of its own, and sorting moves nodes
   without losing or doubling one. *)
LEMMA AddTimerUnique ==
    ASSUME TypeOK, UniqueIds, NEW p \in Periods, AddTimer(p)
    PROVE  UniqueIds'
<1> DEFINE n == Len(timers) + 1
           grown == Append(timers, [id |-> nextTimerId, period |-> p,
                                    due |-> p * TicksPerMs])
<1>1. /\ timers \in Seq(TimerInfo)
      /\ Len(timers) \in Nat
      /\ DOMAIN timers = 1 .. Len(timers)
      /\ nextTimerId \in Nat
  BY LenProperties DEF TypeOK
<1>2. \A k \in 1 .. n :
          grown[k].id = IF k = n THEN nextTimerId ELSE timers[k].id
  BY <1>1
<1>3. PICK o \in Injection(1 .. n, 1 .. n) :
          /\ timers' \in Seq(TimerInfo)
          /\ Len(timers') = n
          /\ \A i \in 1 .. n : timers'[i] = grown[o[i]]
  BY AddTimerList
<1> HIDE DEF grown
<1>4. /\ \A i \in 1 .. n : o[i] \in 1 .. n
      /\ \A i, j \in 1 .. n : o[i] = o[j] => i = j
  <2> HIDE DEF n
  <2>1. o \in [1 .. n -> 1 .. n]
    BY <1>3, Fun_InjectionProperties
  <2>2. \A i, j \in 1 .. n : o[i] = o[j] => i = j
    BY <1>3, Fun_InjectionProperties
  <2> QED
    BY <2>1, <2>2
<1>5. DOMAIN timers' = 1 .. n
  BY <1>3, LenProperties
<1>6. nextTimerId' = nextTimerId + 1
  BY DEF AddTimer
<1>7. \A k \in 1 .. n : k # n => timers[k].id \in Int /\ timers[k].id < nextTimerId
  <2>1. ASSUME NEW k \in 1 .. n, k # n
        PROVE  timers[k] \in TimerInfo
    BY <1>1, <2>1, ElementOfSeq
  <2>2. \A k \in 1 .. n : k # n => k \in DOMAIN timers
    BY <1>1
  <2> QED
    BY <2>1, <2>2 DEF UniqueIds, TimerInfo
<1>8. \A k, l \in 1 .. n : grown[k].id = grown[l].id => k = l
  <2>1. ASSUME NEW k \in 1 .. n, NEW l \in 1 .. n, k # n, l # n
        PROVE  timers[k].id = timers[l].id => k = l
    <3>1. k \in DOMAIN timers /\ l \in DOMAIN timers
      BY <1>1, <2>1
    <3> QED
      BY <3>1 DEF UniqueIds
  <2> QED
    BY <1>1, <1>2, <1>7, <2>1
<1>9. \A i \in 1 .. n : timers'[i].id < nextTimerId'
  <2>1. \A k \in 1 .. n : grown[k].id < nextTimerId + 1
    BY <1>1, <1>2, <1>7
  <2> QED
    BY <1>3, <1>4, <1>6, <2>1
<1>10. \A i, j \in 1 .. n : timers'[i].id = timers'[j].id => i = j
  BY <1>3, <1>4, <1>8
<1> QED
  BY <1>5, <1>9, <1>10 DEF UniqueIds

(* removeTimer moves the nodes behind the removed one, none onto another. *)
LEMMA RemoveTimerUnique ==
    ASSUME TypeOK, UniqueIds, NEW id, RemoveTimer(id)
    PROVE  UniqueIds'
<1>1. /\ Len(timers) \in Nat
      /\ DOMAIN timers = 1 .. Len(timers)
  BY LenProperties DEF TypeOK
<1>2. PICK k \in 1 .. Len(timers) :
          /\ timers' \in Seq(TimerInfo)
          /\ Len(timers') = Len(timers) - 1
          /\ \A j \in 1 .. Len(timers) - 1 :
                 timers'[j] = IF j < k THEN timers[j] ELSE timers[j + 1]
  BY RemoveTimerList
<1>3. DOMAIN timers' = 1 .. Len(timers) - 1
  BY <1>2, LenProperties
<1> DEFINE m(j) == IF j < k THEN j ELSE j + 1
<1>4. \A j \in 1 .. Len(timers) - 1 :
          m(j) \in DOMAIN timers /\ timers'[j] = timers[m(j)]
  BY <1>1, <1>2
<1>5. \A i, j \in 1 .. Len(timers) - 1 : m(i) = m(j) => i = j
  BY <1>1
<1>6. nextTimerId' = nextTimerId
  BY DEF RemoveTimer
<1> HIDE DEF m
<1>7. \A i \in DOMAIN timers' : timers'[i].id < nextTimerId'
  BY <1>3, <1>4, <1>6 DEF UniqueIds
<1>8. ASSUME NEW i \in DOMAIN timers', NEW j \in DOMAIN timers',
             timers'[i].id = timers'[j].id
      PROVE  i = j
  <2>1. /\ m(i) \in DOMAIN timers /\ timers'[i] = timers[m(i)]
        /\ m(j) \in DOMAIN timers /\ timers'[j] = timers[m(j)]
    BY <1>3, <1>4
  <2>2. m(i) = m(j)
    BY <1>8, <2>1 DEF UniqueIds
  <2> QED
    BY <1>3, <1>5, <2>2
<1> QED
  BY <1>7, <1>8 DEF UniqueIds

(* A step that leaves ids and their places alone. *)
LEMMA SameIdsUnique ==
    ASSUME TypeOK, UniqueIds,
           timers' \in Seq(TimerInfo), Len(timers') = Len(timers),
           \A i \in 1 .. Len(timers) : timers'[i].id = timers[i].id,
           nextTimerId' = nextTimerId
    PROVE  UniqueIds'
<1>1. DOMAIN timers = 1 .. Len(timers) /\ DOMAIN timers' = 1 .. Len(timers)
  BY LenProperties DEF TypeOK
<1> QED
  BY <1>1 DEF UniqueIds

(* Two timers never share an id, and no id is handed out again. *)
THEOREM IdsStayUnique == Spec => []UniqueIds
<1>1. Init => UniqueIds
  BY DEF Init, UniqueIds
<1>2. TypeInv /\ UniqueIds /\ [Next]_vars => UniqueIds'
  <2> SUFFICES ASSUME TypeInv, UniqueIds, [Next]_vars PROVE UniqueIds'
    OBVIOUS
  <2> USE DEF TypeInv
  <2>1. CASE \E p \in Periods : AddTimer(p)
    BY <2>1, AddTimerUnique
  <2>2. CASE \E id \in Ids : RemoveTimer(id)
    BY <2>2, RemoveTimerUnique
  <2>3. CASE TimerCallbackReturns
    <3>1. nextTimerId' = nextTimerId
      BY <2>3 DEF TimerCallbackReturns
    <3> QED
      BY <2>3, <3>1, RearmList, SameIdsUnique
  <2>4. CASE Tick
    <3>1. nextTimerId' = nextTimerId
      BY <2>4 DEF Tick
    <3> QED
      BY <2>4, <3>1, TickList, SameIdsUnique
  <2>5. CASE UNCHANGED timerVars
    BY <2>5 DEF timerVars, UniqueIds
  <2> QED
    BY <2>1, <2>2, <2>3, <2>4, <2>5
       DEF Next, Loop, Client, vars, EnterWait, WakeTimeout, WakeInterrupted,
           WakeWithoutEvents, WakeReady, CallFile, FileCallbackReturns,
           UnexpectedEvent, EventsDone, FireTimer, TimerCallbackDangles,
           StopTimerPass, AddFile, RemoveFile, CloseFd, OpenFd
<1> QED
  BY <1>1, <1>2, TypeInvariance, PTL DEF Spec

-----------------------------------------------------------------------------
(* The epoll set and m_files. *)

(* Each operation has a flag of its own, and none is 0. *)
LEMMA FlagIsOneToOne ==
    /\ \A op \in FileOperation : Flag(op) # 0
    /\ \A op1, op2 \in FileOperation : Flag(op1) = Flag(op2) => op1 = op2
<1>1. Flag(Read) = 1 /\ Flag(Write) = 4 /\ Flag(Error) = 8
  BY DEF Flag, Read, Write, Error, EPOLLIN, EPOLLOUT, EPOLLERR
<1> QED
  BY <1>1 DEF FileOperation, Read, Write, Error

(* The steps that touch neither m_files nor the epoll set. *)
LEMMA FilesUntouched ==
    ASSUME [Next]_vars,
           ~ \E fd \in Fds, op \in FileOperation : AddFile(fd, op) \/ RemoveFile(fd, op),
           ~ \E fd \in Fds : CloseFd(fd)
    PROVE  UNCHANGED <<files, epoll>>
  BY DEF Next, Loop, Client, vars, fileVars, EnterWait, WakeTimeout,
         WakeInterrupted, WakeWithoutEvents, WakeReady, CallFile,
         FileCallbackReturns, UnexpectedEvent, EventsDone, FireTimer,
         TimerCallbackReturns, TimerCallbackDangles, StopTimerPass, Tick,
         AddTimer, RemoveTimer, OpenFd

(* Nothing is watched for without a record in m_files, even when descriptors
   are closed and reused without the dispatcher. *)
THEOREM EpollStaysWithinFiles == Spec => []EpollWithinFiles
<1>1. Init => EpollWithinFiles
  BY DEF Init, EpollWithinFiles
<1>2. TypeInv /\ EpollWithinFiles /\ [Next]_vars => EpollWithinFiles'
  <2> SUFFICES ASSUME TypeInv, EpollWithinFiles, [Next]_vars
               PROVE  EpollWithinFiles'
    OBVIOUS
  <2>1. epoll \in [Fds -> {0, EPOLLIN, EPOLLOUT, EPOLLERR}]
    BY DEF TypeInv, TypeOK
  <2>2. ASSUME NEW fd \in Fds, NEW op \in FileOperation, AddFile(fd, op)
        PROVE  EpollWithinFiles'
    BY <2>1, <2>2 DEF AddFile, EpollWithinFiles
  <2>3. ASSUME NEW fd \in Fds, NEW op \in FileOperation, RemoveFile(fd, op)
        PROVE  EpollWithinFiles'
    <3>1. \A f \in Fds : epoll'[f] = IF f = fd THEN 0 ELSE epoll[f]
      BY <2>1, <2>3 DEF RemoveFile
    <3>2. \A f \in Fds, o \in FileOperation :
              f # fd /\ <<f, o>> \in files => <<f, o>> \in files'
      BY <2>3 DEF RemoveFile
    <3> QED
      BY <3>1, <3>2 DEF EpollWithinFiles
  <2>4. ASSUME NEW fd \in Fds, CloseFd(fd)
        PROVE  EpollWithinFiles'
    BY <2>1, <2>4 DEF CloseFd, EpollWithinFiles
  <2>5. CASE UNCHANGED <<files, epoll>>
    BY <2>5 DEF EpollWithinFiles
  <2> QED
    BY <2>2, <2>3, <2>4, <2>5, FilesUntouched
<1> QED
  BY <1>1, <1>2, TypeInvariance, PTL DEF Spec

(* While owners call removeFile before they close a descriptor, m_files and
   the epoll set agree key by key. *)
THEOREM OwnedFilesMirrorEpoll ==
    ASSUME ~CloseRegistered
    PROVE  Spec => []FilesMirrorEpoll
<1>1. Init => FilesMirrorEpoll
  BY FlagIsOneToOne DEF Init, FilesMirrorEpoll
<1>2. TypeInv /\ FilesMirrorEpoll /\ [Next]_vars => FilesMirrorEpoll'
  <2> SUFFICES ASSUME TypeInv, FilesMirrorEpoll, [Next]_vars
               PROVE  FilesMirrorEpoll'
    OBVIOUS
  <2>1. epoll \in [Fds -> {0, EPOLLIN, EPOLLOUT, EPOLLERR}]
    BY DEF TypeInv, TypeOK
  <2>2. ASSUME NEW fd \in Fds, NEW op \in FileOperation, AddFile(fd, op)
        PROVE  FilesMirrorEpoll'
    <3>1. \A f \in Fds : epoll'[f] = IF f = fd THEN Flag(op) ELSE epoll[f]
      BY <2>1, <2>2 DEF AddFile
    <3>2. \A f \in Fds, o \in FileOperation :
              <<f, o>> \in files' <=> <<f, o>> \in files \/ (f = fd /\ o = op)
      BY <2>2 DEF AddFile
    <3>3. \A o \in FileOperation : <<fd, o>> \notin files
      BY <2>2, FlagIsOneToOne DEF AddFile, FilesMirrorEpoll
    <3>4. ASSUME NEW f \in Fds, NEW o \in FileOperation
          PROVE  <<f, o>> \in files' <=> epoll'[f] = Flag(o)
      <4>1. CASE f = fd
        BY <3>1, <3>2, <3>3, <4>1, FlagIsOneToOne
      <4>2. CASE f # fd
        BY <3>1, <3>2, <4>2 DEF FilesMirrorEpoll
      <4> QED
        BY <4>1, <4>2
    <3> QED
      BY <3>4 DEF FilesMirrorEpoll
  <2>3. ASSUME NEW fd \in Fds, NEW op \in FileOperation, RemoveFile(fd, op)
        PROVE  FilesMirrorEpoll'
    <3>1. \A f \in Fds : epoll'[f] = IF f = fd THEN 0 ELSE epoll[f]
      BY <2>1, <2>3 DEF RemoveFile
    <3>2. \A f \in Fds, o \in FileOperation :
              <<f, o>> \in files' <=> <<f, o>> \in files /\ ~(f = fd /\ o = op)
      BY <2>3 DEF RemoveFile
    <3>3. \A o \in FileOperation : <<fd, o>> \in files => o = op
      BY <2>3, FlagIsOneToOne DEF RemoveFile, FilesMirrorEpoll
    <3> QED
      BY <3>1, <3>2, <3>3, FlagIsOneToOne DEF FilesMirrorEpoll
  <2>4. ASSUME NEW fd \in Fds, CloseFd(fd)
        PROVE  FilesMirrorEpoll'
    <3>1. \A f \in Fds : epoll'[f] = IF f = fd THEN 0 ELSE epoll[f]
      BY <2>1, <2>4 DEF CloseFd
    <3>2. files' = files /\ \A o \in FileOperation : <<fd, o>> \notin files
      BY <2>4 DEF CloseFd
    <3> QED
      BY <3>1, <3>2, FlagIsOneToOne DEF FilesMirrorEpoll
  <2>5. CASE UNCHANGED <<files, epoll>>
    BY <2>5 DEF FilesMirrorEpoll
  <2> QED
    BY <2>2, <2>3, <2>4, <2>5, FilesUntouched
<1> QED
  BY <1>1, <1>2, TypeInvariance, PTL DEF Spec

-----------------------------------------------------------------------------
(* The iterator of the loop over the timers. *)

(* addTimer loses no node, however the list is sorted. *)
LEMMA AddTimerKeepsIds ==
    ASSUME TypeOK, NEW p \in Periods, AddTimer(p)
    PROVE  Ids \subseteq Ids'
<1> DEFINE n == Len(timers) + 1
           grown == Append(timers, [id |-> nextTimerId, period |-> p,
                                    due |-> p * TicksPerMs])
<1>1. /\ Len(timers) \in Nat
      /\ DOMAIN timers = 1 .. Len(timers)
  BY LenProperties DEF TypeOK
<1>2. \A k \in 1 .. Len(timers) : grown[k] = timers[k] /\ k \in 1 .. n
  BY <1>1 DEF TypeOK
<1>3. PICK o \in Injection(1 .. n, 1 .. n) :
          /\ timers' \in Seq(TimerInfo)
          /\ Len(timers') = n
          /\ o \in Surjection(1 .. n, 1 .. n)
          /\ \A i \in 1 .. n : timers'[i] = grown[o[i]]
  BY AddTimerList
<1> HIDE DEF grown, n
<1>4. \A k \in 1 .. n : \E i \in 1 .. n : o[i] = k
  BY <1>3 DEF Surjection
<1>5. DOMAIN timers' = 1 .. n
  BY <1>3, LenProperties
<1>6. \A k \in DOMAIN timers : \E i \in DOMAIN timers' : timers'[i] = timers[k]
  <2>1. ASSUME NEW k \in DOMAIN timers
        PROVE  \E i \in DOMAIN timers' : timers'[i] = timers[k]
    <3>1. k \in 1 .. n /\ grown[k] = timers[k]
      BY <1>1, <1>2
    <3>2. PICK i \in 1 .. n : o[i] = k
      BY <1>4, <3>1
    <3> QED
      BY <1>3, <1>5, <3>1, <3>2
  <2> QED
    BY <2>1
<1> QED
  BY <1>6 DEF Ids

(* removeTimer loses one node only. *)
LEMMA RemoveTimerKeepsOthers ==
    ASSUME TypeOK, NEW id, RemoveTimer(id)
    PROVE  Ids \ {id} \subseteq Ids'
<1>1. /\ Len(timers) \in Nat
      /\ DOMAIN timers = 1 .. Len(timers)
  BY LenProperties DEF TypeOK
<1>2. PICK k \in 1 .. Len(timers) :
          /\ timers[k].id = id
          /\ timers' \in Seq(TimerInfo)
          /\ Len(timers') = Len(timers) - 1
          /\ \A j \in 1 .. Len(timers) - 1 :
                 timers'[j] = IF j < k THEN timers[j] ELSE timers[j + 1]
  BY RemoveTimerList
<1>3. DOMAIN timers' = 1 .. Len(timers) - 1
  BY <1>2, LenProperties
<1>4. ASSUME NEW i \in DOMAIN timers, i # k
      PROVE  \E j \in DOMAIN timers' : timers'[j] = timers[i]
  <2>1. CASE i < k
    BY <1>1, <1>2, <1>3, <2>1
  <2>2. CASE ~(i < k)
    <3>1. i - 1 \in DOMAIN timers' /\ ~(i - 1 < k) /\ (i - 1) + 1 = i
      BY <1>1, <1>3, <1>4, <2>2
    <3> QED
      BY <1>2, <1>3, <3>1
  <2> QED
    BY <2>1, <2>2
<1> QED
  BY <1>2, <1>4 DEF Ids

(* A step that moves expiries only keeps the set of ids. *)
LEMMA SameIdsKept ==
    ASSUME TypeOK, timers' \in Seq(TimerInfo), Len(timers') = Len(timers),
           \A i \in 1 .. Len(timers) : timers'[i].id = timers[i].id
    PROVE  Ids' = Ids
<1>1. DOMAIN timers = 1 .. Len(timers) /\ DOMAIN timers' = 1 .. Len(timers)
  BY LenProperties DEF TypeOK
<1> QED
  BY <1>1 DEF Ids

(* As long as no timer is removed while its own callback runs, the loop over
   m_timers never stands on a freed node, whatever callbacks add and remove. *)
THEOREM IteratorStaysValid ==
    ASSUME ~SelfRemove
    PROVE  Spec => []IteratorValid
<1>1. Init => IteratorValid
  BY DEF Init, IteratorValid
<1>2. TypeInv /\ IteratorValid /\ [Next]_vars => IteratorValid'
  <2> SUFFICES ASSUME TypeInv, IteratorValid, [Next]_vars
               PROVE  IteratorValid'
    OBVIOUS
  <2> USE DEF TypeInv
  <2>1. ASSUME NEW p \in Periods, AddTimer(p)
        PROVE  IteratorValid'
    <3>1. cursor' = cursor
      BY <2>1 DEF AddTimer, loopVars
    <3> QED
      BY <2>1, <3>1, AddTimerKeepsIds DEF IteratorValid
  <2>2. ASSUME NEW id \in Ids, RemoveTimer(id)
        PROVE  IteratorValid'
    <3>1. cursor' = cursor
      BY <2>2 DEF RemoveTimer, loopVars
    <3>2. cursor # 0 => cursor # id
      BY <2>2 DEF RemoveTimer, ClientMayCall, LoopShape
    <3> QED
      BY <2>2, <3>1, <3>2, RemoveTimerKeepsOthers DEF IteratorValid
  <2>3. CASE WakeTimeout \/ WakeInterrupted \/ EventsDone
    <3>1. cursor' = FirstTimer /\ timers' = timers
      BY <2>3 DEF WakeTimeout, WakeInterrupted, WakeWithoutEvents, EventsDone,
                  StartTimerPass, timerVars
    <3>2. Ids' = Ids
      BY <3>1 DEF Ids
    <3> QED
      BY <3>1, <3>2, FirstTimerInList DEF IteratorValid
  <2>4. CASE TimerCallbackReturns
    <3>1. cursor \in Ids /\ cursor' = Successor(cursor)
      BY <2>4 DEF TimerCallbackReturns
    <3>2. Ids' = Ids
      BY <2>4, RearmList, SameIdsKept
    <3> QED
      BY <3>1, <3>2, SuccessorInList DEF IteratorValid
  <2>5. CASE Tick
    <3>1. cursor' = cursor
      BY <2>5 DEF Tick
    <3>2. Ids' = Ids
      BY <2>5, TickList, SameIdsKept
    <3> QED
      BY <3>1, <3>2 DEF IteratorValid
  <2>6. CASE timers' = timers /\ cursor' \in {0, cursor}
    <3>1. Ids' = Ids
      BY <2>6 DEF Ids
    <3> QED
      BY <2>6, <3>1 DEF IteratorValid
  <2> QED
    BY <2>1, <2>2, <2>3, <2>4, <2>5, <2>6
       DEF Next, Loop, Client, vars, timerVars, loopVars, EnterWait, WakeReady,
           CallFile, FileCallbackReturns, UnexpectedEvent, FireTimer,
           TimerCallbackDangles, StopTimerPass, AddFile, RemoveFile, CloseFd,
           OpenFd
<1> QED
  BY <1>1, <1>2, TypeInvariance, PTL DEF Spec

-----------------------------------------------------------------------------
(* The sleep. *)

LEMMA Quotient ==
    ASSUME NEW x \in Int, NEW n \in Nat \ {0}
    PROVE  /\ x \div n \in Int
           /\ (x \div n) * n <= x
           /\ x < (x \div n) * n + n
  BY SMT

(* ceil: the milliseconds last until the expiry and not one longer. *)
LEMMA CeilBounds ==
    ASSUME NEW d \in Int
    PROVE  /\ CeilMs(d) * TicksPerMs \in Int
           /\ d <= CeilMs(d) * TicksPerMs
           /\ CeilMs(d) * TicksPerMs < d + TicksPerMs
<1> DEFINE q == (-d) \div TicksPerMs
<1>1. TicksPerMs \in Nat \ {0} /\ -d \in Int
  BY DispatcherConstants
<1>2. q \in Int /\ q * TicksPerMs <= -d /\ -d < q * TicksPerMs + TicksPerMs
  BY <1>1, Quotient
<1> HIDE DEF q
<1>3. (-q) * TicksPerMs = -(q * TicksPerMs) /\ q * TicksPerMs \in Int
  BY <1>1, <1>2, SMT
<1> QED
  BY <1>1, <1>2, <1>3 DEF CeilMs, q

(* What is rounded to a negative number of milliseconds is overdue by one. *)
LEMMA CeilNegative ==
    ASSUME NEW d \in Int
    PROVE  /\ CeilMs(d) < 0 => d <= -TicksPerMs
           /\ ~(CeilMs(d) < 0) => CeilMs(d) * TicksPerMs \in Nat
<1> DEFINE q == (-d) \div TicksPerMs
<1>1. TicksPerMs \in Nat \ {0} /\ -d \in Int
  BY DispatcherConstants
<1>2. q \in Int /\ q * TicksPerMs <= -d
  BY <1>1, Quotient
<1> HIDE DEF q
<1>3. CASE q > 0
  <2>1. q * TicksPerMs >= TicksPerMs
    BY <1>1, <1>2, <1>3, SMT
  <2> QED
    BY <1>1, <1>2, <1>3, <2>1 DEF CeilMs, q
<1>4. CASE ~(q > 0)
  <2>1. -q \in Nat /\ CeilMs(d) = -q
    BY <1>2, <1>4 DEF CeilMs, q
  <2>2. (-q) * TicksPerMs \in Nat
    BY <1>1, <2>1, SMT
  <2> QED
    BY <2>1, <2>2
<1> QED
  BY <1>3, <1>4

(* What is slept when epoll_wait is called, by the first timer of the list. *)
LEMMA SleepComputed ==
    ASSUME TypeOK, NEW w, w = EpollTimeout(timeoutMs)
    PROVE  IF w = Forever
           THEN timers = <<>> \/ Head(timers).due <= -TicksPerMs
           ELSE /\ timers # <<>>
                /\ Head(timers).due <= w
                /\ w < Head(timers).due + TicksPerMs
<1> DEFINE ms == timeoutMs
           d == Head(timers).due
<1>1. CASE timers = <<>>
  <2>1. timeoutMs = -1
    BY <1>1 DEF timeoutMs
  <2> QED
    BY <1>1, <2>1 DEF EpollTimeout
<1>2. CASE timers # <<>>
  <2>1. d \in Int
    <3>1. Head(timers) \in TimerInfo
      BY <1>2, HeadTailProperties DEF TypeOK
    <3> QED
      BY <3>1 DEF TimerInfo
  <2>2. ms = CeilMs(d)
    BY <1>2 DEF timeoutMs
  <2> HIDE DEF d, ms
  <2>3. CASE ms < 0
    <3>1. w = Forever /\ d <= -TicksPerMs
      BY <2>1, <2>2, <2>3, CeilNegative DEF EpollTimeout, ms
    <3> QED
      BY <3>1 DEF d
  <2>4. CASE ~(ms < 0)
    <3>1. w = ms * TicksPerMs
      BY <2>4 DEF EpollTimeout, ms
    <3>2. w \in Nat /\ d <= w /\ w < d + TicksPerMs
      BY <2>1, <2>2, <2>4, <3>1, CeilBounds, CeilNegative
    <3> QED
      BY <1>2, <3>2 DEF Forever, d
  <2> QED
    BY <2>3, <2>4
<1> QED
  BY <1>1, <1>2

(* While nobody else adds or removes timers during the sleep, a sleep with a
   limit ends neither before the first timer of the list expires nor a
   millisecond late, and one without a limit has an empty list or a first
   timer overdue by a millisecond, for every resolution of the clock. *)
THEOREM SleepGoesByFirstTimer ==
    ASSUME ~ThreadsCall
    PROVE  Spec => []SleepMatchesFrontTimer
<1> DEFINE Inv == SleepMatchesFrontTimer
<1>1. Init => Inv
  BY DEF Init, SleepMatchesFrontTimer
<1>2. TypeOK /\ Inv /\ [Next]_vars => Inv'
  <2> SUFFICES ASSUME TypeOK, Inv, [Next]_vars
               PROVE  Inv'
    OBVIOUS
  <2>1. CASE EnterWait
    <3>1. wait' = EpollTimeout(timeoutMs) /\ timers' = timers
      BY <2>1 DEF EnterWait, timerVars
    <3> QED
      BY <3>1, SleepComputed DEF SleepMatchesFrontTimer
  <2>2. CASE Tick
    <3> SUFFICES ASSUME pc = "blocked", timers # <<>>
                 PROVE  Inv'
      <4>1. CASE timers = <<>> /\ pc = "blocked"
        <5>1. wait' = Forever
          BY <2>2, <4>1 DEF Tick, SleepMatchesFrontTimer, Forever
        <5>2. timers' \in Seq(TimerInfo) /\ Len(timers') = Len(timers)
          BY <2>2, TickList DEF TypeOK
        <5>3. timers' = <<>>
          BY <4>1, <5>2, EmptySeq
        <5> QED
          BY <5>1, <5>3 DEF SleepMatchesFrontTimer
      <4>2. CASE pc # "blocked"
        BY <2>2, <4>2 DEF Tick, SleepMatchesFrontTimer
      <4> QED
        BY <4>1, <4>2
    <3>1. /\ wait' = IF wait > 0 THEN wait - 1 ELSE wait
          /\ wait \in Nat \/ wait = Forever
          /\ pc' = pc
          /\ MaxLate \in Nat /\ TicksPerMs \in Nat \ {0}
      BY <2>2, DispatcherConstants DEF Tick, TypeOK
    <3>3. /\ 1 \in DOMAIN timers
          /\ Head(timers) = timers[1] /\ timers[1] \in TimerInfo
      BY EmptySeq, LenProperties, ElementOfSeq DEF TypeOK
    <3>4. timers' # <<>> /\ Head(timers') = timers'[1]
      <4>1. /\ timers' \in Seq(TimerInfo) /\ Len(timers') = Len(timers)
            /\ Len(timers) # 0
        BY <2>2, TickList, EmptySeq DEF TypeOK
      <4> QED
        BY <4>1, EmptySeq
    <3> DEFINE d == Head(timers).due
    <3>5. d \in Int
      BY <3>3 DEF TimerInfo
    <3>6. Head(timers').due = IF d > -MaxLate THEN d - 1 ELSE d
      <4>1. timers'[1] = IF timers[1].due > -MaxLate
                         THEN [timers[1] EXCEPT !.due = timers[1].due - 1]
                         ELSE timers[1]
        BY <2>2, <3>3 DEF Tick
      <4>2. [timers[1] EXCEPT !.due = timers[1].due - 1].due = timers[1].due - 1
        <5>1. timers[1].due - 1 \in Int
          BY <3>3, <3>5
        <5> QED
          BY <3>3, <5>1, ExpirySet
      <4>3. d = timers[1].due /\ Head(timers').due = timers'[1].due
        BY <3>3, <3>4
      <4> HIDE DEF d
      <4> QED
        BY <4>1, <4>2, <4>3
    <3> HIDE DEF d
    <3> DEFINE e == Head(timers').due
    <3>7. e = IF d > -MaxLate THEN d - 1 ELSE d
      BY <3>6
    <3> HIDE DEF e
    <3>8. CASE wait = Forever
      <4>1. d <= -TicksPerMs
        BY <3>8 DEF SleepMatchesFrontTimer, d
      <4>2. wait' = Forever /\ e <= -TicksPerMs
        BY <3>1, <3>5, <3>7, <3>8, <4>1 DEF Forever
      <4> QED
        BY <4>2 DEF SleepMatchesFrontTimer, e
    <3>9. CASE wait # Forever
      <4>1. d <= wait /\ (wait > 0 => wait < d + TicksPerMs)
        BY <3>9 DEF SleepMatchesFrontTimer, d
      <4>2. /\ wait' # Forever
            /\ e <= wait' /\ (wait' > 0 => wait' < e + TicksPerMs)
        BY <3>1, <3>5, <3>7, <3>9, <4>1 DEF Forever
      <4> QED
        BY <3>4, <4>2 DEF SleepMatchesFrontTimer, e
    <3> QED
      BY <3>8, <3>9
  <2>3. CASE Client
    <3>1. pc # "blocked" /\ pc' = pc
      BY <2>3 DEF Client, AddTimer, RemoveTimer, AddFile, RemoveFile, CloseFd,
                  OpenFd, ClientMayCall, loopVars
    <3> QED
      BY <3>1 DEF SleepMatchesFrontTimer
  <2>4. CASE Loop /\ ~EnterWait
    <3>1. pc' # "blocked"
      BY <2>4 DEF Loop, WakeTimeout, WakeInterrupted, WakeWithoutEvents,
                  StartTimerPass, WakeReady, CallFile, FileCallbackReturns,
                  UnexpectedEvent, EventsDone, FireTimer, TimerCallbackReturns,
                  TimerCallbackDangles, StopTimerPass
    <3> QED
      BY <3>1 DEF SleepMatchesFrontTimer
  <2>5. CASE UNCHANGED vars
    BY <2>5 DEF vars, timerVars, loopVars, SleepMatchesFrontTimer
  <2> QED
    BY <2>1, <2>2, <2>3, <2>4, <2>5 DEF Next
<1> QED
  BY <1>1, <1>2, TypeCorrect, PTL DEF Spec

=============================================================================
