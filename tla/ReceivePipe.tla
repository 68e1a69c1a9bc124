----------------------------- MODULE ReceivePipe -----------------------------
(***************************************************************************)
(* What CanInterface promises to whoever receives from it.  recvAll()      *)
(* hands out frames in the order they come in, all that are queued at      *)
(* once, and each at most once.  recv() shows the oldest frame of the      *)
(* queue and takes it from nobody: it shows it again, and recvAll() still  *)
(* hands it out.  A frame is lost in three ways only, and none of them is  *)
(* hidden: the receiver flushes the queue, the connection is closed while  *)
(* the frame is still on its way, which cuts off the last ones and leaves  *)
(* what was read before, or it is rejected, with an error to look up.  How *)
(* long a frame is on its way is no part of the promise.                   *)
(***************************************************************************)
EXTENDS Integers, Sequences, SequencesExt

CONSTANTS
    MaxFrames,  \* bound: frames that come in
    Errors      \* what error() may say

VARIABLES
    up,        \* connected to the bus
    coming,    \* frames that have come in and are not yet queued
    queued,    \* frames that wait for the receiver
    received,  \* frames recvAll() handed out, in order
    shown,     \* what recv() returned last, 0 for no frame
    last,      \* number of the last frame that came in
    error      \* what error() says

vars == <<up, coming, queued, received, shown, last, error>>

Init ==
    /\ up = FALSE
    /\ coming = <<>> /\ queued = <<>> /\ received = <<>>
    /\ shown = 0
    /\ last = 0
    /\ error = "NoError"

Open ==
    /\ ~up
    /\ up' = TRUE
    /\ UNCHANGED <<coming, queued, received, shown, last, error>>

Arrive ==
    /\ up
    /\ last < MaxFrames
    /\ last' = last + 1
    /\ coming' = Append(coming, last')
    /\ UNCHANGED <<up, queued, received, shown, error>>

(* The first frames that are on their way reach the queue. *)
Store ==
    /\ \E n \in 0 .. Len(coming) :
           /\ queued' = queued \o SubSeq(coming, 1, n)
           /\ coming' = SubSeq(coming, n + 1, Len(coming))
    /\ UNCHANGED <<up, received, shown, last, error>>

(* A frame is not fit to be queued, and the error says so. *)
Reject ==
    /\ \E i \in DOMAIN coming : coming' = RemoveAt(coming, i)
    /\ error' = "RxError"
    /\ UNCHANGED <<up, queued, received, shown, last>>

(* The frames that came last are gone with the connection. *)
Close ==
    /\ up
    /\ up' = FALSE
    /\ \E n \in 0 .. Len(coming) : coming' = SubSeq(coming, 1, n)
    /\ UNCHANGED <<queued, received, shown, last, error>>

Receive ==
    /\ up
    /\ received' = received \o queued
    /\ queued' = <<>>
    /\ error' = "NoError"
    /\ UNCHANGED <<up, coming, shown, last>>

(* Without a connection there is no frame to show, but an error. *)
Peek ==
    /\ \/ /\ up
          /\ shown' = IF queued = <<>> THEN 0 ELSE Head(queued)
          /\ error' = "NoError"
       \/ /\ shown' = 0
          /\ error' \in Errors \ {"NoError"}
    /\ UNCHANGED <<up, coming, queued, received, last>>

Flush ==
    /\ queued' = <<>>
    /\ UNCHANGED <<up, coming, received, shown, last, error>>

(* Other operations succeed or fail. *)
Report ==
    /\ error' \in Errors
    /\ UNCHANGED <<up, coming, queued, received, shown, last>>

Next ==
    \/ Open \/ Arrive \/ Store \/ Reject \/ Close
    \/ Receive \/ Peek \/ Flush \/ Report

Spec == Init /\ [][Next]_vars

=============================================================================
