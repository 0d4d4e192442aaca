------------------------------- MODULE Lanes --------------------------------
(***************************************************************************)
(* What serial lanes promise: the work handed to a lane is done one piece  *)
(* at a time, in the order it was handed over, whatever becomes of each,   *)
(* and no lane waits for another.                                          *)
(***************************************************************************)
EXTENDS Sequences

CONSTANTS Keys, Jobs

VARIABLES waiting, \* the jobs handed to a lane and not begun, oldest first
          busy     \* the job a lane is doing, if any: a set of at most one

lanes == <<waiting, busy>>

Quiet == waiting = [k \in Keys |-> <<>>] /\ busy = [k \in Keys |-> {}]

HandOver(k, j) ==
  waiting' = [waiting EXCEPT ![k] = Append(@, j)] /\ UNCHANGED busy

BeginNext(k) ==
  /\ waiting[k] # <<>> /\ busy[k] = {}
  /\ busy' = [busy EXCEPT ![k] = {Head(waiting[k])}]
  /\ waiting' = [waiting EXCEPT ![k] = Tail(@)]

EndOne(k) == busy' = [busy EXCEPT ![k] = {}] /\ UNCHANGED waiting

Serve == \E k \in Keys : BeginNext(k) \/ EndOne(k) \/ \E j \in Jobs : HandOver(k, j)

LanesPromise == Quiet /\ [][Serve]_lanes
=============================================================================
