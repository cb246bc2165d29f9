----------------------------- MODULE Admission -----------------------------
(***************************************************************************)
(* The gate in front of POST /media: a semaphore of MaxActive permits with *)
(* a bounded queue.  A request takes its turn before its body is read, and *)
(* gives the permit back when its handler is over; a waiter leaves the     *)
(* queue by being handed a permit, by its own timer, or because its client *)
(* went away.                                                              *)
(***************************************************************************)
EXTENDS Integers, Sequences, FiniteSets, SequencesExt

CONSTANTS
  Uploads,     \* the requests
  MaxActive,
  MaxWaiting,
  MaxRestarts  \* bound: how often the process dies

ASSUME AdmissionAssumption ==
  /\ IsFiniteSet(Uploads)
  /\ MaxActive \in Nat \ {0}
  /\ MaxWaiting \in Nat
  /\ MaxRestarts \in Nat

VARIABLES
  active,   \* permits in use
  queue,    \* waiters, oldest first
  turn,     \* where each request stands with the gate
  restarts

gate == <<active, queue, turn, restarts>>

Turns == {"new", "waiting", "admitted", "refused", "gone", "over"}

InQueue == {queue[i] : i \in DOMAIN queue}

\* queue.splice(queue.indexOf(waiter), 1)
Without(s, u) == RemoveFirst(s, u)

-----------------------------------------------------------------------------
(* `acquire`: a permit at once, a refusal, or a place in the queue.        *)

Admit(u) ==
  /\ turn[u] = "new"
  /\ active < MaxActive
  /\ active' = active + 1
  /\ turn' = [turn EXCEPT ![u] = "admitted"]
  /\ UNCHANGED <<queue, restarts>>

Saturated(u) ==
  /\ turn[u] = "new"
  /\ active >= MaxActive
  /\ Len(queue) >= MaxWaiting
  /\ turn' = [turn EXCEPT ![u] = "refused"]
  /\ UNCHANGED <<active, queue, restarts>>

Wait(u) ==
  /\ turn[u] = "new"
  /\ active >= MaxActive
  /\ Len(queue) < MaxWaiting
  /\ queue' = Append(queue, u)
  /\ turn' = [turn EXCEPT ![u] = "waiting"]
  /\ UNCHANGED <<active, restarts>>

\* A waiter that stops waiting, by its timer or by the signal of its request.
Leave(u, how) ==
  /\ turn[u] = "waiting"
  /\ queue' = Without(queue, u)
  /\ turn' = [turn EXCEPT ![u] = how]
  /\ UNCHANGED <<active, restarts>>

TimeOut(u) == Leave(u, "refused")
Abort(u) == Leave(u, "gone")

\* Mutant: a release that forgets those who wait.
ReleaseToNobody(u) ==
  /\ turn[u] = "admitted"
  /\ active' = active - 1
  /\ turn' = [turn EXCEPT ![u] = "over"]
  /\ UNCHANGED <<queue, restarts>>

\* The permit of u goes to the oldest waiter, or back.
Release(u) ==
  /\ turn[u] = "admitted"
  /\ IF queue = <<>>
     THEN /\ active' = active - 1
          /\ turn' = [turn EXCEPT ![u] = "over"]
          /\ UNCHANGED queue
     ELSE /\ queue' = Tail(queue)
          /\ turn' = [turn EXCEPT ![u] = "over", ![Head(queue)] = "admitted"]
          /\ UNCHANGED active
  /\ UNCHANGED restarts

\* The gate lives in the process: a restart forgets it and whoever was in it.
Restart ==
  /\ restarts < MaxRestarts
  /\ restarts' = restarts + 1
  /\ active' = 0
  /\ queue' = <<>>
  /\ turn' = [u \in Uploads |->
                IF turn[u] \in {"waiting", "admitted"} THEN "gone" ELSE turn[u]]

-----------------------------------------------------------------------------
GateInit ==
  /\ active = 0
  /\ queue = <<>>
  /\ turn = [u \in Uploads |-> "new"]
  /\ restarts = 0

GateNext ==
  \/ \E u \in Uploads :
       Admit(u) \/ Saturated(u) \/ Wait(u) \/ TimeOut(u) \/ Abort(u) \/ Release(u)
  \/ Restart

GateSpec == GateInit /\ [][GateNext]_gate

-----------------------------------------------------------------------------
GateTypeOK ==
  /\ active \in Nat
  /\ queue \in Seq(Uploads)
  /\ turn \in [Uploads -> Turns]
  /\ restarts \in 0..MaxRestarts

Admitted == {u \in Uploads : turn[u] = "admitted"}

\* Every permit in use has exactly one holder, through hand-overs, timers and
\* restarts, and there are never more than MaxActive.
PermitsCounted == active = Cardinality(Admitted) /\ active <= MaxActive

\* The queue holds each waiter once and nobody else, so that the head a permit
\* is handed to can always use it: a permit is never spent on nobody.
WaitersQueued ==
  /\ \A u \in Uploads : turn[u] = "waiting" <=> u \in InQueue
  /\ \A i, j \in DOMAIN queue : queue[i] = queue[j] => i = j
  /\ Len(queue) <= MaxWaiting

\* Nobody waits while a permit is free: a hand-over leaves no window.
NoIdlePermit == queue # <<>> => active = MaxActive

\* What the gate promises at every moment: permits are counted, the queue holds who
\* waits, and nobody waits for a permit that is free (createAdmission).
GateHolds == PermitsCounted /\ WaitersQueued /\ NoIdlePermit
=============================================================================
