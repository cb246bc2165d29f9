------------------------------ MODULE Accounts ------------------------------
(***************************************************************************)
(* The first administrator, created once however many processes set the    *)
(* installation up; and the memory that keeps a row whose values this      *)
(* build does not declare from filling the log.                            *)
(***************************************************************************)
EXTENDS Naturals, Sequences, SequencesExt

CONSTANTS
  Processes,     \* of createInitialAdministrator
  Rows,          \* account and field pairs whose stored value is unknown
  Capacity       \* CORRECTION_MEMORY_LIMIT

ASSUME AccountsAssumption == Capacity \in Nat \ {0} /\ "free" \notin Processes

VARIABLES
  administrators,  \* committed rows of users
  advisoryLock,    \* the process that holds BOOTSTRAP_LOCK, or "free"
  boot,            \* what each process is about to do
  counted,         \* the users it counted
  keys,            \* the pairs remembered, oldest first
  others           \* per pair: how many others were reported since it was

accountVars == <<administrators, advisoryLock, boot, counted, keys, others>>

-----------------------------------------------------------------------------
(* createInitialAdministrator                                              *)

Begin(p) ==
  /\ boot[p] = "idle"
  /\ boot' = [boot EXCEPT ![p] = "locking"]
  /\ UNCHANGED <<administrators, advisoryLock, counted, keys, others>>

\* Mutant: the table is read without waiting for the lock.
LockNothing(p) ==
  /\ boot[p] = "locking"
  /\ boot' = [boot EXCEPT ![p] = "counting"]
  /\ UNCHANGED <<administrators, advisoryLock, counted, keys, others>>

Lock(p) ==
  /\ boot[p] = "locking" /\ advisoryLock = "free"
  /\ advisoryLock' = p
  /\ boot' = [boot EXCEPT ![p] = "counting"]
  /\ UNCHANGED <<administrators, counted, keys, others>>

Unlock(p) == advisoryLock' = IF advisoryLock = p THEN "free" ELSE advisoryLock

\* READ COMMITTED: the count sees what has been committed when it runs.
Count(p) ==
  /\ boot[p] = "counting"
  /\ counted' = [counted EXCEPT ![p] = administrators]
  /\ IF administrators > 0
     THEN boot' = [boot EXCEPT ![p] = "declined"] /\ Unlock(p)
     ELSE boot' = [boot EXCEPT ![p] = "inserting"] /\ UNCHANGED advisoryLock
  /\ UNCHANGED <<administrators, keys, others>>

\* The answer to COMMIT may be lost: the row is there, the command fails, and
\* somebody runs it again.
Commit(p, heard) ==
  /\ boot[p] = "inserting"
  /\ administrators' = administrators + 1
  /\ boot' = [boot EXCEPT ![p] = IF heard THEN "created" ELSE "idle"]
  /\ Unlock(p)
  /\ UNCHANGED <<counted, keys, others>>

\* The process or its connection dies before COMMIT: the transaction rolls back, its
\* lock goes with it, and somebody runs the command again.
Abort(p) ==
  /\ boot[p] \in {"locking", "counting", "inserting"}
  /\ boot' = [boot EXCEPT ![p] = "idle"]
  /\ Unlock(p)
  /\ UNCHANGED <<administrators, counted, keys, others>>

-----------------------------------------------------------------------------
(* createCorrectionMemory                                                  *)

Trimmed(sequence) == IF Len(sequence) > Capacity THEN Tail(sequence) ELSE sequence

Remember(row) == IF row \in ToSet(keys) THEN keys ELSE Trimmed(Append(keys, row))

\* A session of that row is looked up, or it signs in.  The bound on the count,
\* Capacity, is where it stops to matter.
Report(row) ==
  /\ keys' = Remember(row)
  /\ others' = IF row \in ToSet(keys) THEN others
               ELSE [k \in Rows |-> IF k = row THEN 0
                                    ELSE IF others[k] < Capacity THEN others[k] + 1
                                    ELSE Capacity]
  /\ UNCHANGED <<administrators, advisoryLock, boot, counted>>

AccountsInit ==
  /\ administrators = 0 /\ advisoryLock = "free"
  /\ boot = [p \in Processes |-> "idle"] /\ counted = [p \in Processes |-> 0]
  /\ keys = <<>> /\ others = [k \in Rows |-> Capacity]

AccountsNext ==
  \/ \E p \in Processes : Begin(p) \/ Lock(p) \/ Count(p) \/ Abort(p)
  \/ \E p \in Processes, heard \in BOOLEAN : Commit(p, heard)
  \/ \E row \in Rows : Report(row)

-----------------------------------------------------------------------------
\* Processes that set an installation up side by side leave it with one first
\* administrator; at most one of them was told to have created it, and whoever was
\* told so, or that there is one, was told the truth.
OneFirstAdministrator ==
  /\ administrators <= 1
  /\ \A p \in Processes : boot[p] \in {"created", "declined"} => administrators = 1
  /\ \A p, r \in Processes : boot[p] = "created" /\ boot[r] = "created" => p = r

\* The memory bounds the silence as well as itself: a bad row keeps quiet for at
\* most as many other reports as the memory has places, though it is seen in
\* between.
SilenceIsBounded ==
  /\ Len(keys) <= Capacity
  /\ \A k \in Rows : k \in ToSet(keys) <=> others[k] < Capacity

\* One first administrator, and a memory of reports that bounds itself and the silence
\* (createInitialAdministrator, createCorrectionMemory).
AccountsHold == OneFirstAdministrator /\ SilenceIsBounded
=============================================================================
