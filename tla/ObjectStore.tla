---------------------------- MODULE ObjectStore ----------------------------
(***************************************************************************)
(* The bucket media is served from, as `pnpm storage:init` provisions it   *)
(* and as the running server finds it.                                     *)
(*                                                                         *)
(* The store, its operator and the base readers are sent to are external:  *)
(* they answer, fail or refuse, and the operator may make a bucket or      *)
(* change who reads it at any moment.                                      *)
(***************************************************************************)
EXTENDS Integers

CONSTANTS
  Runs,     \* storage:init commands run side by side
  Grants,   \* what the command's credentials may be allowed
  None

VARIABLES
  reach,       \* whether the store is "up", "failing" or "down"
  bucket,      \* who made the bucket: None, "operator" or a run
  readable,    \* whether its policy lets anybody read
  checkObject, \* whether the delivery check object is in it
  base,        \* what the external base answers, or "unset" without one
  grants,      \* what this command may do
  provision    \* what each run is about to do

bucketVars == <<reach, bucket, readable, checkObject, base, grants, provision>>

Statuses == {"200", "403", "404", "5xx", "none"}

\* MEDIA_BASE_URL is unset, and readers ask the store itself.
Direct == base = "unset"

-----------------------------------------------------------------------------
(* What a command or a reader is told.                                     *)

Answer(permission) ==
  IF reach = "down" THEN "none"
  ELSE IF reach = "failing" THEN "5xx"
  ELSE IF permission \notin grants THEN "403" ELSE "200"

HeadBucket == IF Answer("head") = "200" /\ bucket = None THEN "404" ELSE Answer("head")

Fetch ==
  IF ~Direct THEN base
  ELSE IF reach = "down" THEN "none"
  ELSE IF reach = "failing" THEN "5xx"
  ELSE IF bucket = None \/ (readable /\ ~checkObject) THEN "404"
  ELSE IF readable THEN "200" ELSE "403"

BucketStateOf(status) ==
  CASE status = "200"  -> "present"
    [] status = "none" -> "unreachable"
    [] status = "404"  -> "missing"
    [] status = "403"  -> "denied"
    [] OTHER           -> "erroring"

CheckDelivery(status) ==
  CASE status = "200"  -> "ok"
    [] status = "none" -> "unreachable"
    [] status = "403"  -> "forbidden"
    [] status = "404"  -> "missing"
    [] OTHER           -> "unexpected"

-----------------------------------------------------------------------------
(* provisionStorage                                                        *)

At(r, step) == provision[r] = step
Go(r, step) == provision' = [provision EXCEPT ![r] = step]

Start(r) ==
  /\ provision[r] \in {"idle", "failed", "done"}
  /\ Go(r, "looking")
  /\ UNCHANGED <<reach, bucket, readable, checkObject, base, grants>>

\* Only an absent bucket is created; a refusal, a failure and silence end the
\* command with nothing done.
Look(r) ==
  LET state == BucketStateOf(HeadBucket) IN
  /\ At(r, "looking")
  /\ Go(r, CASE state = "missing" -> "creating"
              [] state = "present" -> "writing"
              [] OTHER             -> "failed")
  /\ UNCHANGED <<reach, bucket, readable, checkObject, base, grants>>

\* Mutant: any bucket it cannot see is one to create, and a bucket that is
\* there already is as good as created.
CreateAnyway(r) ==
  /\ At(r, "creating")
  /\ IF Answer("create") = "200"
     THEN /\ bucket' = IF bucket = None THEN r ELSE bucket
          /\ Go(r, IF Direct THEN "allowing" ELSE "writing")
     ELSE Go(r, "failed") /\ UNCHANGED bucket
  /\ UNCHANGED <<reach, readable, checkObject, base, grants>>

\* The store refuses to create what somebody has made since it was looked for.
Create(r) ==
  /\ At(r, "creating")
  /\ IF Answer("create") = "200" /\ bucket = None
     THEN /\ bucket' = r
          /\ readable' = FALSE
          /\ checkObject' = FALSE
          /\ Go(r, IF Direct THEN "allowing" ELSE "writing")
     ELSE Go(r, "failed") /\ UNCHANGED <<bucket, readable, checkObject>>
  /\ UNCHANGED <<reach, base, grants>>

Allow(r) ==
  /\ At(r, "allowing")
  /\ IF Answer("policy") = "200" /\ bucket # None
     THEN readable' = TRUE /\ Go(r, "writing")
     ELSE Go(r, "failed") /\ UNCHANGED readable
  /\ UNCHANGED <<reach, bucket, checkObject, base, grants>>

Write(r) ==
  /\ At(r, "writing")
  /\ IF Answer("put") = "200" /\ bucket # None
     THEN checkObject' = TRUE /\ Go(r, IF Direct THEN "checking" ELSE "done")
     ELSE Go(r, "failed") /\ UNCHANGED checkObject
  /\ UNCHANGED <<reach, bucket, readable, base, grants>>

Check(r) ==
  /\ At(r, "checking")
  /\ Go(r, IF CheckDelivery(Fetch) = "ok" THEN "done" ELSE "failed")
  /\ UNCHANGED <<reach, bucket, readable, checkObject, base, grants>>

\* The command is interrupted between two calls.
Kill(r) ==
  /\ provision[r] \in {"looking", "creating", "allowing", "writing", "checking"}
  /\ Go(r, "failed")
  /\ UNCHANGED <<reach, bucket, readable, checkObject, base, grants>>

-----------------------------------------------------------------------------
(* The store and its operator.                                             *)

Weather ==
  /\ reach' \in {"up", "failing", "down"}
  /\ base' \in IF Direct THEN {base} ELSE Statuses
  /\ UNCHANGED <<bucket, readable, checkObject, grants, provision>>

OperatorMakes ==
  /\ bucket = None
  /\ bucket' = "operator"
  /\ readable' \in BOOLEAN
  /\ UNCHANGED <<reach, checkObject, base, grants, provision>>

OperatorSets ==
  /\ bucket # None
  /\ readable' \in BOOLEAN
  /\ UNCHANGED <<reach, bucket, checkObject, base, grants, provision>>

BucketInit ==
  /\ reach = "up"
  /\ bucket = None /\ readable = FALSE /\ checkObject = FALSE
  /\ base \in {"unset", "none"}
  /\ grants \in Grants
  /\ provision = [r \in Runs |-> "idle"]

Provision(r) ==
  Start(r) \/ Look(r) \/ Create(r) \/ Allow(r) \/ Write(r) \/ Check(r) \/ Kill(r)

BucketNext ==
  \/ \E r \in Runs : Provision(r)
  \/ Weather \/ OperatorMakes \/ OperatorSets

-----------------------------------------------------------------------------
\* An existing bucket is never modified: a command makes readable only a bucket
\* that it created itself, and only where readers ask the store.
OnlyItsOwnBucket ==
  \A r \in Runs : provision[r] = "allowing" => bucket = r /\ Direct
=============================================================================
