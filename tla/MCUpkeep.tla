------------------------------- MODULE MCUpkeep -------------------------------
(***************************************************************************)
(* What must come to an end beside the requests, one part a behaviour: the *)
(* reconciliation of media references, the gate of the uploads with the    *)
(* sweep of the objects they leave behind, and hooks.  A part that is not  *)
(* the scene stays as it began.                                            *)
(***************************************************************************)
EXTENDS Hooks

CONSTANTS u1, u2, None

VARIABLES
  scene,
  refs, foreign, media, mirror, marker, run, server, saving, interrupts,
  active, queue, turn, restarts, step, owed, written, flight, objects, rows, orphans,
  used, deletion, sweep

references == <<refs, foreign, media, mirror, marker, run, server, saving, interrupts>>
library    == <<active, queue, turn, restarts, step, owed, written, flight, objects, rows,
                orphans, used, deletion, sweep>>

-----------------------------------------------------------------------------
Priorities == [h \in Handlers |-> IF h = "late" THEN 20 ELSE 10]

INSTANCE Reconciliation WITH
  Docs <- {"d1", "d2"}, Media <- {"m1", "m2"}, Runs <- {"r1", "r2"}, Servers <- {"s1"},
  Writers <- {"w1"}, MaxInterrupts <- 1

Image(format) == [sent |-> TRUE, accepted |-> TRUE, large |-> FALSE, format |-> format]

L == INSTANCE Library WITH
  Uploads <- {u1, u2}, MaxActive <- 1, MaxWaiting <- 1, MaxRestarts <- 1,
  Renditions <- {"avif"}, Deleters <- {"d1"},
  Files <- [u \in {u1, u2} |-> {Image("still"), Image("animated"), Image("bomb"),
                                [Image("svg") EXCEPT !.accepted = FALSE]}],
  OrphanBatch <- 2, Stuck <- {<<u1, "avif">>}, Inserting <- {"ok", "failed"},
  Recording <- {"ok", "failed"}, Deleting <- {"none"}

-----------------------------------------------------------------------------
(* The properties of the parts, of these instances.                        *)

\* An upload that waits for its turn is let in, refused or given up, its permit comes back,
\* and what is listed goes if the store agrees, whatever is listed before it (POST /media,
\* sweepOrphans).
UploadsEnd == L!UploadsEnd

-----------------------------------------------------------------------------
UpkeepInit ==
  /\ scene \in {"references", "library", "hooks"}
  /\ Init
  /\ scene # "references" => /\ \A d \in DOMAIN refs : refs[d] = {}
                             /\ media = {} /\ foreign = {}
  /\ L!Init
  /\ HooksInit

UpkeepNext ==
  \/ scene = "references" /\ Next /\ UNCHANGED <<library, hookVars, scene>>
  \/ scene = "library" /\ L!Next /\ UNCHANGED <<references, hookVars, scene>>
  \/ scene = "hooks" /\ HooksNext /\ UNCHANGED <<references, library, scene>>

UpkeepFairness ==
  \/ scene = "references" /\ Fairness
  \/ scene = "library" /\ L!Fairness
  \/ scene = "hooks" /\ HooksFairness

UpkeepSpec ==
  /\ UpkeepInit
  /\ [][UpkeepNext]_<<references, library, hookVars, scene>>
  /\ UpkeepFairness
=============================================================================
