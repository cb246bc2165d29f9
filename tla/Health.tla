------------------------------- MODULE Health -------------------------------
(***************************************************************************)
(* GET /health: one probe per dependency, at most one operation of each in *)
(* flight, each request waiting for each probe no longer than its budget.  *)
(***************************************************************************)
EXTENDS Naturals

CONSTANTS
  Requests,
  Probes,    \* of "database", "cache", "storage" and "delivery"
  Outages    \* the sets of dependencies that may be out together

VARIABLES
  out,       \* the dependencies that are out
  hanging,   \* whether one that is out leaves its operations without an answer
  degraded,  \* what StoreHealth has concluded of the rate limiter's Valkey
  pending,   \* the probes that hold an operation to hand to whoever asks
  running,   \* operations started and not settled
  late,      \* the probes whose operation was outstanding when an outage came or went
  asked,     \* what each request knows of each probe
  answer     \* the last status answered

healthVars == <<out, hanging, degraded, pending, running, late, asked, answer>>

Idle == [p \in Probes |-> "idle"]

-----------------------------------------------------------------------------
(* createProbe                                                             *)

Up(p) == p \notin out

\* The fetch of the delivery check has a timeout of its own.
Hangs(p) == hanging /\ p \in out \ {"delivery"}

\* An operation that is running is awaited, never started again.  The request
\* has passed the limiter first, whose store is thereby seen to answer or not.
Ask(q) ==
  /\ asked[q] = Idle
  /\ asked' = [asked EXCEPT ![q] = [p \in Probes |-> "waiting"]]
  /\ pending' = Probes
  /\ running' = [p \in Probes |-> IF p \in pending THEN running[p] ELSE running[p] + 1]
  /\ degraded' = ("limiter" \in out)
  /\ UNCHANGED <<out, hanging, late, answer>>

\* Mutant: only a success frees the slot.
SettleIfUp(p) ==
  /\ running[p] > 0 /\ ~Hangs(p)
  /\ pending' = IF Up(p) THEN pending \ {p} ELSE pending
  /\ running' = [running EXCEPT ![p] = @ - 1]
  /\ asked' = [q \in Requests |-> IF asked[q][p] = "waiting"
                                  THEN [asked[q] EXCEPT ![p] = IF Up(p) THEN "up" ELSE "down"]
                                  ELSE asked[q]]
  /\ late' = late \ {p}
  /\ UNCHANGED <<out, hanging, degraded, answer>>

\* The operation settles, however late, and everybody who waits for it hears.
Settle(p) ==
  /\ running[p] > 0 /\ ~Hangs(p)
  /\ pending' = pending \ {p}
  /\ running' = [running EXCEPT ![p] = @ - 1]
  /\ asked' = [q \in Requests |-> IF asked[q][p] = "waiting"
                                  THEN [asked[q] EXCEPT ![p] = IF Up(p) THEN "up" ELSE "down"]
                                  ELSE asked[q]]
  /\ late' = late \ {p}
  /\ UNCHANGED <<out, hanging, degraded, answer>>

\* Whether the operation a request waits for may outlast its budget: one that
\* started after the dependency came back does not.
Overdue(q, p) ==
  /\ asked[q][p] = "waiting"
  /\ p \in out \cup late \/ running[p] = 0

\* The race is lost: the request goes on with a verdict of down.
Budget(q, p) ==
  /\ Overdue(q, p)
  /\ asked' = [asked EXCEPT ![q][p] = "down"]
  /\ UNCHANGED <<out, hanging, degraded, pending, running, late, answer>>

-----------------------------------------------------------------------------
(* summarizeHealth                                                         *)

StorageStatus(verdicts) ==
  IF verdicts["storage"] = "down" THEN "down"
  ELSE IF verdicts["delivery"] = "down" THEN "degraded" ELSE "up"

StatusOf(verdicts) ==
  IF /\ \A p \in Probes \ {"storage", "delivery"} : verdicts[p] = "up"
     /\ StorageStatus(verdicts) = "up"
     /\ ~degraded
  THEN 200 ELSE 503

Respond(q) ==
  /\ asked[q] # Idle
  /\ \A p \in Probes : asked[q][p] # "waiting"
  /\ answer' = StatusOf(asked[q])
  /\ asked' = [asked EXCEPT ![q] = Idle]
  /\ UNCHANGED <<out, hanging, degraded, pending, running, late>>

\* The error event of the limiter's client, with no request to notice.
ClientError ==
  /\ "limiter" \in out
  /\ degraded' = TRUE
  /\ UNCHANGED <<out, hanging, pending, running, late, asked, answer>>

-----------------------------------------------------------------------------
Outage ==
  /\ out' \in Outages
  /\ hanging' \in {h \in BOOLEAN : h => out' \cap (Probes \ {"delivery"}) # {}}
  /\ <<out, hanging>>' # <<out, hanging>>
  /\ late' = {p \in Probes : running[p] > 0}
  /\ UNCHANGED <<degraded, pending, running, asked, answer>>

HealthInit ==
  /\ out = {} /\ hanging = FALSE /\ degraded = FALSE
  /\ pending = {} /\ running = [p \in Probes |-> 0] /\ late = {}
  /\ asked = [q \in Requests |-> Idle]
  /\ answer = 200

HealthNext ==
  \/ \E q \in Requests : Ask(q) \/ (\E p \in Probes : Budget(q, p)) \/ Respond(q)
  \/ \E p \in Probes : Settle(p)
  \/ ClientError
  \/ Outage

\* Health is asked for again and again, timers fire, and an operation settles
\* once its dependency answers.
HealthFairness ==
  /\ \A q \in Requests : WF_healthVars(Ask(q)) /\ WF_healthVars(Respond(q))
  /\ \A q \in Requests, p \in Probes : WF_healthVars(Budget(q, p))
  /\ \A p \in Probes : SF_healthVars(Settle(p))

-----------------------------------------------------------------------------
HealthTypeOK ==
  /\ out \in Outages
  /\ hanging \in BOOLEAN /\ degraded \in BOOLEAN
  /\ pending \subseteq Probes /\ late \subseteq pending
  /\ running \in [Probes -> Nat]
  /\ asked \in [Requests -> [Probes -> {"idle", "waiting", "up", "down"}]]
  /\ answer \in {200, 503}

\* However many checks come and give up while a dependency hangs, there is one
\* operation of each probe outstanding.
SingleFlight == \A p \in Probes : running[p] <= 1

\* A check comes back, whatever hangs.
ChecksReturn == \A q \in Requests : asked[q] # Idle ~> asked[q] = Idle

\* An outage that lasts ends up reported, and stays reported.
OutageReported ==
  \A outage \in Outages \ {{}} : <>[](out = outage) => <>[](answer # 200)

\* So does a recovery, though the probes of the outage were given up.
RecoveryReported == <>[](out = {}) => []<>(answer = 200)

\* One operation of a probe at a time, every check answered, and an outage or a recovery
\* that lasts reported (createProbe, GET /health).
HealthHolds ==
  /\ [](HealthTypeOK /\ SingleFlight)
  /\ ChecksReturn /\ OutageReported /\ RecoveryReported
=============================================================================
