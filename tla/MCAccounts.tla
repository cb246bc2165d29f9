----------------------------- MODULE MCAccounts -----------------------------
(***************************************************************************)
(* Sessions, quotas and accounts, each on its own.  What restarts of the   *)
(* store forget is told apart where clients come straight to the API.      *)
(***************************************************************************)
EXTENDS Sessions, RateLimit, Accounts

VARIABLE scene

allVars == <<sessionVars, limitVars, accountVars, scene>>

MCInit ==
  /\ SessionsInit /\ LimitInit /\ AccountsInit
  /\ scene \in {"sessions", "limits", "accounts"}
  /\ (scene # "limits" => source = "socket")

MCNext ==
  /\ \/ scene = "sessions" /\ SessionsNext /\ UNCHANGED <<limitVars, accountVars>>
     \/ /\ scene = "limits" /\ LimitNext /\ UNCHANGED <<sessionVars, accountVars>>
        /\ source # "socket" => snapshot' = snapshot /\ forgotten' = forgotten
     \/ scene = "accounts" /\ AccountsNext /\ UNCHANGED <<sessionVars, limitVars>>
  /\ UNCHANGED scene

Sweeps  == scene = "sessions" /\ StartSweep
Removes == scene = "sessions" /\ Sweep(FALSE)
Passes  == scene = "limits" /\ PassTime

\* The server works its requests off; the sweep's timer fires, and sweeps neither
\* hang nor always fail; windows pass.  Nobody is obliged to ask anything.
Fairness ==
  /\ \A q \in Requests : WF_sessionVars(scene = "sessions" /\ Serve(q))
  /\ WF_sessionVars(Sweeps) /\ SF_sessionVars(Removes)
  /\ WF_limitVars(Passes)

MCSpec == MCInit /\ [][MCNext]_allVars /\ Fairness
=============================================================================
