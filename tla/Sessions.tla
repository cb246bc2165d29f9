------------------------------ MODULE Sessions ------------------------------
(***************************************************************************)
(* Sessions: the rows of the sessions table, the cookie of one browser,    *)
(* and the interface in it, whose requests overlap and are answered in any *)
(* order or not at all.                                                    *)
(*                                                                         *)
(* The browser and the network are external.  Time counts in steps of a    *)
(* fraction of a session's life.                                           *)
(***************************************************************************)
EXTENDS Naturals

CONSTANTS
  Users, Tokens, Requests,
  Ttl,           \* SESSION_TTL_MS
  RenewBelow,    \* RENEW_BELOW_MS
  MaxTime,       \* bound: how long the model's clock runs
  None

ASSUME SessionAssumption ==
  Tokens \subseteq Nat /\ Ttl \in Nat /\ RenewBelow \in 1..Ttl /\ MaxTime \in Nat

VARIABLES
  now,
  sessions,      \* token -> its row, or None
  issued,        \* the tokens generated so far, numbered: no two are ever equal
  jar,           \* the token in the browser's cookie, or None; it lives as long as
                 \* a row written at the same moment, and its age decides nothing
  requests,
  shown,         \* the session query's data: the user, or None when signed out
  signedOut,     \* tokens whose sign-out the server has carried out
  running,       \* the sweep's flag, and whether one is under way
  sweeping

sessionVars == <<now, sessions, issued, jar, requests, shown, signedOut, running, sweeping>>

Kinds == {"me", "login", "logout"}

\* A request: what it is, the token it was sent with, the user it was found to
\* be, the expiry its renewal will write, and what its answer does to the cookie.
NoRequest == [step |-> "idle", kind |-> "me", token |-> None, user |-> None,
              expires |-> 0, cookie |-> "keep"]

At(q, step) == requests[q].step = step
SessionExpiry == now + Ttl

ShouldRenew(expires) == LET remaining == expires - now IN expires > now /\ remaining < RenewBelow

-----------------------------------------------------------------------------
(* The browser.                                                            *)

Send(q, kind) ==
  /\ At(q, "idle")
  /\ requests' = [requests EXCEPT ![q] =
       [NoRequest EXCEPT !.step = "sent", !.kind = kind,
          !.token = jar]]
  /\ UNCHANGED <<now, sessions, issued, jar, shown, signedOut, running, sweeping>>

\* Mutant: a 401 is an error, and leaves the query what it was.
KeepOnRefusal(q) ==
  IF requests[q].kind \in {"me", "login"} /\ requests[q].user # None
  THEN requests[q].user ELSE IF requests[q].kind = "logout" THEN None ELSE shown

\* useSession, useSignIn and useSignOut: what the interface makes of an answer.
Shows(q) ==
  CASE requests[q].kind = "me"                                -> requests[q].user
    [] requests[q].kind = "login" /\ requests[q].user # None -> requests[q].user
    [] requests[q].kind = "logout"                            -> None
    [] OTHER                                                  -> shown

Deliver(q) ==
  /\ At(q, "answered")
  /\ jar' = CASE requests[q].cookie = "keep"  -> jar
              [] requests[q].cookie = "clear" -> None
              [] OTHER                        -> requests[q].token
  /\ shown' = Shows(q)
  /\ requests' = [requests EXCEPT ![q] = NoRequest]
  /\ UNCHANGED <<now, sessions, issued, signedOut, running, sweeping>>

\* The answer never arrives: the interface gives up at its deadline.
Lose(q) ==
  /\ At(q, "answered")
  /\ requests' = [requests EXCEPT ![q] = NoRequest]
  /\ UNCHANGED <<now, sessions, issued, jar, shown, signedOut, running, sweeping>>

-----------------------------------------------------------------------------
(* The server.                                                             *)

\* The onRequest hook: findValidSession, and whether to renew.
Lookup(q) ==
  LET token == requests[q].token
      row   == IF token = None THEN None ELSE sessions[token]
      valid == row # None /\ row.expires > now
  IN
  /\ At(q, "sent")
  /\ requests' = [requests EXCEPT ![q] =
       [@ EXCEPT !.step = IF valid /\ ShouldRenew(row.expires) THEN "renewing" ELSE "handling",
                 !.user = IF valid THEN row.user ELSE None,
                 !.expires = IF valid /\ ShouldRenew(row.expires) THEN SessionExpiry ELSE 0,
                 !.cookie = IF token # None /\ ~valid THEN "clear" ELSE "keep"]]
  /\ UNCHANGED <<now, sessions, issued, jar, shown, signedOut, running, sweeping>>

\* Mutant: the renewal writes the row whether or not it is still there.
RenewByUpsert(q) ==
  /\ At(q, "renewing")
  /\ sessions' = [sessions EXCEPT ![requests[q].token] =
                    [user |-> requests[q].user, expires |-> requests[q].expires]]
  /\ requests' = [requests EXCEPT ![q].step = "handling", ![q].cookie = "set", ![q].expires = 0]
  /\ UNCHANGED <<now, issued, jar, shown, signedOut, running, sweeping>>

\* extendSession, an UPDATE: it finds no row when the session has gone since.
Renew(q) ==
  LET token == requests[q].token IN
  /\ At(q, "renewing")
  /\ sessions' = [sessions EXCEPT ![token] =
                    IF @ = None THEN None ELSE [@ EXCEPT !.expires = requests[q].expires]]
  /\ requests' = [requests EXCEPT ![q].step = "handling", ![q].cookie = "set", ![q].expires = 0]
  /\ UNCHANGED <<now, issued, jar, shown, signedOut, running, sweeping>>

\* requireAuth answers 401 to a request without a user.
Answer(q) ==
  /\ At(q, "handling") /\ requests[q].kind \in {"me"}
  /\ requests' = [requests EXCEPT ![q] =
       [NoRequest EXCEPT !.step = "answered",
          !.cookie = requests[q].cookie,
          !.token = IF requests[q].cookie = "set" THEN requests[q].token ELSE None,
          !.user = requests[q].user]]
  /\ UNCHANGED <<now, sessions, issued, jar, shown, signedOut, running, sweeping>>

\* The credentials are those of u, or of nobody.
LogIn(q, u) ==
  /\ At(q, "handling") /\ requests[q].kind = "login"
  /\ IF u = None
     THEN /\ requests' = [requests EXCEPT ![q].step = "answered", ![q].user = None]
          /\ UNCHANGED <<sessions, issued>>
     ELSE \E token \in {t \in Tokens \ issued : \A other \in Tokens \ issued : t <= other} :
            /\ issued' = issued \cup {token}
            /\ sessions' = [sessions EXCEPT ![token] = [user |-> u, expires |-> SessionExpiry]]
            /\ requests' = [requests EXCEPT ![q] =
                 [@ EXCEPT !.step = "answered", !.token = token, !.user = u, !.cookie = "set"]]
  /\ UNCHANGED <<now, jar, shown, signedOut, running, sweeping>>

LogOut(q) ==
  LET token == requests[q].token IN
  /\ At(q, "handling") /\ requests[q].kind = "logout"
  /\ sessions' = [t \in Tokens |-> IF t = token THEN None ELSE sessions[t]]
  /\ signedOut' = signedOut \cup ({token} \ {None})
  /\ requests' = [requests EXCEPT ![q] =
       [NoRequest EXCEPT !.step = "answered", !.kind = "logout", !.cookie = "clear"]]
  /\ UNCHANGED <<now, issued, jar, shown, running, sweeping>>

-----------------------------------------------------------------------------
(* The sweep of expired sessions.                                          *)

Expired(t) == sessions[t] # None /\ sessions[t].expires < now

StartSweep ==
  /\ ~running /\ \E t \in Tokens : Expired(t)
  /\ running' = TRUE /\ sweeping' = TRUE
  /\ UNCHANGED <<now, sessions, issued, jar, requests, shown, signedOut>>

Sweep(fails) ==
  /\ sweeping
  /\ sessions' = [t \in Tokens |-> IF Expired(t) /\ ~fails THEN None ELSE sessions[t]]
  /\ running' = FALSE /\ sweeping' = FALSE
  /\ UNCHANGED <<now, issued, jar, requests, shown, signedOut>>

\* A step of the clock is days: no request is in the server's hands that long.
Tick ==
  /\ now < MaxTime
  /\ \A q \in Requests : requests[q].step \notin {"renewing", "handling"}
  /\ now' = now + 1
  /\ UNCHANGED <<sessions, issued, jar, requests, shown, signedOut, running, sweeping>>

SessionsInit ==
  /\ now = 0
  /\ sessions = [t \in Tokens |-> None] /\ issued = {} /\ jar = None
  /\ requests = [q \in Requests |-> NoRequest]
  /\ shown = None /\ signedOut = {} /\ running = FALSE /\ sweeping = FALSE

Serve(q) == Lookup(q) \/ Renew(q) \/ Answer(q) \/ (\E u \in Users \cup {None} : LogIn(q, u)) \/ LogOut(q)

SessionsNext ==
  \/ \E q \in Requests : (\E kind \in Kinds : Send(q, kind)) \/ Serve(q) \/ Deliver(q) \/ Lose(q)
  \/ StartSweep \/ (\E fails \in BOOLEAN : Sweep(fails)) \/ Tick

-----------------------------------------------------------------------------
\* No session outlives the time to live counted from now.
SessionTypeOK ==
  /\ now \in 0..MaxTime
  /\ \A t \in Tokens : sessions[t] # None =>
       sessions[t].user \in Users /\ sessions[t].expires \in 0..(now + Ttl) /\ t \in issued
  /\ jar \in issued \cup {None}
  /\ shown \in Users \cup {None}
  /\ signedOut \subseteq issued /\ running \in BOOLEAN /\ sweeping \in BOOLEAN
  /\ \A q \in Requests : requests[q].kind \in Kinds

\* A session that was signed out of grants nothing ever again, though another
\* tab's request was renewing it when it ended.
SignedOutIsOver == \A t \in signedOut : sessions[t] = None

\* Somebody who uses a session keeps it: once a request was let in, what is left
\* of the session, if it was not ended, is no less than the renewal threshold,
\* whatever other requests renewed at the same time.
UseProlongs ==
  \A q \in Requests :
    LET token == requests[q].token IN
    At(q, "handling") /\ requests[q].user # None /\ sessions[token] # None
    => sessions[token].expires >= now + RenewBelow

\* Expired rows are deleted, though sweeps fail.  A sweep that never settles is the
\* last: its flag stays, and the fairness of MCAccounts leaves that out.
ExpiredAreSwept == \A t \in Tokens : Expired(t) ~> ~Expired(t)

\* Whom the cookie signs in.
Holder ==
  IF jar = None THEN None
  ELSE IF sessions[jar] = None \/ sessions[jar].expires <= now THEN None
  ELSE sessions[jar].user

NobodySignsInOrOut == \A q \in Requests : requests[q].kind \notin {"login", "logout"}

\* The answer to who is signed in arrives.
Told(q) == requests[q].kind = "me" /\ Deliver(q)

\* Answers that arrive out of order leave the interface showing somebody the
\* cookie does not sign in, but not past what it hears next: once nobody signs in
\* or out any more, an interface that goes on asking and hearing who is signed in
\* shows just that.  It asks when a screen that shows the user is opened and the
\* last answer is a minute old, and when the connection comes back; nothing obliges
\* it to (session.ts useSession).
InterfaceAgrees ==
  <>[]NobodySignsInOrOut /\ []<><<\E q \in Requests : Told(q)>>_sessionVars
    => <>[](shown = Holder)

\* A session ends when it is signed out of, and not before for somebody who uses it
\* (auth/plugin.ts onRequest).
SessionsHold == SessionTypeOK /\ SignedOutIsOver /\ UseProlongs

\* What is over goes in the end: from the table, and from a screen that goes on asking
\* (cleanup.ts, session.ts useSession).
SessionsSettle == ExpiredAreSwept /\ InterfaceAgrees
=============================================================================
