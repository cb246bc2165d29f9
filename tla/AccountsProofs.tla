---------------------------- MODULE AccountsProofs ----------------------------
(***************************************************************************)
(* What Sessions, RateLimit and Accounts keep true, for any users, tokens, *)
(* requests, instances, addresses, quotas, processes and bounds.           *)
(***************************************************************************)
EXTENDS Sessions, RateLimit, Accounts, SequenceTheorems, TLAPS

-----------------------------------------------------------------------------
(* Sessions.                                                               *)

SessionsSpec == SessionsInit /\ [][SessionsNext]_sessionVars

SessionRows == [user : Users, expires : Nat]
RequestRecords ==
  [step : {"idle", "sent", "renewing", "handling", "answered"}, kind : Kinds,
   token : issued \cup {None}, user : Users \cup {None}, expires : Nat,
   cookie : {"keep", "clear", "set"}]

SessionShapes ==
  /\ sessions \in [Tokens -> SessionRows \cup {None}]
  /\ issued \subseteq Tokens
  /\ requests \in [Requests -> RequestRecords]

\* A request the server has let in knows its session by name; one that is about
\* to renew will give it the whole time to live counted from now, since no
\* request is in the server's hands while the clock moves.
LetIn ==
  \A q \in Requests :
    /\ At(q, "renewing") => /\ requests[q].token \in Tokens
                            /\ requests[q].expires = now + Ttl
    /\ At(q, "handling") /\ requests[q].user # None => requests[q].token \in Tokens

SessionInv == SessionShapes /\ SessionsHold /\ LetIn

USE DEF Kinds

LEMMA SessionsStart == SessionsInit => SessionInv
<1> SUFFICES ASSUME SessionsInit PROVE SessionInv
  OBVIOUS
<1>1. \A q \in Requests : requests[q] = NoRequest BY DEF SessionsInit
<1>2. SessionShapes
  BY <1>1 DEF SessionsInit, SessionShapes, NoRequest, RequestRecords
<1>3. SessionTypeOK
  <2>1. \A t \in Tokens : sessions[t] = None BY DEF SessionsInit
  <2>2. now \in 0..MaxTime BY SessionAssumption DEF SessionsInit
  <2> QED BY <1>1, <2>1, <2>2 DEF SessionsInit, SessionTypeOK, NoRequest
<1>4. SignedOutIsOver /\ UseProlongs /\ LetIn
  BY <1>1 DEF SessionsInit, SignedOutIsOver, UseProlongs, LetIn, At, NoRequest
<1> QED BY <1>2, <1>3, <1>4 DEF SessionInv, SessionsHold

LEMMA SendKeepsSessions ==
  ASSUME SessionInv, NEW q \in Requests, NEW kind \in Kinds, Send(q, kind)
  PROVE  SessionInv'
<1> USE DEF SessionInv, SessionShapes, SessionsHold
<1>1. SessionShapes'
  BY DEF SessionTypeOK, Send, At, NoRequest, RequestRecords
<1>2. SessionTypeOK'
  BY DEF SessionTypeOK, Send, At, NoRequest, RequestRecords
<1>3. SignedOutIsOver' /\ UseProlongs' /\ LetIn'
  BY DEF SignedOutIsOver, UseProlongs, LetIn, Send, At, NoRequest
<1> QED BY <1>1, <1>2, <1>3

LEMMA DeliverKeepsSessions ==
  ASSUME SessionInv, NEW q \in Requests, Deliver(q) \/ Lose(q)
  PROVE  SessionInv'
<1> USE DEF SessionInv, SessionShapes, SessionsHold
<1>1. requests' = [requests EXCEPT ![q] = NoRequest]
       /\ UNCHANGED <<now, sessions, issued, signedOut, running, sweeping>>
  BY DEF Deliver, Lose
<1>2. SessionShapes'
  BY <1>1 DEF SessionTypeOK, NoRequest, RequestRecords
<1>3. jar' \in issued \cup {None} /\ shown' \in Users \cup {None}
  BY DEF SessionTypeOK, Deliver, Lose, Shows, RequestRecords
<1>4. SessionTypeOK'
  BY <1>1, <1>3 DEF SessionTypeOK, NoRequest, RequestRecords
<1>5. SignedOutIsOver' /\ UseProlongs' /\ LetIn'
  BY <1>1 DEF SignedOutIsOver, UseProlongs, LetIn, At, NoRequest
<1> QED BY <1>2, <1>4, <1>5

\* What the server finds: a row that is still valid, or nobody.
LEMMA LookupKeepsSessions ==
  ASSUME SessionInv, NEW q \in Requests, Lookup(q)
  PROVE  SessionInv'
<1> USE DEF SessionInv, SessionShapes, SessionsHold
<1> DEFINE token == requests[q].token
           row   == IF token = None THEN None ELSE sessions[token]
           valid == row # None /\ row.expires > now
           stale == valid /\ ShouldRenew(row.expires)
<1>1. requests[q] \in RequestRecords /\ At(q, "sent") /\ token \in issued \cup {None}
  BY DEF Lookup, RequestRecords
<1>2. now \in Nat /\ Ttl \in Nat /\ RenewBelow \in Nat
  BY SessionAssumption DEF SessionTypeOK
<1>3. valid => token \in Tokens /\ row = sessions[token] /\ row \in SessionRows
  BY <1>1
<1>4. valid /\ ~stale => row.expires >= now + RenewBelow
  BY <1>2, <1>3 DEF ShouldRenew, SessionRows
<1>5. UNCHANGED <<now, sessions, issued, jar, shown, signedOut, running, sweeping>>
  BY DEF Lookup
<1>6. (IF valid THEN row.user ELSE None) \in Users \cup {None}
  BY <1>3 DEF SessionRows
<1>7. PICK new : new = [requests[q] EXCEPT
           !.step = IF stale THEN "renewing" ELSE "handling",
           !.user = IF valid THEN row.user ELSE None,
           !.expires = IF stale THEN now + Ttl ELSE 0,
           !.cookie = IF token # None /\ ~valid THEN "clear" ELSE "keep"]
  OBVIOUS
<1>8. requests' = [requests EXCEPT ![q] = new]
  BY <1>7 DEF Lookup, SessionExpiry
<1>9. /\ new.token = token /\ (new.user # None => valid)
      /\ new.step = "renewing" => stale /\ new.expires = now + Ttl
      /\ new.step = "handling" => ~stale
  BY <1>1, <1>7 DEF RequestRecords
<1>10. new \in RequestRecords
  <2> DEFINE stage == IF stale THEN "renewing" ELSE "handling"
             user == IF valid THEN row.user ELSE None
             expires == IF stale THEN now + Ttl ELSE 0
             cookie == IF token # None /\ ~valid THEN "clear" ELSE "keep"
  <2>1. /\ stage \in {"idle", "sent", "renewing", "handling", "answered"}
        /\ user \in Users \cup {None} /\ expires \in Nat /\ cookie \in {"keep", "clear", "set"}
    BY <1>2, <1>6
  <2>2. new = [requests[q] EXCEPT !.step = stage, !.user = user, !.expires = expires,
                                  !.cookie = cookie]
    BY <1>7
  <2> HIDE DEF stage, user, expires, cookie
  <2> QED BY <1>1, <2>1, <2>2 DEF RequestRecords
<1> HIDE DEF row, valid, stale
<1>11. SessionShapes'
  BY <1>5, <1>8, <1>10 DEF RequestRecords
<1>12. SessionTypeOK'
  BY <1>5, <1>8, <1>10 DEF SessionTypeOK, RequestRecords
<1>13. LetIn'
  <2>1. stale => token \in Tokens BY <1>3 DEF stale
  <2> QED BY <1>1, <1>3, <1>5, <1>8, <1>9, <2>1 DEF LetIn, At
<1>14. UseProlongs'
  <2>1. valid /\ ~stale => sessions[token].expires >= now + RenewBelow
    BY <1>3, <1>4
  <2> QED BY <1>1, <1>5, <1>8, <1>9, <2>1 DEF UseProlongs, At
<1>15. SignedOutIsOver'
  BY <1>5 DEF SignedOutIsOver
<1> QED BY <1>11, <1>12, <1>13, <1>14, <1>15

LEMMA RenewKeepsSessions ==
  ASSUME SessionInv, NEW q \in Requests, Renew(q)
  PROVE  SessionInv'
<1> USE DEF SessionInv, SessionShapes, SessionsHold
<1> DEFINE token == requests[q].token
<1>1. requests[q] \in RequestRecords /\ token \in Tokens /\ requests[q].expires = now + Ttl
  BY DEF Renew, LetIn
<1>2. now \in Nat /\ Ttl \in Nat /\ RenewBelow \in 1..Ttl
  BY SessionAssumption DEF SessionTypeOK
<1>3. requests' = [requests EXCEPT ![q] = [requests[q] EXCEPT !.step = "handling",
                                             !.cookie = "set", !.expires = 0]]
      /\ UNCHANGED <<now, issued, jar, shown, signedOut, running, sweeping>>
  BY DEF Renew
<1>4. /\ sessions' \in [Tokens -> SessionRows \cup {None}]
      /\ \A t \in Tokens : sessions[t] = None => sessions'[t] = None
      /\ \A t \in Tokens : sessions'[t] # None =>
           sessions[t] # None /\ (sessions'[t] = sessions[t] \/ sessions'[t].expires = now + Ttl)
  BY <1>1, <1>2 DEF Renew, SessionRows
<1>5. SessionShapes'
  BY <1>1, <1>3, <1>4 DEF RequestRecords
<1>6. SessionTypeOK'
  BY <1>1, <1>2, <1>3, <1>4 DEF SessionTypeOK, RequestRecords, SessionRows
<1>7. LetIn'
  BY <1>1, <1>3 DEF LetIn, At, RequestRecords
<1>8. SignedOutIsOver'
  BY <1>3, <1>4 DEF SignedOutIsOver, SessionTypeOK
<1>9. ASSUME NEW r \in Requests, At(r, "handling")', requests'[r].user # None,
             sessions'[requests'[r].token] # None
      PROVE  sessions'[requests'[r].token].expires >= now + RenewBelow
  <2>1. requests'[r].token \in Tokens /\ requests'[r].token = requests[r].token
    BY <1>1, <1>3, <1>7, <1>9 DEF LetIn, At, RequestRecords
  <2> DEFINE t == requests[r].token
  <2>2. sessions[t] # None /\ (sessions'[t] = sessions[t] \/ sessions'[t].expires = now + Ttl)
    BY <1>4, <1>9, <2>1
  <2>3. CASE sessions'[t].expires = now + Ttl
    BY <1>2, <2>1, <2>3
  <2>4. CASE sessions'[t] = sessions[t] /\ r # q
    BY <1>3, <1>9, <2>1, <2>2, <2>4 DEF UseProlongs, At
  <2>5. CASE r = q
    BY <1>1, <1>2, <1>4, <2>1, <2>2, <2>5 DEF Renew, SessionRows
  <2> QED BY <2>2, <2>3, <2>4, <2>5
<1>10. UseProlongs'
  BY <1>3, <1>9 DEF UseProlongs
<1> QED BY <1>5, <1>6, <1>7, <1>8, <1>10

LEMMA AnswerKeepsSessions ==
  ASSUME SessionInv, NEW q \in Requests, Answer(q)
  PROVE  SessionInv'
<1> USE DEF SessionInv, SessionShapes, SessionsHold
<1>1. PICK new : new = [NoRequest EXCEPT !.step = "answered",
          !.cookie = requests[q].cookie,
          !.token = IF requests[q].cookie = "set" THEN requests[q].token ELSE None,
          !.user = requests[q].user]
  OBVIOUS
<1>2. requests' = [requests EXCEPT ![q] = new]
      /\ UNCHANGED <<now, sessions, issued, jar, shown, signedOut, running, sweeping>>
  BY <1>1 DEF Answer
<1>3. new \in RequestRecords /\ new.step = "answered"
  BY <1>1 DEF RequestRecords, NoRequest
<1>4. SessionShapes'
  BY <1>2, <1>3 DEF RequestRecords
<1>5. SessionTypeOK'
  BY <1>2, <1>3 DEF SessionTypeOK, RequestRecords
<1>6. SignedOutIsOver' /\ UseProlongs' /\ LetIn'
  BY <1>2, <1>3 DEF SignedOutIsOver, UseProlongs, LetIn, At
<1> QED BY <1>4, <1>5, <1>6

LEMMA LogInKeepsSessions ==
  ASSUME SessionInv, NEW q \in Requests, NEW u \in Users \cup {None}, LogIn(q, u)
  PROVE  SessionInv'
<1> USE DEF SessionInv, SessionShapes, SessionsHold
<1>0. now \in Nat /\ Ttl \in Nat /\ RenewBelow \in 1..Ttl
  BY SessionAssumption DEF SessionTypeOK
<1>1. UNCHANGED <<now, jar, shown, signedOut, running, sweeping>> /\ now \in Nat /\ Ttl \in Nat
      /\ RenewBelow \in 1..Ttl
  BY <1>0 DEF LogIn
<1>2. CASE u = None
  <2>1. PICK new : new = [requests[q] EXCEPT !.step = "answered", !.user = None]
    OBVIOUS
  <2>2. requests' = [requests EXCEPT ![q] = new] /\ UNCHANGED <<sessions, issued>>
    BY <1>2, <2>1 DEF LogIn
  <2>3. new \in RequestRecords /\ new.step = "answered"
    BY <2>1 DEF RequestRecords
  <2>4. SessionShapes'
    BY <1>1, <2>2, <2>3 DEF RequestRecords
  <2>5. SessionTypeOK'
    BY <1>1, <2>2, <2>3 DEF SessionTypeOK, RequestRecords
  <2>6. SignedOutIsOver' /\ UseProlongs' /\ LetIn'
    BY <1>1, <2>2, <2>3 DEF SignedOutIsOver, UseProlongs, LetIn, At
  <2> QED BY <2>4, <2>5, <2>6
<1>3. CASE u # None
  <2>1. PICK token \in Tokens \ issued :
          /\ issued' = issued \cup {token}
          /\ sessions' = [sessions EXCEPT ![token] = [user |-> u, expires |-> SessionExpiry]]
          /\ requests' = [requests EXCEPT ![q] =
                 [@ EXCEPT !.step = "answered", !.token = token, !.user = u, !.cookie = "set"]]
    BY <1>3 DEF LogIn
  <2>2. PICK new : new = [requests[q] EXCEPT !.step = "answered", !.token = token, !.user = u,
                                             !.cookie = "set"]
    OBVIOUS
  <2>3. requests' = [requests EXCEPT ![q] = new]
    BY <2>1, <2>2
  <2>4. new.step = "answered" /\ new \in RequestRecords'
    BY <2>1, <2>2 DEF RequestRecords
  <2>5. RequestRecords \subseteq RequestRecords'
    BY <2>1 DEF RequestRecords
  <2>6. PICK row : row = [user |-> u, expires |-> now + Ttl]
    OBVIOUS
  <2>7. row \in SessionRows /\ row.user \in Users /\ row.expires = now + Ttl
    BY <1>1, <1>3, <2>6 DEF SessionRows
  <2>8. sessions' = [sessions EXCEPT ![token] = row]
    BY <2>1, <2>6 DEF SessionExpiry
  <2>9. SessionShapes'
    BY <2>1, <2>3, <2>4, <2>5, <2>7, <2>8
  <2>10. \A r \in Requests : requests'[r].kind \in Kinds
    BY <2>9 DEF RequestRecords
  <2>11. SessionTypeOK'
    BY <1>1, <2>1, <2>7, <2>8, <2>10 DEF SessionTypeOK
  <2>12. LetIn'
    BY <1>1, <2>3, <2>4 DEF LetIn, At
  <2>13. SignedOutIsOver'
    BY <1>1, <2>1, <2>8 DEF SignedOutIsOver, SessionTypeOK
  <2>14. UseProlongs'
    <3> SUFFICES ASSUME NEW r \in Requests, At(r, "handling")', requests'[r].user # None,
                        sessions'[requests'[r].token] # None
                 PROVE  sessions'[requests'[r].token].expires >= now + RenewBelow
      BY <1>1 DEF UseProlongs
    <3>1. r # q /\ requests'[r] = requests[r] /\ At(r, "handling") /\ requests[r].token \in Tokens
      BY <2>3, <2>4 DEF At, LetIn
    <3>2. CASE requests[r].token = token
      BY <1>1, <2>7, <2>8, <3>1, <3>2
    <3>3. CASE requests[r].token # token
      BY <2>8, <3>1, <3>3 DEF UseProlongs
    <3> QED BY <3>2, <3>3
  <2> QED BY <2>9, <2>11, <2>12, <2>13, <2>14
<1> QED BY <1>2, <1>3

LEMMA LogOutKeepsSessions ==
  ASSUME SessionInv, NEW q \in Requests, LogOut(q)
  PROVE  SessionInv'
<1> USE DEF SessionInv, SessionShapes, SessionsHold
<1> DEFINE token == requests[q].token
<1>1. PICK new : new = [NoRequest EXCEPT !.step = "answered", !.kind = "logout", !.cookie = "clear"]
  OBVIOUS
<1>2. /\ requests' = [requests EXCEPT ![q] = new]
      /\ signedOut' = signedOut \cup ({token} \ {None})
      /\ UNCHANGED <<now, issued, jar, shown, running, sweeping>>
  BY <1>1 DEF LogOut
<1>3. new \in RequestRecords /\ new.step = "answered"
  BY <1>1 DEF RequestRecords, NoRequest
<1>4. sessions' = [t \in Tokens |-> IF t = token THEN None ELSE sessions[t]]
  BY DEF LogOut
<1>5. token \in issued \cup {None}
  BY DEF RequestRecords
<1>6. SessionShapes'
  BY <1>2, <1>3, <1>4 DEF RequestRecords
<1>7. SessionTypeOK'
  BY <1>2, <1>3, <1>4, <1>5 DEF SessionTypeOK, RequestRecords
<1>8. SignedOutIsOver'
  BY <1>2, <1>4, <1>5 DEF SignedOutIsOver, SessionTypeOK
<1>9. LetIn'
  BY <1>2, <1>3 DEF LetIn, At
<1>10. UseProlongs'
  BY <1>2, <1>3, <1>4 DEF UseProlongs, LetIn, At
<1> QED BY <1>6, <1>7, <1>8, <1>9, <1>10

LEMMA UpkeepKeepsSessions ==
  ASSUME SessionInv, StartSweep \/ (\E fails \in BOOLEAN : Sweep(fails)) \/ Tick
  PROVE  SessionInv'
<1> USE DEF SessionInv, SessionShapes, SessionsHold
<1>1. CASE StartSweep
  BY <1>1 DEF StartSweep, RequestRecords, SessionTypeOK, SignedOutIsOver, UseProlongs, LetIn, At
<1>2. ASSUME NEW fails \in BOOLEAN, Sweep(fails) PROVE SessionInv'
  <2>1. /\ sessions' \in [Tokens -> SessionRows \cup {None}]
        /\ \A t \in Tokens : sessions'[t] \in {sessions[t], None}
        /\ UNCHANGED <<now, issued, jar, requests, shown, signedOut>>
        /\ running' \in BOOLEAN /\ sweeping' \in BOOLEAN
    BY <1>2 DEF Sweep
  <2>2. SessionShapes' /\ LetIn'
    BY <2>1 DEF RequestRecords, LetIn, At
  <2>3. SessionTypeOK' /\ SignedOutIsOver'
    BY <2>1 DEF SessionTypeOK, SignedOutIsOver
  <2>4. UseProlongs'
    BY <2>1 DEF UseProlongs, LetIn, At
  <2> QED BY <2>2, <2>3, <2>4
<1>3. CASE Tick
  <2>1. now' = now + 1 /\ now < MaxTime /\ now \in Nat /\ MaxTime \in Nat /\ Ttl \in Nat
        /\ UNCHANGED <<sessions, issued, jar, requests, shown, signedOut, running, sweeping>>
        /\ \A q \in Requests : requests[q].step \notin {"renewing", "handling"}
    BY <1>3, SessionAssumption DEF Tick, SessionTypeOK
  <2>2. SessionShapes' /\ LetIn' /\ UseProlongs' /\ SignedOutIsOver'
    BY <2>1 DEF RequestRecords, LetIn, UseProlongs, SignedOutIsOver, At
  <2>3. SessionTypeOK'
    BY <2>1 DEF SessionTypeOK
  <2> QED BY <2>2, <2>3
<1> QED BY <1>1, <1>2, <1>3

\* Whatever a browser sends and whatever becomes of the answers, a session that
\* was signed out of never grants anything again, and a request that was let in
\* leaves its session more life than the renewal threshold (auth/plugin.ts).
THEOREM SessionsAlwaysHold == SessionsSpec => []SessionsHold
<1>1. ASSUME SessionInv, SessionsNext PROVE SessionInv'
  BY <1>1, SendKeepsSessions, DeliverKeepsSessions, LookupKeepsSessions, RenewKeepsSessions,
     AnswerKeepsSessions, LogInKeepsSessions, LogOutKeepsSessions, UpkeepKeepsSessions
     DEF SessionsNext, Serve
<1>2. ASSUME SessionInv, UNCHANGED sessionVars PROVE SessionInv'
  <2>1. SessionShapes' /\ LetIn'
    BY <1>2 DEF SessionInv, SessionShapes, sessionVars, RequestRecords, LetIn, At
  <2>2. SessionsHold'
    BY <1>2 DEF SessionInv, SessionsHold, sessionVars, SessionTypeOK, SignedOutIsOver,
       UseProlongs, At
  <2> QED BY <2>1, <2>2 DEF SessionInv
<1>3. SessionInv => SessionsHold BY DEF SessionInv
<1> QED BY SessionsStart, <1>1, <1>2, <1>3, PTL DEF SessionsSpec

-----------------------------------------------------------------------------
(* Quotas.                                                                 *)

LimitSpec == LimitInit /\ [][LimitNext]_limitVars

CountersShape ==
  /\ counters \in [Routes \X Addresses -> [n : Nat, ttl : Nat]]
  /\ snapshot \in [Routes \X Addresses -> Nat]
  /\ admitted \in [Addresses -> Nat] /\ forgotten \in [Addresses -> Nat]

\* What is read back counts no more than what is lost with the store.
SavedBefore == \A key \in Routes \X Addresses : snapshot[key] <= counters[key].n

\* What a window let through is never more than what the shared counter says and
\* what restarts took from it.
Accounted ==
  \A client \in Addresses :
    /\ admitted[client] <= Quota + forgotten[client]
    /\ admitted[client] <= counters[<<"login", client>>].n + forgotten[client]

QuotaInv == CountersShape /\ SavedBefore /\ Accounted

USE DEF Routes

\* The client a request is counted as is an address, or the request is refused.
LEMMA ResolvesToAnAddress ==
  ASSUME NEW peer \in Addresses, NEW chain
  PROVE  Resolve(peer, chain) \in Addresses \cup {Garbage}
BY DEF Resolve

\* Who connects to the API: the visitor, or the nearest of the proxies.
LEMMA PeersAreAddresses ==
  ASSUME NEW via \in Paths, NEW visitor \in Visitors
  PROVE  (IF via = <<>> THEN visitor ELSE via[Len(via)]) \in Addresses
<1>1. CASE via = <<>> BY <1>1 DEF Addresses
<1>2. ASSUME NEW p \in Proxies, via = <<p>> PROVE via[Len(via)] = p BY <1>2
<1>3. ASSUME NEW p \in Proxies, NEW r \in Proxies, via = <<p, r>> PROVE via[Len(via)] = r BY <1>3
<1> QED BY <1>1, <1>2, <1>3 DEF Paths, Addresses

\* The step that decides: a counted sign-in passes only when the script's own
\* answer is within the quota.
LEMMA HitKeepsQuota ==
  ASSUME QuotaInv, NEW i \in Instances, NEW route \in Routes, NEW client \in Addresses,
         NEW fate \in Fates, Hit(i, route, client, fate), UNCHANGED <<snapshot, forgotten>>
  PROVE  QuotaInv'
<1>1. PICK key : key = <<route, client>> OBVIOUS
<1>2. key \in Routes \X Addresses BY <1>1
<1>3. PICK old : old = counters[key] OBVIOUS
<1>4. old \in [n : Nat, ttl : Nat] BY <1>2, <1>3 DEF QuotaInv, CountersShape
<1>5. PICK counter : counter = IF fate = "failed" THEN old ELSE Counted(old) OBVIOUS
<1>6. Quota \in Nat /\ Window \in Nat /\ MaxForgotten \in Nat BY RateLimitAssumption
<1>7. counter \in [n : Nat, ttl : Nat] /\ counter.n >= old.n
      /\ (fate # "failed" /\ counter.n <= Quota => counter.n = old.n + 1)
  BY <1>4, <1>5, <1>6 DEF Counted
<1>8. counters' = [counters EXCEPT ![key] = counter]
  BY <1>1, <1>3, <1>5 DEF Hit
<1>9. admitted' = [admitted EXCEPT ![client] =
        IF route = "login" /\ fate = "answered" /\ counter.n <= Quota /\ @ <= Quota + MaxForgotten
          THEN @ + 1 ELSE @]
  BY <1>1, <1>3, <1>5 DEF Hit, SkipOnError
<1>10. CountersShape' /\ SavedBefore'
  <2>1. CountersShape'
    BY <1>2, <1>7, <1>8, <1>9 DEF QuotaInv, CountersShape
  <2>2. ASSUME NEW other \in Routes \X Addresses PROVE snapshot'[other] <= counters'[other].n
    <3>1. snapshot[other] <= counters[other].n /\ snapshot[other] \in Nat
          /\ counters[other] \in [n : Nat, ttl : Nat]
      BY DEF QuotaInv, CountersShape, SavedBefore
    <3>2. counters'[other] = IF other = key THEN counter ELSE counters[other]
      BY <1>2, <1>8 DEF QuotaInv, CountersShape
    <3> QED BY <1>3, <1>7, <3>1, <3>2
  <2> QED BY <2>1, <2>2 DEF SavedBefore
<1>11. ASSUME NEW other \in Addresses
       PROVE  /\ admitted'[other] <= Quota + forgotten'[other]
              /\ admitted'[other] <= counters'[<<"login", other>>].n + forgotten'[other]
  <2>1. PICK place : place = <<"login", other>> OBVIOUS
  <2>2. place \in Routes \X Addresses /\ (place = key => other = client /\ route = "login")
    BY <1>1, <2>1
  <2>3. /\ admitted[other] \in Nat /\ forgotten[other] \in Nat /\ forgotten' = forgotten
        /\ admitted[other] <= Quota + forgotten[other]
        /\ admitted[other] <= counters[place].n + forgotten[other] /\ counters[place].n \in Nat
    BY <2>1, <2>2 DEF QuotaInv, CountersShape, Accounted
  <2>4. CASE place = key
    BY <1>3, <1>4, <1>6, <1>7, <1>8, <1>9, <2>1, <2>2, <2>3, <2>4 DEF QuotaInv, CountersShape
  <2>5. CASE place # key
    <3>1. ~(other = client /\ route = "login") BY <1>1, <2>1, <2>5
    <3>2. admitted'[other] = admitted[other]
      BY <1>9, <3>1 DEF QuotaInv, CountersShape
    <3>3. counters'[place] = counters[place]
      BY <1>8, <2>2, <2>5 DEF QuotaInv, CountersShape
    <3> QED BY <2>1, <2>3, <3>2, <3>3
  <2> QED BY <2>4, <2>5
<1> QED BY <1>10, <1>11 DEF QuotaInv, Accounted

LEMMA TimeKeepsQuota == QuotaInv /\ PassTime => QuotaInv'
<1> SUFFICES ASSUME QuotaInv, PassTime PROVE QuotaInv'
  OBVIOUS
<1>1. \A key \in Routes \X Addresses :
        counters'[key] = IF counters[key].ttl <= 1 THEN [n |-> 0, ttl |-> 0]
                         ELSE [counters[key] EXCEPT !.ttl = @ - 1]
  BY DEF PassTime, QuotaInv, CountersShape
<1>2. ASSUME NEW key \in Routes \X Addresses
      PROVE  /\ counters'[key] \in [n : Nat, ttl : Nat]
             /\ counters[key].ttl > 1 => counters'[key].n = counters[key].n
  <2>1. PICK old : old = counters[key] OBVIOUS
  <2>2. old \in [n : Nat, ttl : Nat] BY <2>1 DEF QuotaInv, CountersShape
  <2>3. CASE old.ttl <= 1
    <3>1. counters'[key] = [n |-> 0, ttl |-> 0] BY <1>1, <2>1, <2>3
    <3> QED BY <2>1, <2>2, <2>3, <3>1
  <2>4. CASE ~(old.ttl <= 1)
    <3>1. counters'[key] = [old EXCEPT !.ttl = @ - 1] BY <1>1, <2>1, <2>4
    <3>2. old.ttl - 1 \in Nat BY <2>2, <2>4
    <3> QED BY <2>1, <2>2, <3>1, <3>2
  <2> QED BY <2>3, <2>4
<1>3. CountersShape' /\ SavedBefore'
  <2>1. ASSUME NEW key \in Routes \X Addresses
        PROVE  snapshot'[key] \in Nat /\ snapshot'[key] <= counters'[key].n
    <3>1. snapshot'[key] = IF RunsOut(key) THEN 0 ELSE snapshot[key]
      BY DEF PassTime, QuotaInv, CountersShape
    <3>2. snapshot[key] \in Nat /\ snapshot[key] <= counters[key].n
          /\ counters[key] \in [n : Nat, ttl : Nat]
      BY DEF QuotaInv, CountersShape, SavedBefore
    <3> QED BY <1>2, <3>1, <3>2 DEF RunsOut
  <2> QED BY <1>2, <2>1 DEF PassTime, QuotaInv, CountersShape, SavedBefore
<1>4. ASSUME NEW client \in Addresses
      PROVE  /\ admitted'[client] <= Quota + forgotten'[client]
             /\ admitted'[client] <= counters'[<<"login", client>>].n + forgotten'[client]
  <2>1. PICK place : place = <<"login", client>> OBVIOUS
  <2>2. place \in Routes \X Addresses BY <2>1
  <2>3. /\ admitted'[client] = IF RunsOut(place) THEN 0 ELSE admitted[client]
        /\ forgotten'[client] = IF RunsOut(place) THEN 0 ELSE forgotten[client]
    BY <2>1 DEF PassTime, SignIns
  <2>4. /\ admitted[client] \in Nat /\ forgotten[client] \in Nat
        /\ admitted[client] <= Quota + forgotten[client]
        /\ admitted[client] <= counters[place].n + forgotten[client]
        /\ counters[place] \in [n : Nat, ttl : Nat]
    BY <2>1, <2>2 DEF QuotaInv, CountersShape, Accounted
  <2>5. counters[place].n = 0 => counters'[place].n = 0
    <3>1. counters'[place] = IF counters[place].ttl <= 1 THEN [n |-> 0, ttl |-> 0]
                             ELSE [counters[place] EXCEPT !.ttl = @ - 1]
      BY <1>1, <2>2
    <3> QED BY <2>4, <3>1
  <2>6. counters'[place].n \in Nat BY <1>2, <2>2
  <2> QED BY <1>2, <2>1, <2>2, <2>3, <2>4, <2>5, <2>6, RateLimitAssumption DEF RunsOut
<1> QED BY <1>3, <1>4 DEF QuotaInv, Accounted

\* What a restart forgets is what it takes from the counter.
LEMMA RestartKeepsQuota == QuotaInv /\ StoreRestarts => QuotaInv'
<1> SUFFICES ASSUME QuotaInv, StoreRestarts PROVE QuotaInv'
  OBVIOUS
<1>1. ASSUME NEW key \in Routes \X Addresses
      PROVE  /\ counters'[key] \in [n : Nat, ttl : Nat]
             /\ counters'[key].n = snapshot[key] /\ snapshot'[key] = snapshot[key]
             /\ snapshot[key] \in Nat /\ snapshot[key] <= counters[key].n
             /\ counters[key].n \in Nat
  <2>1. PICK old : old = counters[key] OBVIOUS
  <2>2. old \in [n : Nat, ttl : Nat] /\ snapshot[key] \in Nat /\ snapshot[key] <= old.n
    BY <2>1 DEF QuotaInv, CountersShape, SavedBefore
  <2>3. counters'[key] = IF snapshot[key] = 0 THEN [n |-> 0, ttl |-> 0]
                         ELSE [old EXCEPT !.n = snapshot[key]]
    BY <2>1 DEF StoreRestarts, QuotaInv, CountersShape
  <2> QED BY <2>1, <2>2, <2>3 DEF StoreRestarts
<1>2. ASSUME NEW client \in Addresses
      PROVE  /\ forgotten'[client] \in Nat /\ admitted'[client] = admitted[client]
             /\ admitted'[client] <= Quota + forgotten'[client]
             /\ admitted'[client] <= counters'[<<"login", client>>].n + forgotten'[client]
  <2>1. PICK place : place = <<"login", client>> OBVIOUS
  <2>2. place \in Routes \X Addresses BY <2>1
  <2>3. forgotten'[client] = forgotten[client] + (counters[place].n - snapshot[place])
    BY <2>1 DEF StoreRestarts, Unsaved, SignIns
  <2>4. /\ admitted[client] \in Nat /\ forgotten[client] \in Nat
        /\ admitted[client] <= Quota + forgotten[client]
        /\ admitted[client] <= counters[place].n + forgotten[client]
    BY <2>1, <2>2 DEF QuotaInv, CountersShape, Accounted
  <2>5. PICK n : n = counters[place].n OBVIOUS
  <2>6. PICK kept : kept = snapshot[place] OBVIOUS
  <2>7. n \in Nat /\ kept \in Nat /\ kept <= n /\ counters'[place].n = kept
    BY <1>1, <2>2, <2>5, <2>6
  <2>8. forgotten'[client] = forgotten[client] + (n - kept) /\ admitted'[client] = admitted[client]
    BY <2>3, <2>5, <2>6 DEF StoreRestarts
  <2>9. /\ forgotten[client] + (n - kept) \in Nat
        /\ admitted[client] <= Quota + (forgotten[client] + (n - kept))
        /\ admitted[client] <= kept + (forgotten[client] + (n - kept))
    BY <2>4, <2>5, <2>7, RateLimitAssumption
  <2> QED BY <2>1, <2>7, <2>8, <2>9
<1>3. CountersShape'
  BY <1>1, <1>2 DEF StoreRestarts, QuotaInv, CountersShape
<1>4. SavedBefore' BY <1>1 DEF SavedBefore
<1> QED BY <1>2, <1>3, <1>4 DEF QuotaInv, Accounted

\* However many instances count, whoever a request claims to be, and though the
\* store cannot be reached, answers late or restarts from an old file meanwhile, no
\* window lets more sign-ins of one client through than the quota and what the
\* restarts forgot of it (INCR_LUA, skipOnError, docker-compose.yml).
THEOREM QuotasHold == LimitSpec => []LoginsWithinQuota
<1>1. LimitInit => QuotaInv
  <2> SUFFICES ASSUME LimitInit PROVE QuotaInv
    OBVIOUS
  <2>1. CountersShape BY DEF LimitInit, CountersShape
  <2>2. \A client \in Addresses : admitted[client] = 0 BY DEF LimitInit
  <2>3. \A client \in Addresses : counters[<<"login", client>>].n \in Nat BY <2>1 DEF CountersShape
  <2>4. SavedBefore BY DEF LimitInit, SavedBefore
  <2>5. \A client \in Addresses : forgotten[client] = 0 BY DEF LimitInit
  <2> QED BY <2>1, <2>2, <2>3, <2>4, <2>5, RateLimitAssumption DEF QuotaInv, Accounted
<1>2. ASSUME QuotaInv, UNCHANGED <<counters, snapshot, admitted, forgotten>> PROVE QuotaInv'
  BY <1>2 DEF QuotaInv, CountersShape, SavedBefore, Accounted
<1>3. ASSUME QuotaInv, NEW i \in Instances, NEW route \in Routes, NEW visitor \in Visitors,
             NEW via \in Paths, NEW claims \in Claims, Request(i, route, visitor, via, claims)
      PROVE  QuotaInv'
  <2> DEFINE peer  == IF via = <<>> THEN visitor ELSE via[Len(via)]
             chain == IF via = <<>> THEN claims
                      ELSE IF source = "header" THEN <<visitor>>
                      ELSE claims \o <<visitor>> \o SubSeq(via, 1, Len(via) - 1)
             key   == Resolve(peer, chain)
  <2>1. peer \in Addresses BY PeersAreAddresses
  <2>2. key \in Addresses \cup {Garbage} BY <2>1, ResolvesToAnAddress
  <2>3. /\ UNCHANGED <<snapshot, forgotten>>
        /\ \/ UNCHANGED <<counters, admitted>>
           \/ key # Garbage /\ \E fate \in Fates : Hit(i, route, key, fate)
    BY <1>3 DEF Request
  <2> HIDE DEF key
  <2> QED BY <1>2, <1>3, <2>2, <2>3, HitKeepsQuota
<1>4. ASSUME QuotaInv, LimitNext PROVE QuotaInv'
  <2>1. CASE PassTime BY <1>4, <2>1, TimeKeepsQuota
  <2>2. CASE StoreComesOrGoes BY <1>2, <1>4, <2>2 DEF StoreComesOrGoes
  <2>3. ASSUME NEW i \in Instances, LimiterError(i) PROVE QuotaInv'
    BY <1>2, <1>4, <2>3 DEF LimiterError
  <2>4. ASSUME NEW peer, NEW chain, Misconfigured(peer, chain) PROVE QuotaInv'
    BY <1>2, <1>4, <2>4 DEF Misconfigured
  <2>5. CASE StoreSaves
    <3>1. snapshot' = [key \in Routes \X Addresses |-> counters[key].n]
          /\ UNCHANGED <<counters, admitted, forgotten>>
      BY <1>4, <2>5 DEF StoreSaves, QuotaInv, CountersShape
    <3>2. \A key \in Routes \X Addresses : counters[key].n \in Nat
      BY <1>4 DEF QuotaInv, CountersShape
    <3> QED BY <1>4, <3>1, <3>2 DEF QuotaInv, CountersShape, SavedBefore, Accounted
  <2>6. CASE StoreRestarts BY <1>4, <2>6, RestartKeepsQuota
  <2> QED BY <1>3, <1>4, <2>1, <2>2, <2>3, <2>4, <2>5, <2>6 DEF LimitNext
<1>5. ASSUME QuotaInv, UNCHANGED limitVars PROVE QuotaInv'
  BY <1>2, <1>5 DEF limitVars
<1>6. QuotaInv => LoginsWithinQuota
  BY DEF QuotaInv, Accounted, LoginsWithinQuota, Addresses
<1> QED BY <1>1, <1>4, <1>5, <1>6, PTL DEF LimitSpec

LEMMA Singletons ==
  ASSUME NEW S, NEW x \in S
  PROVE  <<x>> \in Seq(S) /\ Len(<<x>>) = 1 /\ <<x>>[1] = x
OBVIOUS

\* What is where in a sequence that two others make up.
JoinOf(S, a, b, c) ==
  /\ c \in Seq(S) /\ Len(c) = Len(a) + Len(b) /\ Len(a) \in Nat /\ Len(b) \in Nat
  /\ \A i \in 1..Len(a) : c[i] = a[i]
  /\ \A i \in 1..Len(c) : i > Len(a) => c[i] = b[i - Len(a)] /\ i - Len(a) \in 1..Len(b)

LEMMA Joined ==
  ASSUME NEW S, NEW a, NEW b, NEW c, a \in Seq(S), b \in Seq(S), c = a \o b
  PROVE  JoinOf(S, a, b, c)
<1>1. Len(a) \in Nat /\ Len(b) \in Nat BY LenProperties
<1>2. a \o b \in Seq(S) /\ Len(a \o b) = Len(a) + Len(b) BY ConcatProperties
<1>3. \A i \in 1..Len(a) + Len(b) : (a \o b)[i] = IF i <= Len(a) THEN a[i] ELSE b[i - Len(a)]
  BY ConcatProperties
<1>4. c \in Seq(S) /\ Len(c) = Len(a) + Len(b) BY <1>2
<1>5. \A i \in 1..Len(c) : c[i] = IF i <= Len(a) THEN a[i] ELSE b[i - Len(a)] BY <1>3, <1>4
<1>6. \A i \in 1..Len(a) : c[i] = a[i] BY <1>1, <1>4, <1>5
<1>7. \A i \in 1..Len(c) : i > Len(a) => c[i] = b[i - Len(a)] /\ i - Len(a) \in 1..Len(b)
  BY <1>1, <1>4, <1>5
<1> QED BY <1>1, <1>4, <1>6, <1>7 DEF JoinOf

\* Two addresses side by side.
LEMMA PairOfSingletons == ASSUME NEW x, NEW y PROVE <<x>> \o <<y>> = <<x, y>>
<1>1. PICK S : S = {x, y} OBVIOUS
<1>2. PICK front : front = <<x>> OBVIOUS
<1>3. PICK back : back = <<y>> OBVIOUS
<1>4. front \in Seq(S) /\ Len(front) = 1 /\ front[1] = x BY <1>1, <1>2
<1>5. back \in Seq(S) /\ Len(back) = 1 /\ back[1] = y BY <1>1, <1>3
<1>6. PICK both : both = front \o back OBVIOUS
<1>7. PICK pair : pair = <<x, y>> OBVIOUS
<1>8. both \in Seq(S) /\ Len(both) = 2 /\ both[1] = x /\ both[2] = y
  <2>1. both \in Seq(S) /\ Len(both) = Len(front) + Len(back)
        /\ (\A i \in 1..Len(front) : both[i] = front[i])
        /\ \A i \in 1..Len(both) : i > Len(front) => both[i] = back[i - Len(front)]
    <3>1. JoinOf(S, front, back, both) BY <1>4, <1>5, <1>6, Joined
    <3> QED BY <3>1 DEF JoinOf
  <2>2. Len(both) = 2 /\ 1 \in 1..Len(front) /\ 2 \in 1..Len(both) /\ 2 > Len(front)
        /\ 2 - Len(front) = 1
    BY <1>4, <1>5, <2>1
  <2> QED BY <1>4, <1>5, <2>1, <2>2
<1>9. pair \in Seq(S) /\ Len(pair) = 2 /\ pair[1] = x /\ pair[2] = y
  BY <1>1, <1>7
<1>10. \A i \in 1..Len(both) : both[i] = pair[i] BY <1>8, <1>9
<1>11. both = pair BY <1>8, <1>9, <1>10, SeqEqual
<1> QED BY <1>2, <1>3, <1>6, <1>7, <1>11

\* Fastify's walk ends at the visitor, however much it claims to its left, when
\* all the hops to its right are declared.
LEMMA WalkEndsAtTheVisitor ==
  ASSUME NEW S, NEW claims \in Seq(S), NEW visitor, visitor \notin Declared,
         NEW hops \in Seq(Declared), NEW peer \in Declared
  PROVE  Walk(peer, claims \o <<visitor>> \o hops) = visitor
<1> DEFINE T == S \cup {visitor} \cup Declared
<1>1. claims \in Seq(T) /\ hops \in Seq(T) /\ <<visitor>> \in Seq(T) /\ <<peer>> \in Seq(T)
  OBVIOUS
<1>2. PICK path : path = claims \o <<visitor>> \o hops \o <<peer>> OBVIOUS
<1>3. PICK here : here = Len(claims) + 1 OBVIOUS
<1>4. /\ path \in Seq(T) /\ Len(path) = Len(claims) + 1 + Len(hops) + 1
      /\ path[here] = visitor
      /\ \A i \in 1..Len(path) : i > here => path[i] \in Declared
  <2>1. PICK front : front = claims \o <<visitor>> OBVIOUS
  <2>2. front \in Seq(T) /\ Len(front) = Len(claims) + 1 /\ front[here] = visitor
    BY <1>1, <1>3, <2>1
  <2>3. PICK middle : middle = front \o hops OBVIOUS
  <2> HIDE DEF T
  <2>4. /\ middle \in Seq(T) /\ Len(middle) = Len(front) + Len(hops)
        /\ \A i \in 1..Len(front) : middle[i] = front[i]
        /\ \A i \in 1..Len(middle) : i > Len(front) => middle[i] = hops[i - Len(front)]
                                                     /\ i - Len(front) \in 1..Len(hops)
    <3>1. JoinOf(T, front, hops, middle) BY <1>1, <2>2, <2>3, Joined
    <3> QED BY <3>1 DEF JoinOf
  <2>5. PICK end : end = <<peer>> OBVIOUS
  <2>6. /\ path \in Seq(T) /\ Len(path) = Len(middle) + 1 /\ Len(middle) \in Nat
        /\ \A i \in 1..Len(middle) : path[i] = middle[i]
        /\ \A i \in 1..Len(path) : i > Len(middle) => path[i] = peer
    <3>1. end \in Seq(T) /\ Len(end) = 1 /\ end[1] = peer BY <1>1, <2>5
    <3>2. path = middle \o end BY <1>2, <2>1, <2>3, <2>5
    <3>3. path \in Seq(T) /\ Len(path) = Len(middle) + 1 /\ Len(middle) \in Nat
          /\ (\A i \in 1..Len(middle) : path[i] = middle[i])
          /\ \A i \in 1..Len(path) : i > Len(middle) => path[i] = end[i - Len(middle)]
                                                      /\ i - Len(middle) \in 1..1
      <4>1. JoinOf(T, middle, end, path) BY <2>4, <3>1, <3>2, Joined
      <4> QED BY <3>1, <4>1 DEF JoinOf
    <3>4. \A i \in 1..Len(path) : i > Len(middle) => path[i] = peer
      BY <3>1, <3>3
    <3> QED BY <3>3, <3>4
  <2>7. here \in 1..Len(front) /\ here = Len(front) /\ Len(hops) \in Nat /\ Len(claims) \in Nat
    BY <1>1, <1>3, <2>2
  <2>8. path[here] = visitor
    <3>1. here \in 1..Len(middle) BY <2>4, <2>6, <2>7
    <3> QED BY <2>2, <2>4, <2>6, <2>7, <3>1
  <2>9. ASSUME NEW i \in 1..Len(path), i > here PROVE path[i] \in Declared
    <3>1. CASE i <= Len(middle)
      <4>1. path[i] = hops[i - Len(front)] /\ i - Len(front) \in 1..Len(hops)
        BY <2>4, <2>6, <2>7, <2>9, <3>1
      <4> QED BY <4>1
    <3>2. CASE ~(i <= Len(middle))
      BY <2>6, <3>2
    <3> QED BY <3>1, <3>2
  <2> QED BY <2>2, <2>4, <2>6, <2>8, <2>9
<1>5. PICK far : far = {i \in 1..Len(path) : path[i] \notin Declared} OBVIOUS
<1>6. here \in far /\ \A j \in far : j <= here
  BY <1>1, <1>3, <1>4, <1>5
<1>7. far # {} /\ (CHOOSE i \in far : \A j \in far : j <= i) = here
  <2>1. far \subseteq Nat BY <1>5
  <2>2. ASSUME NEW i \in far, \A j \in far : j <= i PROVE i = here
    <3>1. here <= i /\ i <= here BY <1>6, <2>2
    <3>2. here \in Nat /\ i \in Nat BY <1>6, <2>1
    <3> QED BY <3>1, <3>2
  <2>3. PICK top : top = CHOOSE i \in far : \A j \in far : j <= i OBVIOUS
  <2>4. top \in far /\ \A j \in far : j <= top BY <1>6, <2>3
  <2> QED BY <1>6, <2>2, <2>3, <2>4
<1>8. Walk(peer, claims \o <<visitor>> \o hops)
        = IF far = {} THEN Head(path) ELSE path[CHOOSE i \in far : \A j \in far : j <= i]
  BY <1>2, <1>5 DEF Walk
<1> QED BY <1>4, <1>7, <1>8

\* A chain that names no client, only proxies or what is no address, leads to
\* nobody.
LEMMA NobodyIsNamed ==
  ASSUME NEW peer \in Declared,
         NEW chain \in {<<>>, <<Garbage>>} \cup {<<p>> : p \in Proxies},
         Declared = Proxies
  PROVE  Walk(peer, chain) \in Proxies \cup {Garbage}
<1>1. PICK path : path = chain \o <<peer>> OBVIOUS
<1>2. PICK far : far = {i \in 1..Len(path) : path[i] \notin Declared} OBVIOUS
<1>3. Walk(peer, chain)
        = IF far = {} THEN Head(path) ELSE path[CHOOSE i \in far : \A j \in far : j <= i]
  BY <1>1, <1>2 DEF Walk
<1>4. CASE chain = <<>>
  <2>1. path = <<peer>> BY <1>1, <1>4
  <2>2. far = {} BY <1>2, <2>1
  <2> QED BY <1>3, <2>1, <2>2
<1>5. CASE chain = <<Garbage>>
  <2>1. path = <<Garbage, peer>> BY <1>1, <1>5, PairOfSingletons
  <2>2. Garbage \notin Declared BY RateLimitAssumption
  <2>3. far = {1} BY <1>2, <2>1, <2>2
  <2> QED BY <1>3, <2>1, <2>3
<1>6. ASSUME NEW p \in Proxies, chain = <<p>> PROVE Walk(peer, chain) \in Proxies
  <2>1. path = <<p, peer>> BY <1>1, <1>6, PairOfSingletons
  <2>2. far = {} BY <1>2, <2>1
  <2> QED BY <1>3, <2>1, <2>2
<1> QED BY <1>4, <1>5, <1>6

\* A request uses up the quota of the client it came from and of nobody else,
\* whatever it claims and whichever declared proxies it came through; and no
\* proxy is ever a client where the chain is to name one (client-ip.ts).
THEOREM ClientsAlwaysHold == LimitSpec => []ClientsHold
<1> USE DEF ClientsHold, CountedAsItself, ProxiesAreNoClients
<1>1. LimitInit => ClientsHold
  BY RateLimitAssumption DEF LimitInit, NotCounted
<1>2. ASSUME ClientsHold, UNCHANGED <<last, source>> PROVE ClientsHold'
  BY <1>2
<1>3. Declared \in {{}, Proxies} /\ (Declared # {} => Declared = Proxies /\ source # "socket")
  BY DEF Declared
<1>4. ASSUME NEW i \in Instances, NEW route \in Routes, NEW visitor \in Visitors,
             NEW via \in Paths, NEW claims \in Claims, Request(i, route, visitor, via, claims)
      PROVE  ClientsHold'
  <2>1. PICK peer : peer = IF via = <<>> THEN visitor ELSE via[Len(via)] OBVIOUS
  <2>2. PICK chain : chain = IF via = <<>> THEN claims
                      ELSE IF source = "header" THEN <<visitor>>
                      ELSE claims \o <<visitor>> \o SubSeq(via, 1, Len(via) - 1) OBVIOUS
  <2>3. PICK key : key = Resolve(peer, chain) OBVIOUS
  <2>4. source' = source /\ last' \in {NotCounted, [client |-> visitor, key |-> key]}
    BY <1>4, <2>1, <2>2, <2>3 DEF Request
  <2>5. visitor \notin Proxies /\ visitor \in Addresses BY RateLimitAssumption DEF Addresses
  <2>6. key \in {visitor, Garbage}
    <3>1. CASE via = <<>>
      BY <1>3, <2>1, <2>3, <2>5, <3>1 DEF Resolve
    <3>2. ASSUME NEW hops \in Seq(Proxies), Declared = Proxies, peer \in Proxies, via # <<>>,
                 SubSeq(via, 1, Len(via) - 1) = hops
          PROVE  key \in {visitor, Garbage}
      <4>1. claims \in Seq(Addresses \cup {Garbage})
        <5>1. CASE claims = <<>> BY <5>1
        <5>2. ASSUME NEW a \in Addresses \cup {Garbage}, claims = <<a>>
              PROVE  claims \in Seq(Addresses \cup {Garbage})
          BY <5>2, Singletons
        <5> QED BY <5>1, <5>2 DEF Claims
      <4>2. CASE source = "forwarded"
        <5>1. chain = claims \o <<visitor>> \o hops BY <2>2, <3>2, <4>2
        <5>2. Walk(peer, chain) = visitor
          BY <2>5, <3>2, <4>1, <5>1, WalkEndsAtTheVisitor
        <5> QED BY <2>3, <2>5, <3>2, <4>2, <5>2 DEF Resolve
      <4>3. CASE source = "header"
        <5>1. chain = <<visitor>> BY <2>2, <3>2, <4>3
        <5>2. Len(chain) = 1 /\ chain[1] = visitor BY <5>1
        <5> QED BY <2>3, <2>5, <3>2, <4>3, <5>2 DEF Resolve
      <4>4. CASE source \notin {"forwarded", "header"}
        <5>1. chain = claims \o <<visitor>> \o hops BY <2>2, <3>2, <4>4
        <5>2. PICK front : front = claims \o <<visitor>> OBVIOUS
        <5>3. PICK T : T = Addresses \cup {Garbage} \cup Proxies OBVIOUS
        <5>4. claims \in Seq(T) /\ hops \in Seq(T) /\ <<visitor>> \in Seq(T)
          BY <2>5, <4>1, <5>3
        <5>5. front \in Seq(T) /\ Len(front) = Len(claims) + 1 /\ front[Len(claims) + 1] = visitor
          BY <5>2, <5>4
        <5>6. chain = front \o hops BY <5>1, <5>2
        <5>7. Len(chain) = Len(front) + Len(hops) /\ Len(hops) \in Nat /\ Len(claims) \in Nat
              /\ (\A j \in 1..Len(front) : chain[j] = front[j])
          <6>1. JoinOf(T, front, hops, chain) BY <5>4, <5>5, <5>6, Joined
          <6>2. Len(claims) \in Nat BY <5>4, LenProperties
          <6> QED BY <6>1, <6>2 DEF JoinOf
        <5>8. Len(chain) = 1 => chain[1] = visitor
          <6> SUFFICES ASSUME Len(chain) = 1 PROVE chain[1] = visitor
            OBVIOUS
          <6>1. Len(front) = 1 /\ Len(claims) = 0 BY <5>5, <5>7
          <6> QED BY <5>5, <5>7, <6>1
        <5> QED BY <2>3, <2>5, <3>2, <4>4, <5>8 DEF Resolve
      <4> QED BY <4>2, <4>3, <4>4
    <3>3. ASSUME NEW p \in Proxies, via = <<p>>, Declared # {} PROVE key \in {visitor, Garbage}
      <4>1. SubSeq(via, 1, Len(via) - 1) = <<>> /\ peer = p /\ via # <<>>
        BY <2>1, <3>3
      <4>2. <<>> \in Seq(Proxies) OBVIOUS
      <4> QED BY <1>3, <3>2, <3>3, <4>1, <4>2
    <3>4. ASSUME NEW p \in Proxies, NEW r \in Proxies, via = <<p, r>>, Declared # {}
          PROVE  key \in {visitor, Garbage}
      <4>1. SubSeq(via, 1, Len(via) - 1) = <<p>> /\ peer = r /\ via # <<>>
        <5>1. Len(via) = 2 /\ via[1] = p /\ via[2] = r /\ via # <<>> BY <3>4
        <5>2. PICK front : front = SubSeq(via, 1, 1) OBVIOUS
        <5>3. \A k \in 1..1 : via[k] \in Proxies BY <5>1
        <5>4. front \in Seq(Proxies) /\ Len(front) = 1 /\ front[1] = p
          BY <5>1, <5>2, <5>3, SubSeqProperties
        <5>5. PICK single : single = <<p>> OBVIOUS
        <5>6. single \in Seq(Proxies) /\ Len(single) = 1 /\ single[1] = p BY <5>5
        <5>7. front = single
          BY <5>4, <5>6, SeqEqual
        <5>8. Len(via) - 1 = 1 BY <5>1
        <5>9. SubSeq(via, 1, Len(via) - 1) = <<p>> BY <5>2, <5>5, <5>7, <5>8
        <5> QED BY <2>1, <5>1, <5>9
      <4>2. <<p>> \in Seq(Proxies) OBVIOUS
      <4> QED BY <1>3, <3>2, <3>4, <4>1, <4>2
    <3> QED BY <3>1, <3>3, <3>4 DEF Paths
  <2> QED BY <2>4, <2>5, <2>6, RateLimitAssumption DEF NotCounted
<1>5. ASSUME NEW peer \in Proxies, NEW chain \in {<<>>, <<Garbage>>} \cup {<<p>> : p \in Proxies},
             Misconfigured(peer, chain)
      PROVE  ClientsHold'
  <2>1. PICK key : key = Resolve(peer, chain) OBVIOUS
  <2>2. source' = source /\ last' = [client |-> peer, key |-> key] /\ peer \in Declared
        /\ Declared = Proxies
    BY <1>3, <1>5, <2>1 DEF Misconfigured
  <2>3. CASE source = "forwarded"
    <3>1. Walk(peer, chain) \in Proxies \cup {Garbage} BY <2>2, NobodyIsNamed
    <3>2. key = Garbage
      BY <2>1, <2>2, <2>3, <3>1, RateLimitAssumption DEF Resolve, Addresses
    <3> QED BY <2>2, <3>2, RateLimitAssumption
  <2>4. CASE source # "forwarded"
    <3>1. Len(chain) = 1 => chain[1] \in Proxies \cup {Garbage}
      OBVIOUS
    <3>2. key \in Proxies \cup {Garbage}
      BY <2>1, <2>2, <2>4, <3>1 DEF Resolve
    <3> QED BY <2>2, <2>4, <3>2, RateLimitAssumption
  <2> QED BY <2>3, <2>4
<1>6. ASSUME ClientsHold, LimitNext PROVE ClientsHold'
  <2>1. CASE PassTime \/ StoreComesOrGoes \/ StoreSaves \/ StoreRestarts
    BY <1>2, <1>6, <2>1 DEF PassTime, StoreComesOrGoes, StoreSaves, StoreRestarts
  <2>2. ASSUME NEW i \in Instances, LimiterError(i) PROVE ClientsHold'
    BY <1>2, <1>6, <2>2 DEF LimiterError
  <2> QED BY <1>4, <1>5, <1>6, <2>1, <2>2 DEF LimitNext
<1>7. ASSUME ClientsHold, UNCHANGED limitVars PROVE ClientsHold'
  BY <1>2, <1>7 DEF limitVars
<1> QED BY <1>1, <1>6, <1>7, PTL DEF LimitSpec

-----------------------------------------------------------------------------
(* The first administrator, and the memory of reports.                     *)

AccountsSpec == AccountsInit /\ [][AccountsNext]_accountVars

BootStages == {"idle", "locking", "counting", "inserting", "declined", "created"}

\* Whoever counts or inserts holds the lock, and the table is still what it
\* counted.
Bootstrapping ==
  /\ boot \in [Processes -> BootStages]
  /\ administrators \in {0, 1}
  /\ OneFirstAdministrator
  /\ \A p \in Processes :
       /\ boot[p] \in {"counting", "inserting"} => advisoryLock = p
       /\ boot[p] = "inserting" => administrators = 0

\* A pair was followed by as many others as there are pairs after it.
Remembering ==
  /\ keys \in Seq(Rows) /\ Len(keys) <= Capacity
  /\ others \in [Rows -> Nat]
  /\ \A i \in 1..Len(keys) : others[keys[i]] = Len(keys) - i
  /\ \A k \in Rows \ ToSet(keys) : others[k] = Capacity

AccountsInv == Bootstrapping /\ Remembering

LEMMA BootKeepsAccounts ==
  ASSUME Bootstrapping, NEW p \in Processes,
         Begin(p) \/ Lock(p) \/ Count(p) \/ (\E heard \in BOOLEAN : Commit(p, heard)) \/ Abort(p)
  PROVE  Bootstrapping' /\ UNCHANGED <<keys, others>>
<1> USE DEF Bootstrapping, BootStages, OneFirstAdministrator
<1>1. CASE Begin(p) BY <1>1 DEF Begin
<1>2. CASE Lock(p)
  BY <1>2, AccountsAssumption DEF Lock
<1>3. CASE Count(p)
  <2>1. CASE administrators > 0 BY <1>3, <2>1 DEF Count, Unlock
  <2>2. CASE ~(administrators > 0)
    BY <1>3, <2>2 DEF Count
  <2> QED BY <2>1, <2>2
<1>4. ASSUME NEW heard \in BOOLEAN, Commit(p, heard)
      PROVE  Bootstrapping' /\ UNCHANGED <<keys, others>>
  <2>1. /\ administrators = 0 /\ administrators' = 1
        /\ boot' = [boot EXCEPT ![p] = IF heard THEN "created" ELSE "idle"]
    BY <1>4 DEF Commit
  <2>2. \A r \in Processes : r # p => boot[r] \notin {"counting", "inserting"}
    BY <1>4 DEF Commit
  <2> QED BY <1>4, <2>1, <2>2 DEF Commit
<1>5. CASE Abort(p)
  <2>1. boot' = [boot EXCEPT ![p] = "idle"] /\ UNCHANGED <<administrators, keys, others>>
        /\ boot[p] # "created"
    BY <1>5 DEF Abort
  <2>2. \A r \in Processes : r # p /\ boot[r] \in {"counting", "inserting"} => advisoryLock' = r
    BY <1>5 DEF Abort, Unlock
  <2> QED BY <2>1, <2>2
<1> QED BY <1>1, <1>2, <1>3, <1>4, <1>5

LEMMA ReportKeepsAccounts ==
  ASSUME Remembering, NEW row \in Rows, Report(row)
  PROVE  Remembering'
<1> USE DEF Remembering
<1>1. Capacity \in Nat \ {0} /\ Len(keys) \in Nat BY AccountsAssumption, LenProperties
<1>2. CASE row \in ToSet(keys)
  BY <1>2 DEF Report, Remember
<1>3. CASE row \notin ToSet(keys)
  <2>1. PICK longer : longer = Append(keys, row) OBVIOUS
  <2>2. /\ longer \in Seq(Rows) /\ Len(longer) = Len(keys) + 1 /\ longer # <<>>
        /\ longer[Len(keys) + 1] = row
        /\ \A i \in 1..Len(keys) : longer[i] = keys[i]
    BY <2>1, AppendProperties
  <2>3. keys' = IF Len(longer) > Capacity THEN Tail(longer) ELSE longer
    BY <1>3, <2>1 DEF Report, Remember, Trimmed
  <2>4. others' = [k \in Rows |-> IF k = row THEN 0
                                  ELSE IF others[k] < Capacity THEN others[k] + 1 ELSE Capacity]
    BY <1>3 DEF Report
  <2>5. \A i \in 1..Len(keys) : keys[i] \in Rows /\ keys[i] \in ToSet(keys) /\ keys[i] # row
    <3>1. \A i \in 1..Len(keys) : keys[i] \in Rows BY ElementOfSeq
    <3>2. DOMAIN keys = 1..Len(keys) BY LenProperties
    <3> QED BY <1>3, <3>1, <3>2 DEF ToSet
  <2>6. others' \in [Rows -> Nat] BY <1>1, <2>4
  <2>7. \A i \in 1..Len(longer) : others'[longer[i]] = Len(longer) - i
    <3> SUFFICES ASSUME NEW i \in 1..Len(longer) PROVE others'[longer[i]] = Len(longer) - i
      OBVIOUS
    <3>1. CASE i = Len(keys) + 1 BY <1>1, <2>2, <2>4, <3>1
    <3>2. CASE i # Len(keys) + 1
      <4>1. i \in 1..Len(keys) BY <1>1, <2>2, <3>2
      <4>2. others[keys[i]] = Len(keys) - i /\ others[keys[i]] < Capacity
        BY <1>1, <4>1
      <4>3. others'[keys[i]] = others[keys[i]] + 1
        BY <2>4, <2>5, <4>1, <4>2
      <4> QED BY SMTT(60), <1>1, <2>2, <4>1, <4>2, <4>3
    <3> QED BY <3>1, <3>2
  <2>8. ToSet(longer) = ToSet(keys) \cup {row}
    <3>1. DOMAIN keys = 1..Len(keys) /\ DOMAIN longer = 1..Len(longer)
      BY <2>2, LenProperties
    <3>2. \A i \in 1..Len(longer) : i \in 1..Len(keys) \/ i = Len(keys) + 1
      BY <1>1, <2>2
    <3>3. 1..Len(keys) \subseteq 1..Len(longer) /\ Len(keys) + 1 \in 1..Len(longer)
      BY <1>1, <2>2
    <3>4. ASSUME NEW k \in ToSet(longer) PROVE k \in ToSet(keys) \cup {row}
      <4>1. PICK i \in 1..Len(longer) : longer[i] = k BY <3>1 DEF ToSet
      <4>2. CASE i \in 1..Len(keys) BY <2>2, <3>1, <4>1, <4>2 DEF ToSet
      <4> QED BY <2>2, <3>2, <4>1, <4>2
    <3>5. ASSUME NEW k \in ToSet(keys) PROVE k \in ToSet(longer)
      <4>1. PICK i \in 1..Len(keys) : keys[i] = k BY <3>1 DEF ToSet
      <4> QED BY <2>2, <3>1, <3>3, <4>1 DEF ToSet
    <3>6. row \in ToSet(longer) BY <2>2, <3>1, <3>3 DEF ToSet
    <3> QED BY <3>4, <3>5, <3>6
  <2>9. \A k \in Rows \ ToSet(longer) : others'[k] = Capacity
    BY <1>1, <2>4, <2>8
  <2>10. CASE Len(longer) <= Capacity
    <3>1. keys' = longer BY <1>1, <2>2, <2>3, <2>10
    <3> QED BY <2>2, <2>6, <2>7, <2>9, <2>10, <3>1
  <2>11. CASE ~(Len(longer) <= Capacity)
    <3>1. keys' = Tail(longer) /\ Len(longer) = Capacity + 1
      BY <1>1, <2>2, <2>3, <2>11
    <3>2. /\ keys' \in Seq(Rows) /\ Len(keys') = Len(longer) - 1
          /\ \A i \in 1..Len(keys') : keys'[i] = longer[i + 1]
      <4>1. PICK rest : rest = Tail(longer) OBVIOUS
      <4>2. rest \in Seq(Rows) /\ Len(rest) = Len(longer) - 1
            /\ \A i \in 1..Len(rest) : rest[i] = longer[i + 1]
        BY <2>2, <4>1, HeadTailProperties
      <4> QED BY <3>1, <4>1, <4>2
    <3>3. ASSUME NEW i \in 1..Len(keys') PROVE others'[keys'[i]] = Len(keys') - i
      <4>1. i + 1 \in 1..Len(longer) BY <1>1, <3>1, <3>2
      <4>2. others'[longer[i + 1]] = Len(longer) - (i + 1) BY <2>7, <4>1
      <4>3. keys'[i] = longer[i + 1] BY <3>2
      <4>4. Len(keys') = Capacity /\ Len(longer) - (i + 1) = Capacity - i
        BY <1>1, <3>1, <3>2
      <4> QED BY <4>2, <4>3, <4>4
    <3>4. ASSUME NEW k \in Rows \ ToSet(keys') PROVE others'[k] = Capacity
      <4>1. CASE k \notin ToSet(longer) BY <2>9, <4>1
      <4>2. CASE k \in ToSet(longer)
        <5>1. PICK i \in 1..Len(longer) : longer[i] = k
          BY <2>2, <4>2, LenProperties DEF ToSet
        <5>2. i = 1
          <6> SUFFICES ASSUME i # 1 PROVE FALSE
            OBVIOUS
          <6>1. i - 1 \in 1..Len(keys') BY <1>1, <3>1, <3>2
          <6>2. keys'[i - 1] = k BY <1>1, <3>1, <3>2, <5>1, <6>1
          <6>3. DOMAIN keys' = 1..Len(keys') BY <3>2, LenProperties
          <6> QED BY <6>1, <6>2, <6>3 DEF ToSet
        <5> QED BY <1>1, <2>7, <3>1, <5>1, <5>2
      <4> QED BY <4>1, <4>2
    <3> QED BY <1>1, <2>6, <3>1, <3>2, <3>3, <3>4
  <2> QED BY <2>10, <2>11
<1> QED BY <1>2, <1>3

\* Processes that set an installation up side by side leave it with one first
\* administrator, which at most one of them is told to have made, though each may die
\* at any point, or not hear of its own commit, and be run again; and a bad row is silent for at most as many other reports
\* as the memory has places (createInitialAdministrator, createCorrectionMemory).
THEOREM AccountsAlwaysHold == AccountsSpec => []AccountsHold
<1>1. AccountsInit => AccountsInv
  <2> SUFFICES ASSUME AccountsInit PROVE AccountsInv
    OBVIOUS
  <2>1. Bootstrapping BY DEF AccountsInit, Bootstrapping, BootStages, OneFirstAdministrator
  <2>2. keys \in Seq(Rows) /\ Len(keys) = 0 BY DEF AccountsInit
  <2>3. Remembering BY <2>2, AccountsAssumption DEF AccountsInit, Remembering
  <2> QED BY <2>1, <2>3 DEF AccountsInv
<1>2. ASSUME AccountsInv, AccountsNext PROVE AccountsInv'
  <2>1. ASSUME NEW row \in Rows, Report(row) PROVE AccountsInv'
    <3>1. Bootstrapping' BY <1>2, <2>1 DEF AccountsInv, Bootstrapping, Report, OneFirstAdministrator
    <3> QED BY <1>2, <2>1, <3>1, ReportKeepsAccounts DEF AccountsInv
  <2>2. ASSUME UNCHANGED <<keys, others>> PROVE Remembering'
    BY <1>2, <2>2 DEF AccountsInv, Remembering
  <2> QED BY <1>2, <2>1, <2>2, BootKeepsAccounts DEF AccountsInv, AccountsNext
<1>3. ASSUME AccountsInv, UNCHANGED accountVars PROVE AccountsInv'
  BY <1>3 DEF AccountsInv, Bootstrapping, Remembering, accountVars, OneFirstAdministrator
<1>4. ASSUME AccountsInv PROVE AccountsHold
  <2>1. OneFirstAdministrator BY <1>4 DEF AccountsInv, Bootstrapping
  <2>2. Len(keys) \in Nat /\ DOMAIN keys = 1..Len(keys) BY <1>4, LenProperties DEF AccountsInv, Remembering
  <2>3. \A k \in ToSet(keys) : others[k] < Capacity
    BY <1>4, <2>2, AccountsAssumption DEF AccountsInv, Remembering, ToSet
  <2> QED BY <1>4, <2>1, <2>3, AccountsAssumption
        DEF AccountsInv, Remembering, AccountsHold, SilenceIsBounded
<1> QED BY <1>1, <1>2, <1>3, <1>4, PTL DEF AccountsSpec

=============================================================================
