----------------------------- MODULE RateLimit ------------------------------
(***************************************************************************)
(* The quotas: who a request is counted as, the counters that several      *)
(* instances share in Valkey, what each instance does when it cannot reach *)
(* them, and what a restart of Valkey forgets.                             *)
(*                                                                         *)
(* Valkey, the proxies and the limiter's plugin are external; what the     *)
(* plugin does with the store's answers is modelled from how it is         *)
(* configured.                                                             *)
(***************************************************************************)
EXTENDS Naturals, Sequences

CONSTANTS
  Instances,
  Visitors,       \* addresses of clients, one per rate-limit prefix
  Strangers,      \* addresses that are only claimed
  Proxies,        \* the declared ones: TRUSTED_PROXIES
  Sources,        \* CLIENT_IP_SOURCE: of "socket", "forwarded" and "header"
  Quota,            \* the quota of a route: what a window lets through
  Window,         \* its length
  MaxForgotten    \* bound: how many sign-ins of a client restarts forget in a row

Garbage == "garbage"     \* what is no address

ASSUME RateLimitAssumption ==
  /\ Quota \in Nat \ {0} /\ Window \in Nat \ {0} /\ MaxForgotten \in Nat
  /\ Proxies \cap (Visitors \cup Strangers) = {}
  /\ Garbage \notin Visitors \cup Strangers \cup Proxies

VARIABLES
  source,         \* the mode this deployment is configured for
  valkey,         \* whether the store answers
  counters,       \* route and client -> [n, ttl], or n = 0 when there is no key
  snapshot,       \* route and client -> what its counter says in the file Valkey saved last
  admitted,       \* the sign-ins of a client let through since its counter came to be,
                  \* or the first of those that restarts forgot before it
  forgotten,      \* the sign-ins counted meanwhile that restarts forgot
  health,         \* per instance: StoreHealth.healthy
  last            \* the last request that was counted: from whom, and as whom

limitVars == <<source, valkey, counters, snapshot, admitted, forgotten, health, last>>

Routes == {"login", "other"}
Addresses == Visitors \cup Strangers \cup Proxies

\* TRUSTED_PROXIES may only be set where it is read.
Declared == IF source = "socket" THEN {} ELSE Proxies

NotCounted == [client |-> Garbage, key |-> Garbage]

-----------------------------------------------------------------------------
(* Who the client is.                                                      *)

\* Mutant: the first address named.
WalkFromTheLeft(peer, chain) == Head(chain \o <<peer>>)

\* Fastify's walk of X-Forwarded-For, from the peer leftwards to the first
\* address that is no declared proxy; the far end when all are.
Walk(peer, chain) ==
  LET path == chain \o <<peer>>
      far  == {i \in 1..Len(path) : path[i] \notin Declared}
  IN IF far = {} THEN Head(path) ELSE path[CHOOSE i \in far : \A j \in far : j <= i]

\* clientIp: an address, or Garbage for a request that is refused.
Resolve(peer, chain) ==
  LET named == Walk(peer, chain) IN
  IF peer \notin Declared THEN peer
  ELSE IF source = "forwarded"
       THEN IF named \in Addresses \ Declared THEN named ELSE Garbage
  ELSE IF Len(chain) = 1 /\ chain[1] \in Addresses THEN chain[1] ELSE Garbage

-----------------------------------------------------------------------------
(* The counters.                                                           *)

\* Mutant: the window starts again at each request.
CountedSliding(counter) ==
  [n |-> IF counter.n > Quota THEN counter.n ELSE counter.n + 1, ttl |-> Window]

\* INCR_LUA, one script: the counter and its expiry move together.  The bound
\* on n, one past the quota, hides nothing: beyond it every answer is the same.
Counted(counter) ==
  IF counter.n = 0 THEN [n |-> 1, ttl |-> Window]
  ELSE [counter EXCEPT !.n = IF @ > Quota THEN @ ELSE @ + 1]

\* Mutant: every route is kept open.
SkipAlways(route) == route \in Routes

SkipOnError(route) == route # "login"

\* What becomes of the command: carried out and answered; carried out, with the
\* answer later than commandTimeout; or not carried out.
Fates == IF valkey THEN {"answered", "late", "failed"} ELSE {"failed"}

Hit(i, route, client, fate) ==
  LET key     == <<route, client>>
      counter == IF fate = "failed" THEN counters[key] ELSE Counted(counters[key])
      passes  == IF fate = "answered" THEN counter.n <= Quota ELSE SkipOnError(route)
  IN
  /\ counters' = [counters EXCEPT ![key] = counter]
  /\ admitted' = [admitted EXCEPT ![client] =
                    IF route = "login" /\ passes /\ @ <= Quota + MaxForgotten THEN @ + 1 ELSE @]
  /\ health' = [health EXCEPT ![i] = fate = "answered"]

\* A visitor's request with what it claims of its own address, straight to the
\* API or via declared proxies, each of which appends the address it was reached
\* from; the one header of its own mode, a proxy overwrites.
Request(i, route, visitor, via, claims) ==
  LET peer  == IF via = <<>> THEN visitor ELSE via[Len(via)]
      chain == IF via = <<>> THEN claims
               ELSE IF source = "header" THEN <<visitor>>
               ELSE claims \o <<visitor>> \o SubSeq(via, 1, Len(via) - 1)
      key   == Resolve(peer, chain)
  IN
  /\ IF key = Garbage
     THEN last' = NotCounted /\ UNCHANGED <<counters, admitted, health>>
     ELSE /\ last' = [client |-> visitor, key |-> key]
          /\ \E fate \in Fates : Hit(i, route, key, fate)
  /\ UNCHANGED <<source, valkey, snapshot, forgotten>>

\* A proxy that names no client: nothing, something that is no address, or a
\* proxy.
Misconfigured(peer, chain) ==
  /\ peer \in Declared
  /\ last' = [client |-> peer, key |-> Resolve(peer, chain)]
  /\ UNCHANGED <<source, valkey, counters, snapshot, admitted, forgotten, health>>

RunsOut(key)  == counters[key].n > 0 /\ counters[key].ttl <= 1
SignIns(client) == <<"login", client>>

\* The window passes, a unit at a time.  The file keeps the moment a key expires at.
PassTime ==
  /\ counters' = [key \in DOMAIN counters |->
       IF counters[key].ttl <= 1 THEN [n |-> 0, ttl |-> 0]
       ELSE [counters[key] EXCEPT !.ttl = @ - 1]]
  /\ snapshot' = [key \in DOMAIN counters |-> IF RunsOut(key) THEN 0 ELSE snapshot[key]]
  /\ admitted' = [client \in Addresses |-> IF RunsOut(SignIns(client)) THEN 0 ELSE admitted[client]]
  /\ forgotten' = [client \in Addresses |-> IF RunsOut(SignIns(client)) THEN 0 ELSE forgotten[client]]
  /\ UNCHANGED <<source, valkey, health, last>>

\* It cannot be reached, or can be again, and has gone on running.
StoreComesOrGoes ==
  /\ valkey' = ~valkey
  /\ UNCHANGED <<source, counters, snapshot, admitted, forgotten, health, last>>

\* --save 60 1
StoreSaves ==
  /\ snapshot' = [key \in DOMAIN counters |-> counters[key].n]
  /\ UNCHANGED <<source, valkey, counters, admitted, forgotten, health, last>>

Unsaved(client) == counters[SignIns(client)].n - snapshot[SignIns(client)]

\* --appendonly no: what was counted since the file was written is gone, and so is
\* a counter the file does not know.
StoreRestarts ==
  /\ \A client \in Addresses : forgotten[client] + Unsaved(client) <= MaxForgotten
  /\ valkey' = TRUE
  /\ counters' = [key \in DOMAIN counters |->
       IF snapshot[key] = 0 THEN [n |-> 0, ttl |-> 0]
       ELSE [counters[key] EXCEPT !.n = snapshot[key]]]
  /\ forgotten' = [client \in Addresses |-> forgotten[client] + Unsaved(client)]
  /\ UNCHANGED <<source, snapshot, admitted, health, last>>

\* The client's error event.
LimiterError(i) ==
  /\ ~valkey
  /\ health' = [health EXCEPT ![i] = FALSE]
  /\ UNCHANGED <<source, valkey, counters, snapshot, admitted, forgotten, last>>

LimitInit ==
  /\ source \in Sources
  /\ valkey = TRUE
  /\ counters = [key \in Routes \X Addresses |-> [n |-> 0, ttl |-> 0]]
  /\ snapshot = [key \in Routes \X Addresses |-> 0]
  /\ admitted = [client \in Addresses |-> 0] /\ forgotten = [client \in Addresses |-> 0]
  /\ health = [i \in Instances |-> TRUE]
  /\ last = NotCounted

Claims == {<<>>} \cup {<<a>> : a \in Addresses \cup {Garbage}}
\* In socket mode there are no proxies.
Paths == IF Declared = {} THEN {<<>>} ELSE {<<>>} \cup {<<p>> : p \in Proxies} \cup {<<p, r>> : p \in Proxies, r \in Proxies}

LimitNext ==
  \/ \E i \in Instances, route \in Routes, visitor \in Visitors, via \in Paths, claims \in Claims :
       Request(i, route, visitor, via, claims)
  \/ \E peer \in Proxies, chain \in {<<>>, <<Garbage>>} \cup {<<p>> : p \in Proxies} :
       Misconfigured(peer, chain)
  \/ PassTime \/ StoreComesOrGoes \/ StoreSaves \/ StoreRestarts
  \/ \E i \in Instances : LimiterError(i)

-----------------------------------------------------------------------------
\* However many instances count, and though the store cannot be reached, is late or
\* restarts meanwhile, no window lets more sign-ins of one client through than the
\* quota and what restarts forgot of it: those counted after the file was written that
\* the store restarted from (valkey-store.ts; docker-compose.yml, --save 60 1).
LoginsWithinQuota == \A v \in Visitors : admitted[v] <= Quota + forgotten[v]

\* A client is counted as itself, whatever it claims and whichever proxies it
\* came through.
CountedAsItself == last.key \in Visitors \cup Strangers => last.key = last.client

\* A declared proxy is never itself taken for a client where the chain is to name
\* one, which would put everybody behind it into one quota.
ProxiesAreNoClients == source = "forwarded" => last.key \notin Proxies

\* A client that has used its quota up gets it back, however often it asks.
QuotaReturns ==
  \A key \in Routes \X Visitors : counters[key].n > Quota ~> counters[key].n = 0

\* A request uses up the quota of the client it came from and of nobody else
\* (client-ip.ts).
ClientsHold == CountedAsItself /\ ProxiesAreNoClients
=============================================================================
