------------------------------ MODULE PageCache ------------------------------
(***************************************************************************)
(* The page cache: three Valkey scripts (look-up, store, purge), the       *)
(* middleware of the site that renders between a look-up and a store, and  *)
(* the API that purges by tag after each write.                            *)
(*                                                                         *)
(* What a tag stands for is abstract here: each has a version that writes  *)
(* raise, and a page remembers the version of each tag it read under.  The *)
(* module PublicSite says what is read and what is written.                *)
(*                                                                         *)
(* The clock is Valkey's.  One unit stands for whatever a lifetime is      *)
(* counted in; several steps share an instant, as they share a             *)
(* millisecond.                                                            *)
(***************************************************************************)
EXTENDS Integers, FiniteSets

CONSTANTS
  Keys,         \* cache keys: a path with its sorted parameters
  Tags,
  Requests,     \* readers the site answers at once
  Writers,      \* writes of the API whose purge has not been sent
  MaxAge,       \* the lifetime the route of each key declares, 0 for none
  Lifetimes,    \* PAGE_CACHE_TTL_SECONDS of the site's instances
  StampTtl,     \* how long a purge is remembered
  RenderLimit,  \* assumed: the longest from a look-up to its store
  Bodies,       \* what a page may say
  None,         \* no body
  MaxRequests, MaxWrites, MaxRestarts, MaxClears  \* bounds

ASSUME CacheAssumption ==
  /\ StampTtl \in Nat
  /\ RenderLimit \in Nat
  /\ RenderLimit <= StampTtl
  /\ Lifetimes \subseteq Nat
  /\ MaxAge \in [Keys -> Nat]
  /\ MaxRequests \in Nat /\ MaxWrites \in Nat
  /\ MaxRestarts \in Nat /\ MaxClears \in Nat

VARIABLES
  clock,
  valkey,     \* the four kinds of key the cache keeps
  saved,      \* the snapshot Valkey restarts from
  unsaved,    \* tags purged since that snapshot
  version,    \* what each tag stands for, counted in writes
  request,    \* the render behind each request
  outbox,     \* tags each writer still has to purge
  lost,       \* tags whose last purge never reached Valkey, or was forgotten
  clearing,   \* whether an operator's clear() is under way
  left        \* what remains of the bounds

site == <<version, outbox, lost>>
vars == <<clock, valkey, saved, unsaved, version, request, outbox, lost, clearing,
          left>>

-----------------------------------------------------------------------------
(* What Valkey holds.  A key that is absent is a record that says nothing. *)

Page == [tags: SUBSET Tags, seen: [Tags -> Nat], body: Bodies, until: Int]

NoPage    == [tags |-> {}, seen |-> [t \in Tags |-> 0], body |-> None, until |-> -1]
NoTagList == [tags |-> {}, until |-> -1]
NoMembers == [keys |-> {}, until |-> -1]
NoStamp   == [at |-> -1, until |-> -1]

Store == [page:    [Keys -> Page \cup {NoPage}],
          own:     [Keys -> [tags: SUBSET Tags, until: Int]],
          members: [Tags -> [keys: SUBSET Keys, until: Int]],
          stamp:   [Tags -> [at: Int, until: Int]]]

Empty == [page    |-> [k \in Keys |-> NoPage],
          own     |-> [k \in Keys |-> NoTagList],
          members |-> [t \in Tags |-> NoMembers],
          stamp   |-> [t \in Tags |-> NoStamp]]

Cached(s, k) == s.page[k] # NoPage

LiveAt(time, entry, absent) == IF entry.until < time THEN absent ELSE entry

(* Mistake: pages are stored without a lifetime. *)
NeverExpires(time, page) == page

LivePage(time, page) == LiveAt(time, page, NoPage)

(* A key past its time is absent to every script. *)
Expire(s, time) ==
  [page    |-> [k \in Keys |-> LivePage(time, s.page[k])],
   own     |-> [k \in Keys |-> LiveAt(time, s.own[k], NoTagList)],
   members |-> [t \in Tags |-> LiveAt(time, s.members[t], NoMembers)],
   stamp   |-> [t \in Tags |-> LiveAt(time, s.stamp[t], NoStamp)]]

(* SREM; a set with no member left is no key at all. *)
Without(set, keys) ==
  IF set.keys \subseteq keys THEN NoMembers ELSE [set EXCEPT !.keys = @ \ keys]

-----------------------------------------------------------------------------
(* The scripts that write, each of them atomic.                            *)

(* Mistake: a purge in the same instant is taken for an earlier one. *)
RefusedOnlyAfter(s, tags, from) == \E t \in tags : s.stamp[t].at > from

Refused(s, tags, from) == \E t \in tags : s.stamp[t].at >= from

SetTtl(life) == life + StampTtl

(* Mistake: a set that exists keeps the lifetime it had. *)
JoinedForOnce(set, k, until) ==
  [keys |-> set.keys \cup {k}, until |-> IF set.keys = {} THEN until ELSE set.until]

Joined(set, k, until) == [keys |-> set.keys \cup {k}, until |-> until]

Stored(s, k, tags, seen, body, life) ==
  LET before(t) == IF t \in s.own[k].tags THEN Without(s.members[t], {k})
                                          ELSE s.members[t]
      until == clock + SetTtl(life)
  IN [page    |-> [s.page EXCEPT ![k] = [tags |-> tags, seen |-> seen, body |-> body,
                                         until |-> clock + life]],
      own     |-> [s.own EXCEPT ![k] = [tags |-> tags, until |-> until]],
      members |-> [t \in Tags |->
                     IF t \in tags THEN Joined(before(t), k, until) ELSE before(t)],
      stamp   |-> s.stamp]

MembersOf(s, tags) == UNION {s.members[t].keys : t \in tags}

Stamped(s, t) == [at |-> clock, until |-> clock + StampTtl]

Purged(s, tags) ==
  LET gone == MembersOf(s, tags)
  IN [page    |-> [k \in Keys |-> IF k \in gone THEN NoPage ELSE s.page[k]],
      own     |-> [k \in Keys |-> IF k \in gone THEN NoTagList ELSE s.own[k]],
      members |-> [t \in Tags |->
                     IF t \in tags THEN NoMembers
                     ELSE Without(s.members[t], {k \in gone : t \in s.own[k].tags})],
      stamp   |-> [t \in Tags |->
                     IF t \in tags THEN Stamped(s, t) ELSE s.stamp[t]]]

-----------------------------------------------------------------------------
(* The site's middleware.                                                  *)

Idle == [rendering |-> FALSE]

Rendering(r) == request[r].rendering

Render == [rendering: {TRUE}, key: Keys, at: Nat, tags: SUBSET Tags,
           seen: [Tags -> Nat]]

(* Mistake: a render is dated before its look-up. *)
StartsEarly(k) == [rendering |-> TRUE, key |-> k, at |-> clock - 1, tags |-> {},
                   seen |-> [t \in Tags |-> 0]]

Starts(k) == [rendering |-> TRUE, key |-> k, at |-> clock, tags |-> {},
              seen |-> [t \in Tags |-> 0]]

(* GET: the look-up.  A hit is answered from the cache and changes nothing. *)
Miss(r, k) ==
  /\ ~Rendering(r)
  /\ left.requests > 0
  /\ ~Cached(valkey, k)
  /\ request' = [request EXCEPT ![r] = Starts(k)]
  /\ left' = [left EXCEPT !.requests = @ - 1]
  /\ UNCHANGED <<clock, valkey, saved, unsaved, site, clearing>>

(* A query of the render and the tags it collects. *)
Collected(q, tags) ==
  [q EXCEPT !.tags = @ \cup tags,
            !.seen = [t \in Tags |-> IF t \in tags \ q.tags THEN version[t] ELSE @[t]]]

Read(r, tags) ==
  /\ Rendering(r)
  /\ request' = [request EXCEPT ![r] = Collected(@, tags)]
  /\ UNCHANGED <<clock, valkey, saved, unsaved, site, clearing, left>>

(* The response may be kept, and the store script has its say. *)
Keep(r, life, body) ==
  LET q == request[r] IN
  /\ Rendering(r)
  /\ MaxAge[q.key] > 0
  /\ q.tags # {}
  /\ valkey' = IF Refused(valkey, q.tags, q.at) THEN valkey
               ELSE Stored(valkey, q.key, q.tags, q.seen, body, life)
  /\ request' = [request EXCEPT ![r] = Idle]
  /\ UNCHANGED <<clock, saved, unsaved, site, clearing, left>>

(* A redirect, a 404, a cookie, a response that varies, a route that is not *)
(* cached, nothing read, or a render that failed.                           *)
Drop(r) ==
  /\ Rendering(r)
  /\ request' = [request EXCEPT ![r] = Idle]
  /\ UNCHANGED <<clock, valkey, saved, unsaved, site, clearing, left>>

-----------------------------------------------------------------------------
(* The API: a write commits, then its handler purges.                      *)

Write(w, tags) ==
  /\ outbox[w] = {}
  /\ left.writes > 0
  /\ version' = [t \in Tags |-> IF t \in tags THEN version[t] + 1 ELSE version[t]]
  /\ outbox' = [outbox EXCEPT ![w] = tags]
  /\ left' = [left EXCEPT !.writes = @ - 1]
  /\ UNCHANGED <<clock, valkey, saved, unsaved, request, lost, clearing>>

Purge(w) ==
  /\ outbox[w] # {}
  /\ valkey' = Purged(valkey, outbox[w])
  /\ unsaved' = unsaved \cup outbox[w]
  /\ outbox' = [outbox EXCEPT ![w] = {}]
  /\ lost' = lost \ outbox[w]
  /\ UNCHANGED <<clock, saved, version, request, clearing, left>>

(* The process dies before the purge, or Valkey does not answer: reported, *)
(* never tried again.                                                      *)
Lose(w) ==
  /\ outbox[w] # {}
  /\ outbox' = [outbox EXCEPT ![w] = {}]
  /\ lost' = lost \cup outbox[w]
  /\ UNCHANGED <<clock, valkey, saved, unsaved, version, request, clearing, left>>

-----------------------------------------------------------------------------
(* Valkey itself: time, its snapshots, a crash; and an operator's clear(). *)

(* Something is still to expire. *)
Waiting ==
  \/ \E k \in Keys : valkey.page[k].until >= clock \/ valkey.own[k].until >= clock
  \/ \E t \in Tags : valkey.members[t].until >= clock \/ valkey.stamp[t].until >= clock

(* A render ends within its limit, so time does not pass it by. *)
Tick ==
  /\ Waiting \/ \E r \in Requests : Rendering(r)
  /\ \A r \in Requests : Rendering(r) => clock < request[r].at + RenderLimit
  /\ clock' = clock + 1
  /\ valkey' = Expire(valkey, clock')
  /\ UNCHANGED <<saved, unsaved, site, request, clearing, left>>

Save ==
  /\ left.restarts > 0
  /\ saved' = valkey
  /\ unsaved' = {}
  /\ UNCHANGED <<clock, valkey, site, request, clearing, left>>

Restart ==
  /\ left.restarts > 0
  /\ valkey' = Expire(saved, clock)
  /\ lost' = lost \cup unsaved
  /\ left' = [left EXCEPT !.restarts = @ - 1]
  /\ UNCHANGED <<clock, saved, unsaved, version, request, outbox, clearing>>

BeginClear ==
  /\ left.clears > 0
  /\ ~clearing
  /\ clearing' = TRUE
  /\ left' = [left EXCEPT !.clears = @ - 1]
  /\ UNCHANGED <<clock, valkey, saved, unsaved, site, request>>

(* SCAN returns the keys in no order, and other scripts run between two    *)
(* batches; a batch of several keys is these steps with nothing between.   *)
Unlink ==
  /\ clearing
  /\ \/ \E k \in Keys : /\ Cached(valkey, k)
                        /\ valkey' = [valkey EXCEPT !.page[k] = NoPage]
     \/ \E k \in Keys : /\ valkey.own[k] # NoTagList
                        /\ valkey' = [valkey EXCEPT !.own[k] = NoTagList]
     \/ \E t \in Tags : /\ valkey.members[t] # NoMembers
                        /\ valkey' = [valkey EXCEPT !.members[t] = NoMembers]
     \/ \E t \in Tags : /\ valkey.stamp[t] # NoStamp
                        /\ valkey' = [valkey EXCEPT !.stamp[t] = NoStamp]
  /\ UNCHANGED <<clock, saved, unsaved, site, request, clearing, left>>

(* The scan is over, or its caller is gone. *)
EndClear ==
  /\ clearing
  /\ clearing' = FALSE
  /\ UNCHANGED <<clock, valkey, saved, unsaved, site, request, left>>

-----------------------------------------------------------------------------
(* The specification.                                                      *)

CacheInit ==
  /\ clock = 0
  /\ valkey = Empty
  /\ saved = Empty
  /\ unsaved = {}
  /\ version = [t \in Tags |-> 0]
  /\ request = [r \in Requests |-> Idle]
  /\ outbox = [w \in Writers |-> {}]
  /\ lost = {}
  /\ clearing = FALSE
  /\ left = [requests |-> MaxRequests, writes |-> MaxWrites,
             restarts |-> MaxRestarts, clears |-> MaxClears]

(* Every request is answered and every purge has had its chance. *)
Quiet ==
  /\ \A r \in Requests : ~Rendering(r)
  /\ \A w \in Writers : outbox[w] = {}
  /\ left.requests = 0
  /\ ~Waiting
  /\ UNCHANGED vars

Valkey == Tick \/ Save \/ Restart \/ BeginClear \/ Unlink \/ EndClear

Ends(r) == Drop(r) \/ \E life \in Lifetimes, body \in Bodies : Keep(r, life, body)

CacheNext ==
  \/ \E r \in Requests, k \in Keys : Miss(r, k)
  \/ \E r \in Requests, tags \in (SUBSET Tags) \ {{}} : Read(r, tags)
  \/ \E r \in Requests : Ends(r)
  \/ \E w \in Writers, tags \in (SUBSET Tags) \ {{}} : Write(w, tags)
  \/ \E w \in Writers : Purge(w) \/ Lose(w)
  \/ Valkey
  \/ Quiet

CacheSpec == CacheInit /\ [][CacheNext]_vars

FairCacheSpec ==
  CacheSpec /\ WF_vars(Tick) /\ \A r \in Requests : WF_vars(Ends(r))

-----------------------------------------------------------------------------
(* Properties.                                                             *)

(* Every variable keeps its type. *)
CacheTypeOK ==
  /\ clock \in Nat
  /\ valkey \in Store /\ saved \in Store
  /\ unsaved \in SUBSET Tags
  /\ version \in [Tags -> Nat]
  /\ request \in [Requests -> Render \cup {Idle}]
  /\ outbox \in [Writers -> SUBSET Tags]
  /\ lost \in SUBSET Tags
  /\ clearing \in BOOLEAN
  /\ left \in [requests: Nat, writes: Nat, restarts: Nat, clears: Nat]

(* A purge finds every page it concerns: a cached page is a member of the  *)
(* set of each of its tags and its own list names them, whatever expired,  *)
(* was rendered again, purged or restored (store.ts, "Tag sets outlive the *)
(* pages in them, so a purge still finds the members").                    *)
Findable ==
  \A k \in Keys : Cached(valkey, k) =>
    /\ valkey.own[k].tags = valkey.page[k].tags
    /\ \A t \in valkey.page[k].tags : k \in valkey.members[t].keys

(* Tags with a purge that is still to come, or that never will. *)
Due == lost \cup UNION {outbox[w] : w \in Writers}

(* A cached page shows what its tags stand for, or a purge of one that     *)
(* changed is on its way, or was lost: no interleaving of renders, writes, *)
(* purges and expiry leaves a stale page that nobody will remove           *)
(* (ARCHITECTURE.md on the publish that lands between a render and its     *)
(* store).                                                                 *)
StaleOnlyIfDue ==
  \A k \in Keys : \A t \in valkey.page[k].tags :
    valkey.page[k].seen[t] # version[t] => t \in Due

Stale(k) == \E t \in valkey.page[k].tags : valkey.page[k].seen[t] # version[t]

(* Whatever is lost, forgotten by a restart or cut off by a clear, no page *)
(* stays stale: its lifetime ends it (store.ts, "the backstop").           *)
StalenessEnds == \A k \in Keys : Stale(k) ~> ~Stale(k)
=============================================================================
