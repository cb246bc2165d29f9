-------------------------- MODULE PageCacheProofs --------------------------
(***************************************************************************)
(* What holds of PageCache for every set of keys, tags, requests and       *)
(* writers, and of PublicSite for every database that is run over it.      *)
(*                                                                         *)
(* Of the cache, the argument follows a tag that has changed since it was  *)
(* read: until its purge runs it is due, from then on its stamp bars the   *)
(* render that read it for as long as a render may last, and the purge     *)
(* finds every page that was stored before.                                *)
(*                                                                         *)
(* Of the site, it follows what a render has in hand: each query adds what *)
(* the database says then and the tags that name it; a write that changes  *)
(* any of it purges one of those tags, or the tag of the list it is a page *)
(* of; so what is in hand, and then in the cache, is right or excused.     *)
(***************************************************************************)
EXTENDS PublicSite, TLAPS, NaturalsInduction, SequenceTheorems, FiniteSetTheorems,
        WellFoundedInduction

-----------------------------------------------------------------------------
(* The inductive invariant.                                                *)

(* The lifetimes in use differ by no more than a set outlives its pages.   *)
Uniform == \A a, b \in Lifetimes : a <= b + StampTtl

(* A purge of a tag finds the pages that carry it, now and at every later  *)
(* moment: what leads from the tag to the page lives as long as the page.  *)
Sound(s) ==
  \A k \in Keys : Cached(s, k) =>
    /\ s.own[k].tags = s.page[k].tags
    /\ s.own[k].until >= s.page[k].until
    /\ \A t \in s.page[k].tags :
         k \in s.members[t].keys /\ s.members[t].until >= s.page[k].until

(* No page outlives a set that is joined now. *)
Bounded(s) ==
  \A k \in Keys : \A b \in Lifetimes : s.page[k].until <= clock + b + StampTtl

(* A render is no older than its limit. *)
Timely ==
  \A r \in Requests : Rendering(r) =>
    request[r].at <= clock /\ clock <= request[r].at + RenderLimit

Fresh(s, excused) ==
  \A k \in Keys : \A t \in s.page[k].tags :
    s.page[k].seen[t] # version[t] => t \in excused

(* The stamp of t refuses the render q for as long as it may last. *)
Barred(s, q, t) == s.stamp[t].at >= q.at /\ s.stamp[t].until >= q.at + StampTtl

Watched(s, excused) ==
  \A r \in Requests : Rendering(r) =>
    \A t \in request[r].tags :
      request[r].seen[t] # version[t] => t \in excused \/ Barred(s, request[r], t)

Unclear == left.clears = 0 /\ ~clearing

CacheInv ==
  /\ CacheTypeOK
  /\ Unclear
  /\ Timely
  /\ Sound(valkey) /\ Sound(saved)
  /\ Bounded(valkey) /\ Bounded(saved)
  /\ Fresh(valkey, Due) /\ Fresh(saved, Due \cup unsaved)
  /\ Watched(valkey, Due) /\ Watched(saved, Due \cup unsaved)

-----------------------------------------------------------------------------
(* What the scripts make of a store, well-typed and whole.                 *)

LEMMA PageFields ==
  ASSUME NEW p \in Page \cup {NoPage}
  PROVE  p.tags \in SUBSET Tags /\ p.seen \in [Tags -> Nat] /\ p.until \in Int
BY DEF Page, NoPage

LEMMA EntryFields ==
  ASSUME NEW s \in Store
  PROVE  /\ \A k \in Keys : /\ s.page[k] \in Page \cup {NoPage}
                            /\ s.page[k].tags \in SUBSET Tags
                            /\ s.page[k].until \in Int
                            /\ s.own[k] \in [tags: SUBSET Tags, until: Int]
         /\ \A t \in Tags : /\ s.members[t] \in [keys: SUBSET Keys, until: Int]
                            /\ s.stamp[t] \in [at: Int, until: Int]
<1>1. \A k \in Keys : s.page[k] \in Page \cup {NoPage}
  BY DEF Store
<1>2. \A k \in Keys : s.page[k].tags \in SUBSET Tags /\ s.page[k].until \in Int
  BY <1>1, PageFields
<1> QED
  BY <1>1, <1>2 DEF Store

LEMMA WithoutTyped ==
  ASSUME NEW set \in [keys: SUBSET Keys, until: Int], NEW keys
  PROVE  /\ Without(set, keys) \in [keys: SUBSET Keys, until: Int]
         /\ Without(set, keys).keys = set.keys \ keys
         /\ \A k \in set.keys \ keys : Without(set, keys).until = set.until
BY DEF Without, NoMembers

LEMMA JoinedFields ==
  ASSUME NEW set, NEW k, NEW until
  PROVE  /\ Joined(set, k, until).keys = set.keys \cup {k}
         /\ Joined(set, k, until).until = until
BY DEF Joined

LEMMA ExpireTyped ==
  ASSUME NEW s \in Store, NEW time \in Nat
  PROVE  Expire(s, time) \in Store
<1>1. \A k \in Keys : LivePage(time, s.page[k]) \in Page \cup {NoPage}
  BY EntryFields DEF LivePage, LiveAt
<1>2. \A k \in Keys : LiveAt(time, s.own[k], NoTagList) \in [tags: SUBSET Tags, until: Int]
  BY EntryFields DEF LiveAt, NoTagList
<1>3. \A t \in Tags : LiveAt(time, s.members[t], NoMembers) \in [keys: SUBSET Keys, until: Int]
  BY EntryFields DEF LiveAt, NoMembers
<1>4. \A t \in Tags : LiveAt(time, s.stamp[t], NoStamp) \in [at: Int, until: Int]
  BY EntryFields DEF LiveAt, NoStamp
<1> QED
  BY <1>1, <1>2, <1>3, <1>4 DEF Expire, Store

LEMMA StoredTyped ==
  ASSUME clock \in Nat, StampTtl \in Nat,
         NEW s \in Store, NEW k \in Keys, NEW tags \in SUBSET Tags,
         NEW seen \in [Tags -> Nat], NEW body \in Bodies, NEW life \in Nat
  PROVE  Stored(s, k, tags, seen, body, life) \in Store
<1> DEFINE until == clock + SetTtl(life)
           before(t) == IF t \in s.own[k].tags THEN Without(s.members[t], {k})
                                               ELSE s.members[t]
           page == [tags |-> tags, seen |-> seen, body |-> body, until |-> clock + life]
<1>1. until \in Int /\ clock + life \in Int
  BY DEF SetTtl
<1>2. \A t \in Tags : before(t) \in [keys: SUBSET Keys, until: Int]
  BY EntryFields, WithoutTyped
<1>3. \A t \in Tags : Joined(before(t), k, until) \in [keys: SUBSET Keys, until: Int]
  BY <1>1, <1>2 DEF Joined
<1>4. page \in Page
  BY <1>1 DEF Page
<1>5. [s.page EXCEPT ![k] = page] \in [Keys -> Page \cup {NoPage}]
  BY <1>4 DEF Store
<1>6. [s.own EXCEPT ![k] = [tags |-> tags, until |-> until]]
        \in [Keys -> [tags: SUBSET Tags, until: Int]]
  BY <1>1 DEF Store
<1>7. [t \in Tags |-> IF t \in tags THEN Joined(before(t), k, until) ELSE before(t)]
        \in [Tags -> [keys: SUBSET Keys, until: Int]]
  BY <1>2, <1>3
<1>8. s.stamp \in [Tags -> [at: Int, until: Int]]
  BY DEF Store
<1> HIDE DEF page, before, until
<1>9. [page |-> [s.page EXCEPT ![k] = page],
       own |-> [s.own EXCEPT ![k] = [tags |-> tags, until |-> until]],
       members |-> [t \in Tags |-> IF t \in tags THEN Joined(before(t), k, until) ELSE before(t)],
       stamp |-> s.stamp] \in Store
  BY <1>5, <1>6, <1>7, <1>8 DEF Store
<1> QED
  BY <1>9 DEF Stored, page, before, until

LEMMA PurgedTyped ==
  ASSUME clock \in Nat, StampTtl \in Nat, NEW s \in Store, NEW tags \in SUBSET Tags
  PROVE  Purged(s, tags) \in Store
<1> DEFINE gone == MembersOf(s, tags)
<1>1. [k \in Keys |-> IF k \in gone THEN NoPage ELSE s.page[k]]
        \in [Keys -> Page \cup {NoPage}]
  BY EntryFields
<1>2. [k \in Keys |-> IF k \in gone THEN NoTagList ELSE s.own[k]]
        \in [Keys -> [tags: SUBSET Tags, until: Int]]
  BY EntryFields DEF NoTagList
<1>3. \A t \in Tags : Without(s.members[t], {k \in gone : t \in s.own[k].tags})
                        \in [keys: SUBSET Keys, until: Int]
  BY EntryFields, WithoutTyped
<1>4. [t \in Tags |-> IF t \in tags THEN NoMembers
                      ELSE Without(s.members[t], {k \in gone : t \in s.own[k].tags})]
        \in [Tags -> [keys: SUBSET Keys, until: Int]]
  <2>1. NoMembers \in [keys: SUBSET Keys, until: Int]
    BY DEF NoMembers
  <2> HIDE DEF gone
  <2> QED
    BY <1>3, <2>1
<1>5. [t \in Tags |-> IF t \in tags THEN Stamped(s, t) ELSE s.stamp[t]]
        \in [Tags -> [at: Int, until: Int]]
  BY EntryFields DEF Stamped
<1> QED
  BY <1>1, <1>2, <1>4, <1>5 DEF Purged, Store

(* What expires goes together: a page never outlives the way to it. *)
LEMMA ExpireSound ==
  ASSUME NEW s \in Store, NEW time \in Nat, Sound(s)
  PROVE  Sound(Expire(s, time))
<1> DEFINE e == Expire(s, time)
<1> SUFFICES ASSUME NEW k \in Keys, Cached(e, k)
             PROVE  /\ e.own[k].tags = e.page[k].tags
                    /\ e.own[k].until >= e.page[k].until
                    /\ \A t \in e.page[k].tags : /\ k \in e.members[t].keys
                                                 /\ e.members[t].until >= e.page[k].until
  BY DEF Sound
<1>1. e.page[k] = s.page[k] /\ s.page[k] # NoPage /\ ~(s.page[k].until < time)
  BY DEF Expire, LivePage, LiveAt, Cached
<1>2. /\ s.own[k].tags = s.page[k].tags
      /\ s.own[k].until >= s.page[k].until
      /\ \A t \in s.page[k].tags :
           k \in s.members[t].keys /\ s.members[t].until >= s.page[k].until
  BY <1>1 DEF Sound, Cached
<1>3. s.page[k].until \in Int /\ s.own[k].until \in Int /\ s.page[k].tags \subseteq Tags
        /\ \A t \in Tags : s.members[t].until \in Int
  BY EntryFields
<1>4. e.own[k] = s.own[k]
  BY <1>1, <1>2, <1>3 DEF Expire, LiveAt
<1>5. \A t \in s.page[k].tags : e.members[t] = s.members[t]
  BY <1>1, <1>2, <1>3 DEF Expire, LiveAt
<1> HIDE DEF e
<1> QED
  BY <1>1, <1>2, <1>4, <1>5

LEMMA StoredSound ==
  ASSUME clock \in Nat, StampTtl \in Nat, Lifetimes \subseteq Nat,
         NEW s \in Store, NEW key \in Keys, NEW tags \in SUBSET Tags,
         NEW seen \in [Tags -> Nat], NEW body \in Bodies, NEW life \in Lifetimes,
         Sound(s), Bounded(s)
  PROVE  Sound(Stored(s, key, tags, seen, body, life))
<1> DEFINE n == Stored(s, key, tags, seen, body, life)
           until == clock + SetTtl(life)
           before(t) == IF t \in s.own[key].tags THEN Without(s.members[t], {key})
                                                 ELSE s.members[t]
<1> SUFFICES ASSUME NEW k \in Keys, Cached(n, k)
             PROVE  /\ n.own[k].tags = n.page[k].tags
                    /\ n.own[k].until >= n.page[k].until
                    /\ \A t \in n.page[k].tags : /\ k \in n.members[t].keys
                                                 /\ n.members[t].until >= n.page[k].until
  BY DEF Sound
<1>1. \A t \in Tags :
        n.members[t] = IF t \in tags THEN Joined(before(t), key, until) ELSE before(t)
  BY DEF Stored
<1>2. \A t \in tags : n.members[t].keys = before(t).keys \cup {key}
                      /\ n.members[t].until = until
  <2> HIDE DEF n, until, before
  <2> SUFFICES ASSUME NEW t \in tags
               PROVE  n.members[t].keys = before(t).keys \cup {key}
                      /\ n.members[t].until = until
    OBVIOUS
  <2>1. n.members[t] = Joined(before(t), key, until)
    BY <1>1
  <2> QED
    BY <2>1, JoinedFields
<1>3. CASE k = key
  <2>1. n.page[k].tags = tags /\ n.page[k].until = clock + life
          /\ n.own[k].tags = tags /\ n.own[k].until = until
    BY <1>3 DEF Stored, Store
  <2>2. until >= clock + life
    BY DEF SetTtl
  <2> HIDE DEF n, until, before
  <2> QED
    BY <1>2, <1>3, <2>1, <2>2
<1>4. CASE k # key
  <2>1. n.page[k] = s.page[k] /\ n.own[k] = s.own[k]
    BY <1>4 DEF Stored, Store
  <2>2. /\ s.own[k].tags = s.page[k].tags
        /\ s.own[k].until >= s.page[k].until
        /\ \A t \in s.page[k].tags :
             k \in s.members[t].keys /\ s.members[t].until >= s.page[k].until
    BY <2>1 DEF Sound, Cached
  <2>3. s.page[k].until \in Int /\ s.page[k].tags \subseteq Tags
    BY EntryFields
  <2>4. until >= s.page[k].until
    <3>1. s.page[k].until <= clock + life + StampTtl
      BY DEF Bounded
    <3>2. life \in Nat /\ until = clock + (life + StampTtl)
      BY DEF SetTtl
    <3> HIDE DEF until
    <3> QED
      BY <2>3, <3>1, <3>2
  <2>5. \A t \in s.page[k].tags : k \in before(t).keys /\ before(t).until = s.members[t].until
    BY <1>4, <2>2, <2>3, EntryFields, WithoutTyped
  <2> HIDE DEF n, until, before
  <2>6. \A t \in s.page[k].tags : k \in n.members[t].keys /\ n.members[t].until >= s.page[k].until
    BY <1>1, <1>2, <2>2, <2>3, <2>4, <2>5
  <2> QED
    BY <2>1, <2>2, <2>6
<1> QED
  BY <1>3, <1>4

(* A page that a purge leaves carries none of its tags and keeps its sets. *)
LEMMA PurgedSound ==
  ASSUME NEW s \in Store, NEW tags \in SUBSET Tags, Sound(s)
  PROVE  /\ Sound(Purged(s, tags))
         /\ \A k \in Keys : Cached(Purged(s, tags), k) =>
              Purged(s, tags).page[k] = s.page[k] /\ s.page[k].tags \cap tags = {}
<1> DEFINE n == Purged(s, tags)
           gone == MembersOf(s, tags)
<1>1. \A k \in Keys : Cached(n, k) => /\ k \notin gone
                                      /\ n.page[k] = s.page[k] /\ Cached(s, k)
                                      /\ n.own[k] = s.own[k]
  BY DEF Purged, Cached
<1>2. ASSUME NEW k \in Keys, Cached(n, k)
      PROVE  s.page[k].tags \cap tags = {}
  BY <1>1, <1>2 DEF Sound, MembersOf
<1>3. ASSUME NEW k \in Keys, Cached(n, k), NEW t \in s.page[k].tags
      PROVE  k \in n.members[t].keys /\ n.members[t].until >= s.page[k].until
  <2>1. t \in Tags /\ t \notin tags /\ s.members[t] \in [keys: SUBSET Keys, until: Int]
    BY <1>2, <1>3, EntryFields
  <2>2. n.members[t] = Without(s.members[t], {j \in gone : t \in s.own[j].tags})
    BY <2>1 DEF Purged
  <2>3. k \in s.members[t].keys /\ s.members[t].until >= s.page[k].until
    BY <1>1, <1>3 DEF Sound
  <2>4. k \in s.members[t].keys \ {j \in gone : t \in s.own[j].tags}
    BY <1>1, <1>3, <2>3
  <2> HIDE DEF n, gone
  <2> QED
    BY <2>1, <2>2, <2>3, <2>4, WithoutTyped
<1>4. Sound(n)
  <2> SUFFICES ASSUME NEW k \in Keys, Cached(n, k)
               PROVE  /\ n.own[k].tags = n.page[k].tags
                      /\ n.own[k].until >= n.page[k].until
                      /\ \A t \in n.page[k].tags : /\ k \in n.members[t].keys
                                                   /\ n.members[t].until >= n.page[k].until
    BY DEF Sound
  <2>1. n.page[k] = s.page[k] /\ Cached(s, k) /\ n.own[k] = s.own[k]
    BY <1>1
  <2> HIDE DEF n
  <2> QED
    BY <1>3, <2>1 DEF Sound
<1> QED
  BY <1>1, <1>2, <1>4

-----------------------------------------------------------------------------
(* Types.                                                                  *)

LEMMA RenderFields ==
  ASSUME CacheTypeOK, NEW r \in Requests, Rendering(r)
  PROVE  request[r] \in Render
<1>1. request[r] \in Render \/ request[r] = Idle
  BY DEF CacheTypeOK
<1>2. ASSUME request[r] = Idle
      PROVE  FALSE
  BY <1>2 DEF Rendering, Idle
<1> QED
  BY <1>1, <1>2

LEMMA EmptyTyped == Empty \in Store
<1>1. [k \in Keys |-> NoPage] \in [Keys -> Page \cup {NoPage}]
  OBVIOUS
<1>2. [k \in Keys |-> NoTagList] \in [Keys -> [tags: SUBSET Tags, until: Int]]
  BY DEF NoTagList
<1>3. [t \in Tags |-> NoMembers] \in [Tags -> [keys: SUBSET Keys, until: Int]]
  BY DEF NoMembers
<1>4. [t \in Tags |-> NoStamp] \in [Tags -> [at: Int, until: Int]]
  BY DEF NoStamp
<1> QED
  BY <1>1, <1>2, <1>3, <1>4 DEF Empty, Store

(* An empty cache, an idle site and an idle API are well typed. *)
THEOREM InitTyped == CacheInit => CacheTypeOK
<1> SUFFICES ASSUME CacheInit PROVE CacheTypeOK
  OBVIOUS
<1>1. request \in [Requests -> Render \cup {Idle}]
  BY DEF CacheInit
<1>2. left \in [requests: Nat, writes: Nat, restarts: Nat, clears: Nat]
  BY CacheAssumption DEF CacheAssumption, CacheInit
<1> QED
  BY <1>1, <1>2, EmptyTyped DEF CacheInit, CacheTypeOK

LEMMA UnlinkTyped ==
  ASSUME NEW s \in Store
  PROVE  /\ \A k \in Keys : [s EXCEPT !.page[k] = NoPage] \in Store
         /\ \A k \in Keys : [s EXCEPT !.own[k] = NoTagList] \in Store
         /\ \A t \in Tags : [s EXCEPT !.members[t] = NoMembers] \in Store
         /\ \A t \in Tags : [s EXCEPT !.stamp[t] = NoStamp] \in Store
<1>1. ASSUME NEW k \in Keys
      PROVE  [s EXCEPT !.page[k] = NoPage] \in Store
  BY DEF Store
<1>2. ASSUME NEW k \in Keys
      PROVE  [s EXCEPT !.own[k] = NoTagList] \in Store
  <2>1. NoTagList \in [tags: SUBSET Tags, until: Int]
    BY DEF NoTagList
  <2> QED
    BY <2>1 DEF Store
<1>3. ASSUME NEW t \in Tags
      PROVE  [s EXCEPT !.members[t] = NoMembers] \in Store
  <2>1. NoMembers \in [keys: SUBSET Keys, until: Int]
    BY DEF NoMembers
  <2> QED
    BY <2>1 DEF Store
<1>4. ASSUME NEW t \in Tags
      PROVE  [s EXCEPT !.stamp[t] = NoStamp] \in Store
  <2>1. NoStamp \in [at: Int, until: Int]
    BY DEF NoStamp
  <2> QED
    BY <2>1 DEF Store
<1> QED
  BY <1>1, <1>2, <1>3, <1>4

(* Every script, render, write and restart keeps the types. *)
THEOREM NextTyped == CacheTypeOK /\ [CacheNext]_vars => CacheTypeOK'
<1> SUFFICES ASSUME CacheTypeOK, [CacheNext]_vars
             PROVE  CacheTypeOK'
  OBVIOUS
<1> USE CacheAssumption DEF CacheAssumption
<1>1. ASSUME NEW r \in Requests, NEW k \in Keys, Miss(r, k)
      PROVE  CacheTypeOK'
  <2>1. Starts(k) \in Render
    BY DEF Starts, Render, CacheTypeOK
  <2>2. left' \in [requests: Nat, writes: Nat, restarts: Nat, clears: Nat]
    BY <1>1 DEF Miss, CacheTypeOK
  <2> QED
    BY <1>1, <2>1, <2>2 DEF Miss, CacheTypeOK, site
<1>2. ASSUME NEW r \in Requests, NEW tags \in SUBSET Tags, Read(r, tags)
      PROVE  CacheTypeOK'
  <2>1. request[r] \in Render
    BY <1>2, RenderFields DEF Read
  <2>2. Collected(request[r], tags) \in Render
    BY <2>1 DEF Collected, Render, CacheTypeOK
  <2> QED
    BY <1>2, <2>2 DEF Read, CacheTypeOK, site
<1>3. ASSUME NEW r \in Requests, Drop(r)
      PROVE  CacheTypeOK'
  BY <1>3 DEF Drop, CacheTypeOK, site
<1>4. ASSUME NEW r \in Requests, NEW life \in Lifetimes, NEW body \in Bodies,
             Keep(r, life, body)
      PROVE  CacheTypeOK'
  <2>1. request[r] \in Render
    BY <1>4, RenderFields DEF Keep
  <2>2. Stored(valkey, request[r].key, request[r].tags, request[r].seen, body, life) \in Store
    BY <2>1, StoredTyped DEF Render, CacheTypeOK
  <2>3. valkey' \in Store
    BY <1>4, <2>2 DEF Keep, CacheTypeOK
  <2> QED
    BY <1>4, <2>3 DEF Keep, CacheTypeOK, site
<1>5. ASSUME NEW w \in Writers, NEW tags \in SUBSET Tags, Write(w, tags)
      PROVE  CacheTypeOK'
  <2>1. left' \in [requests: Nat, writes: Nat, restarts: Nat, clears: Nat]
    BY <1>5 DEF Write, CacheTypeOK
  <2> QED
    BY <1>5, <2>1 DEF Write, CacheTypeOK
<1>6. ASSUME NEW w \in Writers, Purge(w)
      PROVE  CacheTypeOK'
  <2>1. outbox[w] \in SUBSET Tags
    BY DEF CacheTypeOK
  <2>2. valkey' \in Store
    BY <1>6, <2>1, PurgedTyped DEF Purge, CacheTypeOK
  <2> QED
    BY <1>6, <2>1, <2>2 DEF Purge, CacheTypeOK
<1>7. ASSUME NEW w \in Writers, Lose(w)
      PROVE  CacheTypeOK'
  BY <1>7 DEF Lose, CacheTypeOK
<1>8. ASSUME Tick
      PROVE  CacheTypeOK'
  <2>1. clock' \in Nat
    BY <1>8 DEF Tick, CacheTypeOK
  <2>2. valkey' \in Store
    BY <1>8, <2>1, ExpireTyped DEF Tick, CacheTypeOK
  <2> QED
    BY <1>8, <2>1, <2>2 DEF Tick, CacheTypeOK, site
<1>9. ASSUME Save
      PROVE  CacheTypeOK'
  BY <1>9 DEF Save, CacheTypeOK, site
<1>10. ASSUME Restart
       PROVE  CacheTypeOK'
  <2>1. valkey' \in Store
    BY <1>10, ExpireTyped DEF Restart, CacheTypeOK
  <2>2. left' \in [requests: Nat, writes: Nat, restarts: Nat, clears: Nat]
    BY <1>10 DEF Restart, CacheTypeOK
  <2> QED
    BY <1>10, <2>1, <2>2 DEF Restart, CacheTypeOK
<1>11. ASSUME BeginClear
       PROVE  CacheTypeOK'
  <2>1. left' \in [requests: Nat, writes: Nat, restarts: Nat, clears: Nat]
    BY <1>11 DEF BeginClear, CacheTypeOK
  <2> QED
    BY <1>11, <2>1 DEF BeginClear, CacheTypeOK, site
<1>12. ASSUME Unlink
       PROVE  CacheTypeOK'
  <2>1. valkey' \in Store
    <3>1. valkey \in Store
      BY DEF CacheTypeOK
    <3>2. CASE \E k \in Keys : valkey' = [valkey EXCEPT !.page[k] = NoPage]
      BY <3>1, <3>2, UnlinkTyped
    <3>3. CASE \E k \in Keys : valkey' = [valkey EXCEPT !.own[k] = NoTagList]
      BY <3>1, <3>3, UnlinkTyped
    <3>4. CASE \E t \in Tags : valkey' = [valkey EXCEPT !.members[t] = NoMembers]
      BY <3>1, <3>4, UnlinkTyped
    <3>5. CASE \E t \in Tags : valkey' = [valkey EXCEPT !.stamp[t] = NoStamp]
      BY <3>1, <3>5, UnlinkTyped
    <3> QED
      BY <1>12, <3>2, <3>3, <3>4, <3>5 DEF Unlink
  <2> QED
    BY <1>12, <2>1 DEF Unlink, CacheTypeOK, site
<1>13. ASSUME EndClear
       PROVE  CacheTypeOK'
  BY <1>13 DEF EndClear, CacheTypeOK, site
<1>14. ASSUME UNCHANGED vars
       PROVE  CacheTypeOK'
  BY <1>14 DEF vars, CacheTypeOK
<1> QED
  BY <1>1, <1>2, <1>3, <1>4, <1>5, <1>6, <1>7, <1>8, <1>9, <1>10, <1>11, <1>12, <1>13, <1>14
     DEF CacheNext, Ends, Valkey, Quiet

(* Every variable keeps its type, whatever the lifetimes and the bounds.   *)
THEOREM CacheTypesHold == CacheSpec => []CacheTypeOK
BY InitTyped, NextTyped, PTL DEF CacheSpec

-----------------------------------------------------------------------------
(* The steps of the invariant.                                             *)

LEMMA ExpirePages ==
  ASSUME NEW s \in Store, NEW time \in Nat, NEW k \in Keys
  PROVE  \/ Expire(s, time).page[k] = s.page[k]
         \/ Expire(s, time).page[k] = NoPage
BY DEF Expire, LivePage, LiveAt

(* A stamp outlives the renders it bars. *)
LEMMA ExpireKeepsBars ==
  ASSUME NEW s \in Store, NEW time \in Nat, NEW q \in Render, NEW t \in Tags,
         Barred(s, q, t), time <= q.at + RenderLimit
  PROVE  Barred(Expire(s, time), q, t)
<1>1. s.stamp[t].until \in Int /\ q.at \in Nat
  BY EntryFields DEF Render
<1>2. ~(s.stamp[t].until < time)
  BY <1>1, CacheAssumption DEF Barred, CacheAssumption
<1>3. Expire(s, time).stamp[t] = s.stamp[t]
  BY <1>2 DEF Expire, LiveAt
<1> QED
  BY <1>3 DEF Barred

(* Time may pass, and a page may go: no page outlives a set joined later. *)
LEMMA BoundedLater ==
  ASSUME CacheTypeOK, NEW s \in Store, NEW n, clock' \in Nat, clock <= clock',
         Bounded(s), \A k \in Keys : n.page[k] = s.page[k] \/ n.page[k] = NoPage
  PROVE  \A k \in Keys : \A b \in Lifetimes : n.page[k].until <= clock' + b + StampTtl
<1> SUFFICES ASSUME NEW k \in Keys, NEW b \in Lifetimes
             PROVE  n.page[k].until <= clock' + b + StampTtl
  OBVIOUS
<1>1. clock \in Nat /\ b \in Nat /\ StampTtl \in Nat /\ s.page[k].until \in Int
  BY CacheAssumption, EntryFields DEF CacheAssumption, CacheTypeOK
<1>2. s.page[k].until <= clock + b + StampTtl
  BY DEF Bounded
<1>3. NoPage.until = -1
  BY DEF NoPage
<1>4. n.page[k].until = s.page[k].until \/ n.page[k].until = -1
  BY <1>3
<1> QED
  BY <1>1, <1>2, <1>4

LEMMA FreshLater ==
  ASSUME NEW s, NEW n, NEW excused, NEW excusedThen, Fresh(s, excused),
         UNCHANGED version, excused \subseteq excusedThen,
         \A k \in Keys : n.page[k] = s.page[k] \/ n.page[k] = NoPage
  PROVE  \A k \in Keys : \A t \in n.page[k].tags :
           n.page[k].seen[t] # version'[t] => t \in excusedThen
<1> SUFFICES ASSUME NEW k \in Keys, NEW t \in n.page[k].tags,
                    n.page[k].seen[t] # version'[t]
             PROVE  t \in excusedThen
  OBVIOUS
<1>1. n.page[k] = s.page[k]
  BY DEF NoPage
<1> QED
  BY <1>1 DEF Fresh

(* The render of a request that is still under way. *)
LEMMA RequestsLeft ==
  ASSUME CacheTypeOK, NEW r \in Requests, request' = [request EXCEPT ![r] = Idle]
  PROVE  \A q \in Requests : Rendering(q)' => Rendering(q) /\ request'[q] = request[q]
<1>1. request'[r] = Idle /\ \A q \in Requests \ {r} : request'[q] = request[q]
  BY DEF CacheTypeOK
<1>2. ~Rendering(r)'
  BY <1>1 DEF Rendering, Idle
<1> QED
  BY <1>1, <1>2 DEF Rendering

(* A cache that holds nothing misleads nobody. *)
THEOREM InitSound ==
  ASSUME MaxClears = 0
  PROVE  CacheInit => CacheInv
<1> SUFFICES ASSUME CacheInit PROVE CacheInv
  OBVIOUS
<1>1. CacheTypeOK
  BY InitTyped
<1>2. \A k \in Keys : Empty.page[k] = NoPage
  BY DEF Empty
<1>3. Sound(Empty)
  BY <1>2 DEF Sound, Cached
<1>4. Bounded(Empty)
  <2>1. NoPage.until = -1
    BY DEF NoPage
  <2>2. clock = 0 /\ StampTtl \in Nat /\ Lifetimes \subseteq Nat
    BY CacheAssumption DEF CacheAssumption, CacheInit
  <2> QED
    BY <1>2, <2>1, <2>2 DEF Bounded
<1>5. \A excused : Fresh(Empty, excused)
  BY <1>2 DEF Fresh, NoPage
<1>6. \A r \in Requests : ~Rendering(r)
  BY DEF CacheInit, Rendering, Idle
<1>7. Timely /\ \A s, excused : Watched(s, excused)
  BY <1>6 DEF Timely, Watched
<1>8. Unclear
  BY DEF CacheInit, Unclear
<1> QED
  BY <1>1, <1>3, <1>4, <1>5, <1>7, <1>8 DEF CacheInv, CacheInit

LEMMA MissSound ==
  ASSUME CacheInv, CacheTypeOK', NEW r \in Requests, NEW k \in Keys, Miss(r, k)
  PROVE  CacheInv'
<1>1. request'[r] = Starts(k) /\ \A q \in Requests \ {r} : request'[q] = request[q]
  BY DEF Miss, CacheInv, CacheTypeOK
<1>2. Starts(k).tags = {} /\ Starts(k).at = clock
  BY DEF Starts
<1>3. UNCHANGED <<clock, valkey, saved, unsaved, version, Due, clearing>> /\ left'.clears = left.clears
  BY DEF Miss, site, Due, CacheInv, CacheTypeOK
<1>4. Unclear'
  BY <1>3 DEF Unclear, CacheInv
<1>5. Timely'
  <2>1. clock <= clock /\ clock <= clock + RenderLimit
    BY CacheAssumption DEF CacheInv, CacheTypeOK, CacheAssumption
  <2> QED
    BY <1>1, <1>2, <1>3, <2>1 DEF Timely, CacheInv, Rendering
<1>6. Watched(valkey, Due)' /\ Watched(saved, Due \cup unsaved)'
  BY <1>1, <1>2, <1>3 DEF Watched, CacheInv, Rendering
<1>7. Sound(valkey)' /\ Sound(saved)' /\ Bounded(valkey)' /\ Bounded(saved)'
      /\ Fresh(valkey, Due)' /\ Fresh(saved, Due \cup unsaved)'
  BY <1>3 DEF CacheInv, Bounded, Fresh
<1> QED
  BY <1>4, <1>5, <1>6, <1>7 DEF CacheInv

LEMMA ReadSound ==
  ASSUME CacheInv, CacheTypeOK', NEW r \in Requests, NEW tags \in SUBSET Tags, Read(r, tags)
  PROVE  CacheInv'
<1> DEFINE q == request[r]
           p == request'[r]
<1>1. p = Collected(q, tags) /\ \A o \in Requests \ {r} : request'[o] = request[o]
  BY DEF Read, CacheInv, CacheTypeOK
<1>2. q \in Render
  BY RenderFields DEF Read, CacheInv
<1>3. UNCHANGED <<clock, valkey, saved, unsaved, version, Due, clearing, left>>
  BY DEF Read, site, Due
<1>4. /\ p.at = q.at /\ p.tags = q.tags \cup tags
      /\ \A t \in Tags : p.seen[t] = IF t \in tags \ q.tags THEN version[t] ELSE q.seen[t]
  BY <1>1, <1>2 DEF Collected, Render
<1>5. Rendering(r)
  BY DEF Read
<1>6. Timely'
  BY <1>1, <1>3, <1>4, <1>5 DEF Timely, CacheInv, Rendering
<1>7. ASSUME NEW t \in p.tags, p.seen[t] # version[t]
      PROVE  t \in q.tags /\ q.seen[t] # version[t]
  BY <1>2, <1>4, <1>7 DEF Render
<1>8. Watched(valkey, Due)'
  <2> SUFFICES ASSUME NEW o \in Requests, Rendering(o)', NEW t \in request'[o].tags,
                      request'[o].seen[t] # version[t]
               PROVE  t \in Due \/ Barred(valkey, request'[o], t)
    BY <1>3 DEF Watched
  <2>1. CASE o = r
    BY <1>4, <1>5, <1>7, <2>1 DEF Watched, CacheInv, Barred
  <2>2. CASE o # r
    BY <1>1, <2>2 DEF Watched, CacheInv, Rendering
  <2> QED
    BY <2>1, <2>2
<1>9. Watched(saved, Due \cup unsaved)'
  <2> SUFFICES ASSUME NEW o \in Requests, Rendering(o)', NEW t \in request'[o].tags,
                      request'[o].seen[t] # version[t]
               PROVE  t \in Due \cup unsaved \/ Barred(saved, request'[o], t)
    BY <1>3 DEF Watched
  <2>1. CASE o = r
    BY <1>4, <1>5, <1>7, <2>1 DEF Watched, CacheInv, Barred
  <2>2. CASE o # r
    BY <1>1, <2>2 DEF Watched, CacheInv, Rendering
  <2> QED
    BY <2>1, <2>2
<1>10. Sound(valkey)' /\ Sound(saved)' /\ Bounded(valkey)' /\ Bounded(saved)'
       /\ Fresh(valkey, Due)' /\ Fresh(saved, Due \cup unsaved)' /\ Unclear'
  BY <1>3 DEF CacheInv, Bounded, Fresh, Unclear
<1> QED
  BY <1>6, <1>8, <1>9, <1>10 DEF CacheInv

LEMMA DropSound ==
  ASSUME CacheInv, CacheTypeOK', NEW r \in Requests, Drop(r)
  PROVE  CacheInv'
<1>1. \A o \in Requests : Rendering(o)' => Rendering(o) /\ request'[o] = request[o]
  BY RequestsLeft DEF Drop, CacheInv
<1>2. UNCHANGED <<clock, valkey, saved, unsaved, version, Due, clearing, left>>
  BY DEF Drop, site, Due
<1>3. Timely' /\ Watched(valkey, Due)' /\ Watched(saved, Due \cup unsaved)'
  BY <1>1, <1>2 DEF Timely, Watched, CacheInv
<1> QED
  BY <1>2, <1>3 DEF CacheInv, Bounded, Fresh, Unclear

LEMMA KeepSound ==
  ASSUME Uniform, CacheInv, CacheTypeOK', NEW r \in Requests, NEW life \in Lifetimes,
         NEW body \in Bodies, Keep(r, life, body)
  PROVE  CacheInv'
<1> DEFINE q == request[r]
           n == Stored(valkey, q.key, q.tags, q.seen, body, life)
<1>1. \A o \in Requests : Rendering(o)' => Rendering(o) /\ request'[o] = request[o]
  BY RequestsLeft DEF Keep, CacheInv
<1>2. UNCHANGED <<clock, saved, unsaved, version, Due, clearing, left>>
  BY DEF Keep, site, Due
<1>3. CASE valkey' = valkey
  <2>1. Timely' /\ Watched(valkey, Due)' /\ Watched(saved, Due \cup unsaved)'
    BY <1>1, <1>2, <1>3 DEF Timely, Watched, CacheInv
  <2> QED
    BY <1>2, <1>3, <2>1 DEF CacheInv, Bounded, Fresh, Unclear
<1>4. CASE ~Refused(valkey, q.tags, q.at) /\ valkey' = n
  <2>1. q \in Render /\ Rendering(r)
    BY RenderFields DEF Keep, CacheInv
  <2>2. q.key \in Keys /\ q.tags \in SUBSET Tags /\ q.seen \in [Tags -> Nat] /\ q.at \in Nat
    BY <2>1 DEF Render
  <2>3. clock \in Nat /\ StampTtl \in Nat /\ Lifetimes \subseteq Nat /\ valkey \in Store
    BY CacheAssumption DEF CacheInv, CacheTypeOK, CacheAssumption
  <2>4. /\ n.page[q.key] = [tags |-> q.tags, seen |-> q.seen, body |-> body,
                            until |-> clock + life]
        /\ \A k \in Keys \ {q.key} : n.page[k] = valkey.page[k]
        /\ n.stamp = valkey.stamp
    BY <2>2, <2>3 DEF Stored, Store
  <2> HIDE DEF n
  <2>5. Sound(n)
    BY <2>2, <2>3, StoredSound DEF n, CacheInv
  <2>6. Bounded(n)
    <3>1. \A b \in Lifetimes : clock + life <= clock + b + StampTtl
      BY <2>3 DEF Uniform
    <3> QED
      BY <2>4, <3>1 DEF Bounded, CacheInv
  <2>7. Fresh(n, Due)
    <3> SUFFICES ASSUME NEW k \in Keys, NEW t \in n.page[k].tags,
                        n.page[k].seen[t] # version[t]
                 PROVE  t \in Due
      BY DEF Fresh
    <3>1. CASE k = q.key
      <4>1. t \in q.tags /\ q.seen[t] # version[t]
        BY <2>4, <3>1
      <4>2. ~Barred(valkey, q, t)
        BY <1>4, <4>1 DEF Refused, Barred
      <4> QED
        BY <2>1, <4>1, <4>2 DEF CacheInv, Watched
    <3>2. CASE k # q.key
      BY <2>4, <3>2 DEF CacheInv, Fresh
    <3> QED
      BY <3>1, <3>2
  <2>8. \A o \in Requests : \A t \in request[o].tags :
          Barred(valkey, request[o], t) => Barred(n, request[o], t)
    BY <2>4 DEF Barred
  <2>9. Timely' /\ Watched(valkey, Due)' /\ Watched(saved, Due \cup unsaved)'
    <3>1. Watched(valkey, Due)
      BY DEF CacheInv
    <3>2. Timely' /\ Watched(saved, Due \cup unsaved)'
      BY <1>1, <1>2 DEF Timely, Watched, CacheInv
    <3>3. Watched(valkey, Due)'
      BY <1>1, <1>2, <1>4, <2>8, <3>1 DEF Watched
    <3> QED
      BY <1>4, <3>2, <3>3
  <2> QED
    BY <1>2, <1>4, <2>5, <2>6, <2>7, <2>9 DEF CacheInv, Bounded, Fresh, Unclear
<1> QED
  BY <1>3, <1>4 DEF Keep

LEMMA WriteSound ==
  ASSUME CacheInv, CacheTypeOK', NEW w \in Writers, NEW tags \in SUBSET Tags, Write(w, tags)
  PROVE  CacheInv'
<1>1. UNCHANGED <<clock, valkey, saved, unsaved, request, clearing>>
      /\ left'.clears = left.clears
  BY DEF Write, CacheInv, CacheTypeOK
<1>2. Due \cup tags \subseteq Due'
  BY DEF Write, CacheInv, CacheTypeOK, Due
<1>3. \A t \in Tags : version'[t] = version[t] \/ t \in tags
  BY DEF Write
<1>4. \A k \in Keys : valkey.page[k].tags \subseteq Tags /\ saved.page[k].tags \subseteq Tags
  BY EntryFields DEF CacheInv, CacheTypeOK
<1>5. \A r \in Requests : Rendering(r) => request[r].tags \subseteq Tags
  BY RenderFields DEF CacheInv, Render
<1>6. Fresh(valkey, Due)' /\ Fresh(saved, Due \cup unsaved)'
  BY <1>1, <1>2, <1>3, <1>4 DEF Fresh, CacheInv
<1>7. Watched(valkey, Due)' /\ Watched(saved, Due \cup unsaved)'
  BY <1>1, <1>2, <1>3, <1>5 DEF Watched, CacheInv, Rendering, Barred
<1> QED
  BY <1>1, <1>6, <1>7 DEF CacheInv, Bounded, Timely, Rendering, Unclear

(* The pages the purge leaves carry none of its tags; the renders that read *)
(* one are barred by its stamp.                                             *)
LEMMA PurgeSound ==
  ASSUME CacheInv, CacheTypeOK', NEW w \in Writers, Purge(w)
  PROVE  CacheInv'
<1> DEFINE tags == outbox[w]
           n == Purged(valkey, tags)
<1>1. UNCHANGED <<clock, saved, version, request, clearing, left>> /\ valkey' = n
  BY DEF Purge
<1>2. tags \in SUBSET Tags /\ valkey \in Store /\ clock \in Nat /\ StampTtl \in Nat
  BY CacheAssumption DEF CacheInv, CacheTypeOK, CacheAssumption
<1>3. Due \subseteq Due' \cup tags /\ Due \cup unsaved \subseteq Due' \cup unsaved'
  BY DEF Purge, CacheInv, CacheTypeOK, Due
<1>4. /\ Sound(n)
      /\ \A k \in Keys : Cached(n, k) => n.page[k] = valkey.page[k]
                                         /\ valkey.page[k].tags \cap tags = {}
  BY <1>2, PurgedSound DEF CacheInv
<1>5. \A t \in Tags : n.stamp[t] = IF t \in tags THEN [at |-> clock, until |-> clock + StampTtl]
                                                 ELSE valkey.stamp[t]
  BY DEF Purged, Stamped
<1> HIDE DEF n, tags
<1>6. Bounded(valkey)' /\ Bounded(saved)'
  <2>1. \A k \in Keys : n.page[k] = valkey.page[k] \/ n.page[k] = NoPage
    BY <1>4 DEF Cached
  <2>2. clock' \in Nat /\ clock <= clock'
    BY <1>1, <1>2
  <2>3. \A k \in Keys : \A b \in Lifetimes : n.page[k].until <= clock' + b + StampTtl
    BY <1>2, <2>1, <2>2, BoundedLater DEF CacheInv
  <2> QED
    BY <1>1, <2>3 DEF Bounded, CacheInv
<1>7. Fresh(valkey, Due)'
  <2> SUFFICES ASSUME NEW k \in Keys, NEW t \in n.page[k].tags,
                      n.page[k].seen[t] # version[t]
               PROVE  t \in Due'
    BY <1>1 DEF Fresh
  <2>1. Cached(n, k)
    BY DEF Cached, NoPage
  <2>2. t \in valkey.page[k].tags /\ valkey.page[k].seen[t] # version[t] /\ t \notin tags
    BY <1>4, <2>1
  <2> QED
    BY <1>3, <2>2 DEF Fresh, CacheInv
<1>8. Fresh(saved, Due \cup unsaved)'
  BY <1>1, <1>3 DEF Fresh, CacheInv
<1>9. Watched(valkey, Due)'
  <2> SUFFICES ASSUME NEW r \in Requests, Rendering(r), NEW t \in request[r].tags,
                      request[r].seen[t] # version[t]
               PROVE  t \in Due' \/ Barred(n, request[r], t)
    BY <1>1 DEF Watched, Rendering
  <2>1. t \in Tags /\ request[r].at \in Nat
    BY RenderFields DEF Render, CacheInv
  <2>2. CASE t \in tags
    <3>1. request[r].at <= clock
      BY DEF CacheInv, Timely
    <3>2. n.stamp[t].at = clock /\ n.stamp[t].until = clock + StampTtl
      BY <1>5, <2>1, <2>2
    <3> QED
      BY <1>2, <2>1, <3>1, <3>2 DEF Barred
  <2>3. CASE t \notin tags
    <3>1. n.stamp[t] = valkey.stamp[t]
      BY <1>5, <2>1, <2>3
    <3>2. t \in Due \/ Barred(valkey, request[r], t)
      BY DEF Watched, CacheInv
    <3> QED
      BY <1>3, <2>3, <3>1, <3>2 DEF Barred
  <2> QED
    BY <2>2, <2>3
<1>10. Watched(saved, Due \cup unsaved)'
  BY <1>1, <1>3 DEF Watched, CacheInv, Rendering, Barred
<1>11. Sound(valkey)' /\ Sound(saved)'
  BY <1>1, <1>4 DEF CacheInv
<1>12. Timely' /\ Unclear'
  BY <1>1 DEF CacheInv, Timely, Rendering, Unclear
<1> QED
  BY <1>6, <1>7, <1>8, <1>9, <1>10, <1>11, <1>12 DEF CacheInv

LEMMA LoseSound ==
  ASSUME CacheInv, CacheTypeOK', NEW w \in Writers, Lose(w)
  PROVE  CacheInv'
<1>1. UNCHANGED <<clock, valkey, saved, unsaved, version, request, clearing, left>>
  BY DEF Lose
<1>2. Due \subseteq Due'
  BY DEF Lose, CacheInv, CacheTypeOK, Due
<1>3. Fresh(valkey, Due)' /\ Fresh(saved, Due \cup unsaved)'
  BY <1>1, <1>2 DEF Fresh, CacheInv
<1>4. Watched(valkey, Due)' /\ Watched(saved, Due \cup unsaved)'
  BY <1>1, <1>2 DEF Watched, CacheInv, Rendering, Barred
<1> QED
  BY <1>1, <1>3, <1>4 DEF CacheInv, Bounded, Timely, Rendering, Unclear

LEMMA TickSound ==
  ASSUME CacheInv, CacheTypeOK', Tick
  PROVE  CacheInv'
<1> DEFINE n == Expire(valkey, clock')
<1>1. UNCHANGED <<saved, unsaved, version, Due, request, clearing, left>> /\ valkey' = n
  BY DEF Tick, site, Due
<1>2. clock \in Nat /\ clock' \in Nat /\ clock <= clock' /\ clock' = clock + 1
      /\ valkey \in Store /\ saved \in Store
  BY DEF Tick, CacheInv, CacheTypeOK
<1>3. \A k \in Keys : n.page[k] = valkey.page[k] \/ n.page[k] = NoPage
  BY <1>2, ExpirePages
<1>4. \A r \in Requests : Rendering(r) =>
        /\ request[r] \in Render
        /\ request[r].at <= clock /\ clock < request[r].at + RenderLimit
  BY RenderFields DEF Tick, Timely, CacheInv
<1>5. \A r \in Requests : Rendering(r) =>
        request[r].at <= clock' /\ clock' <= request[r].at + RenderLimit
  <2> SUFFICES ASSUME NEW r \in Requests, Rendering(r)
               PROVE  request[r].at <= clock' /\ clock' <= request[r].at + RenderLimit
    OBVIOUS
  <2>1. request[r].at \in Nat /\ RenderLimit \in Nat
    BY <1>4, CacheAssumption DEF Render, CacheAssumption
  <2> QED
    BY <1>2, <1>4, <2>1
<1>6. Sound(n)
  BY <1>2, ExpireSound DEF CacheInv
<1>7. \A t \in Tags, r \in Requests :
        Rendering(r) /\ Barred(valkey, request[r], t) => Barred(n, request[r], t)
  BY <1>2, <1>4, <1>5, ExpireKeepsBars
<1> HIDE DEF n
<1>8. Bounded(valkey)'
  <2>1. \A k \in Keys : \A b \in Lifetimes : n.page[k].until <= clock' + b + StampTtl
    BY <1>2, <1>3, BoundedLater DEF CacheInv
  <2> QED
    BY <1>1, <2>1 DEF Bounded
<1>9. Bounded(saved)'
  <2>1. \A k \in Keys : \A b \in Lifetimes : saved.page[k].until <= clock' + b + StampTtl
    BY <1>2, BoundedLater DEF CacheInv
  <2> QED
    BY <1>1, <2>1 DEF Bounded
<1>10. Fresh(valkey, Due)'
  <2>1. \A k \in Keys : \A t \in n.page[k].tags : n.page[k].seen[t] # version'[t] => t \in Due
    BY <1>1, <1>3, FreshLater DEF CacheInv
  <2> QED
    BY <1>1, <2>1 DEF Fresh
<1>11. Fresh(saved, Due \cup unsaved)'
  BY <1>1 DEF Fresh, CacheInv
<1>12. Watched(valkey, Due)'
  <2> SUFFICES ASSUME NEW r \in Requests, Rendering(r), NEW t \in request[r].tags,
                      request[r].seen[t] # version[t]
               PROVE  t \in Due \/ Barred(n, request[r], t)
    BY <1>1 DEF Watched, Rendering
  <2>1. t \in Tags
    BY <1>4 DEF Render
  <2>2. t \in Due \/ Barred(valkey, request[r], t)
    BY DEF Watched, CacheInv
  <2> QED
    BY <1>7, <2>1, <2>2
<1>13. Watched(saved, Due \cup unsaved)'
  BY <1>1 DEF Watched, CacheInv, Rendering, Barred
<1>14. Timely' /\ Unclear' /\ Sound(valkey)' /\ Sound(saved)'
  BY <1>1, <1>5, <1>6 DEF CacheInv, Timely, Rendering, Unclear
<1> QED
  BY <1>8, <1>9, <1>10, <1>11, <1>12, <1>13, <1>14 DEF CacheInv

LEMMA SaveSound ==
  ASSUME CacheInv, CacheTypeOK', Save
  PROVE  CacheInv'
<1>1. UNCHANGED <<clock, valkey, version, Due, request, clearing, left>>
      /\ saved' = valkey /\ unsaved' = {}
  BY DEF Save, site, Due
<1>2. Fresh(valkey, Due)' /\ Fresh(saved, Due \cup unsaved)'
  BY <1>1 DEF Fresh, CacheInv
<1>3. Watched(valkey, Due)' /\ Watched(saved, Due \cup unsaved)'
  BY <1>1 DEF Watched, CacheInv, Rendering, Barred
<1> QED
  BY <1>1, <1>2, <1>3 DEF CacheInv, Bounded, Timely, Rendering, Unclear

(* What the snapshot does not know is due again. *)
LEMMA RestartSound ==
  ASSUME CacheInv, CacheTypeOK', Restart
  PROVE  CacheInv'
<1> DEFINE n == Expire(saved, clock)
<1>1. UNCHANGED <<clock, saved, unsaved, version, request, clearing>> /\ valkey' = n
      /\ left'.clears = left.clears
  BY DEF Restart, CacheInv, CacheTypeOK
<1>2. Due' = Due \cup unsaved
  BY DEF Restart, Due
<1>3. clock \in Nat /\ saved \in Store
  BY DEF CacheInv, CacheTypeOK
<1>4. \A k \in Keys : n.page[k] = saved.page[k] \/ n.page[k] = NoPage
  BY <1>3, ExpirePages
<1>5. Sound(n)
  BY <1>3, ExpireSound DEF CacheInv
<1>6. \A t \in Tags, r \in Requests :
        Rendering(r) /\ Barred(saved, request[r], t) => Barred(n, request[r], t)
  BY <1>3, ExpireKeepsBars, RenderFields DEF CacheInv, Timely
<1> HIDE DEF n
<1>7. Bounded(valkey)' /\ Bounded(saved)'
  <2>1. clock' \in Nat /\ clock <= clock'
    BY <1>1, <1>3
  <2>2. \A k \in Keys : \A b \in Lifetimes : n.page[k].until <= clock' + b + StampTtl
    BY <1>3, <1>4, <2>1, BoundedLater DEF CacheInv
  <2> QED
    BY <1>1, <2>2 DEF Bounded, CacheInv
<1>8. Fresh(valkey, Due)' /\ Fresh(saved, Due \cup unsaved)'
  <2>1. \A k \in Keys : \A t \in n.page[k].tags :
          n.page[k].seen[t] # version'[t] => t \in Due \cup unsaved
    BY <1>1, <1>4, FreshLater DEF CacheInv
  <2> QED
    BY <1>1, <1>2, <2>1 DEF Fresh, CacheInv
<1>9. Watched(valkey, Due)'
  <2> SUFFICES ASSUME NEW r \in Requests, Rendering(r), NEW t \in request[r].tags,
                      request[r].seen[t] # version[t]
               PROVE  t \in Due \cup unsaved \/ Barred(n, request[r], t)
    BY <1>1, <1>2 DEF Watched, Rendering
  <2>1. t \in Tags
    BY RenderFields DEF Render, CacheInv
  <2>2. t \in Due \cup unsaved \/ Barred(saved, request[r], t)
    BY DEF Watched, CacheInv
  <2> QED
    BY <1>6, <2>1, <2>2
<1>10. Watched(saved, Due \cup unsaved)'
  BY <1>1, <1>2 DEF Watched, CacheInv, Rendering, Barred
<1>11. Timely' /\ Unclear' /\ Sound(valkey)' /\ Sound(saved)'
  BY <1>1, <1>5 DEF CacheInv, Timely, Rendering, Unclear
<1> QED
  BY <1>7, <1>8, <1>9, <1>10, <1>11 DEF CacheInv

(* Every step of a reader, of the API and of Valkey keeps the invariant. *)
THEOREM NextSound ==
  ASSUME Uniform
  PROVE  CacheInv /\ [CacheNext]_vars => CacheInv'
<1> SUFFICES ASSUME CacheInv, [CacheNext]_vars
             PROVE  CacheInv'
  OBVIOUS
<1>1. CacheTypeOK'
  BY NextTyped DEF CacheInv
<1>2. ASSUME NEW r \in Requests, NEW k \in Keys, Miss(r, k)
      PROVE  CacheInv'
  BY <1>1, <1>2, MissSound
<1>3. ASSUME NEW r \in Requests, NEW tags \in SUBSET Tags, Read(r, tags)
      PROVE  CacheInv'
  BY <1>1, <1>3, ReadSound
<1>4. ASSUME NEW r \in Requests, Ends(r)
      PROVE  CacheInv'
  BY <1>1, <1>4, DropSound, KeepSound DEF Ends
<1>5. ASSUME NEW w \in Writers, NEW tags \in SUBSET Tags, Write(w, tags)
      PROVE  CacheInv'
  BY <1>1, <1>5, WriteSound
<1>6. ASSUME NEW w \in Writers, Purge(w) \/ Lose(w)
      PROVE  CacheInv'
  BY <1>1, <1>6, PurgeSound, LoseSound
<1>7. CASE Tick \/ Save \/ Restart
  BY <1>1, <1>7, TickSound, SaveSound, RestartSound
<1>8. CASE BeginClear \/ Unlink \/ EndClear
  <2>1. left.clears = 0 /\ ~clearing
    BY DEF CacheInv, Unclear
  <2> QED
    BY <1>8, <2>1 DEF BeginClear, Unlink, EndClear
<1>9. CASE UNCHANGED vars
  <2>1. UNCHANGED <<clock, valkey, saved, unsaved, version, Due, request, clearing, left>>
    BY <1>9 DEF vars, Due
  <2> QED
    BY <1>1, <2>1 DEF CacheInv, Bounded, Timely, Rendering, Unclear, Fresh, Watched, Barred
<1> QED
  BY <1>2, <1>3, <1>4, <1>5, <1>6, <1>7, <1>8, <1>9 DEF CacheNext, Valkey, Quiet

(* Where no operator clears the cache and the lifetimes in use are close    *)
(* enough, a purge finds every page it concerns.                            *)
THEOREM PurgesFindTheirPages ==
  ASSUME Uniform, MaxClears = 0
  PROVE  CacheSpec => []Findable
<1>1. CacheInv => Findable
  BY DEF CacheInv, Sound, Findable
<1> QED
  BY <1>1, InitSound, NextSound, PTL DEF CacheSpec

(* Under the same conditions a page that is out of date has a purge coming, *)
(* or one that was lost: the stamps close the gap between a render and its  *)
(* store.                                                                   *)
THEOREM StaleMeansDue ==
  ASSUME Uniform, MaxClears = 0
  PROVE  CacheSpec => []StaleOnlyIfDue
<1>1. CacheInv => StaleOnlyIfDue
  BY DEF CacheInv, Fresh, StaleOnlyIfDue
<1> QED
  BY <1>1, InitSound, NextSound, PTL DEF CacheSpec

-----------------------------------------------------------------------------
(* The site over the cache: contents as a value, so that those before and  *)
(* after a write can be compared.                                          *)

ThereIn(c, d) == c[d] \notin {Absent, Deleted}

VisibleIn(c, d) == ThereIn(c, d) /\ c[d].status = "published"

ShownIn(c, d) == [id |-> d, locale |-> c[d].locale, group |-> c[d].group,
                  slug |-> c[d].slug, title |-> c[d].title, date |-> c[d].date,
                  refs |-> c[d].refs]

AlikeIn(c, d, e) ==
  /\ ThereIn(c, d) /\ ThereIn(c, e)
  /\ c[d].type = c[e].type /\ c[d].locale = c[e].locale

(* A walk, one level further. *)
Climbs(c, below) ==
  [e \in Docs |->
     IF c[e].parent # None /\ AlikeIn(c, c[e].parent, e)
     THEN [below[c[e].parent] EXCEPT !.slugs = Append(@, c[e].slug)]
     ELSE [slugs |-> <<c[e].slug>>, complete |-> c[e].parent = None]]

Reaches(c, below) ==
  {d \in Docs : /\ VisibleIn(c, d)
                /\ \/ c[d].parent = None
                   \/ AlikeIn(c, c[d].parent, d) /\ c[d].parent \in below}

Roots(c, below) ==
  {d \in {e \in Docs : ThereIn(c, e)} :
     \/ c[d].parent = None
     \/ /\ c[d].type \in HierarchicalTypes
        /\ c[d].parent \in below
        /\ c[c[d].parent].type = c[d].type
        /\ c[c[d].parent].locale = c[d].locale}

Lost == [e \in Docs |-> [slugs |-> <<>>, complete |-> FALSE]]

ClimbIn(c) == CHOOSE climb : climb =
  [levels \in 0..MAX_ANCESTRY_DEPTH |->
     IF levels = 0 THEN Lost ELSE Climbs(c, climb[levels - 1])]

ReachedIn(c) == CHOOSE reached : reached =
  [levels \in 0..MAX_ANCESTRY_DEPTH |->
     IF levels = 0 THEN {} ELSE Reaches(c, reached[levels - 1])]

RootedIn(c) == CHOOSE rooted : rooted =
  [levels \in 0..MAX_ANCESTRY_DEPTH |->
     IF levels = 0 THEN {} ELSE Roots(c, rooted[levels - 1])]

AncestryIn(c, d) == ClimbIn(c)[MAX_ANCESTRY_DEPTH][d]

LEMMA AncestryIsIn ==
  ASSUME NEW d
  PROVE  Ancestry(d) = AncestryIn(rows, d) /\ Ancestry(d)' = AncestryIn(rows', d)
BY DEF Ancestry, AncestryIn, ClimbIn, Climbs, Lost, Alike, AlikeIn, Exists, ThereIn

LEMMA WellFormedIs ==
  ASSUME NEW c
  PROVE  WellFormed(c) =>
    /\ {d \in Docs : ThereIn(c, d)} \subseteq RootedIn(c)[MAX_ANCESTRY_DEPTH]
    /\ \A d, e \in Docs : ThereIn(c, d) /\ ThereIn(c, e) /\ d # e =>
         /\ <<c[d].type, c[d].locale, c[d].slug>> # <<c[e].type, c[e].locale, c[e].slug>>
         /\ c[d].group = c[e].group => c[d].type = c[e].type /\ c[d].locale # c[e].locale
<1>1. WellFormed(c) => {d \in Docs : ThereIn(c, d)} \subseteq RootedIn(c)[MAX_ANCESTRY_DEPTH]
  BY DEF WellFormed, RootedIn, Roots, ThereIn
<1>2. WellFormed(c) =>
       \A d, e \in Docs : ThereIn(c, d) /\ ThereIn(c, e) /\ d # e =>
         /\ <<c[d].type, c[d].locale, c[d].slug>> # <<c[e].type, c[e].locale, c[e].slug>>
         /\ c[d].group = c[e].group => c[d].type = c[e].type /\ c[d].locale # c[e].locale
  BY DEF WellFormed, ThereIn
<1> QED
  BY <1>1, <1>2

PathIn(c, d) ==
  IF c[d].type \in HierarchicalTypes THEN AncestryIn(c, d).slugs ELSE <<c[d].slug>>

-----------------------------------------------------------------------------
(* Functions defined level by level.                                       *)

LEMMA LeastNatural ==
  ASSUME NEW S \in SUBSET Nat, S # {}
  PROVE  \E n \in S : \A m \in S : n <= m
<1> DEFINE Below == {p \in Nat \X Nat : p[1] < p[2]}
<1>1. IsWellFoundedOn(Below, Nat)
  BY NatLessThanWellFounded DEF OpToRel
<1>2. \A m, n \in Nat : m < n => <<m, n>> \in Below
  OBVIOUS
<1> HIDE DEF Below
<1>3. PICK n \in S : \A m \in S : ~(<<m, n>> \in Below)
  BY <1>1, WFMin
<1>4. \A m \in S : ~(m < n)
  BY <1>2, <1>3
<1> QED
  BY <1>4

(* Induction over the levels, for a set. *)
LEMMA EveryLevel ==
  ASSUME NEW N \in Nat, NEW S, 0 \in S, \A n \in 1..N : n - 1 \in S => n \in S
  PROVE  0..N \subseteq S
<1> DEFINE Out == {n \in 0..N : n \notin S}
<1>1. ASSUME Out # {} PROVE FALSE
  <2>0. Out \in SUBSET Nat
    OBVIOUS
  <2>1. PICK n \in Out : \A m \in Out : n <= m
    <3> HIDE DEF Out
    <3> QED
      BY <1>1, <2>0, LeastNatural
  <2>2. n \in 1..N /\ n - 1 \in 0..N /\ n - 1 \notin Out
    BY <2>1
  <2> QED
    BY <2>1, <2>2
<1> QED
  BY <1>1

ByLevels(f, N, a, up) == \A n \in 0..N : f[n] = IF n = 0 THEN a ELSE up[f[n - 1]]

LEMMA LevelsExist ==
  ASSUME NEW A, NEW a \in A, NEW up \in [A -> A], NEW N \in Nat
  PROVE  \E f \in [0..N -> A] : ByLevels(f, N, a, up)
<1> DEFINE Good(n, f) == \A k \in 0..n : f[k] = IF k = 0 THEN a ELSE up[f[k - 1]]
           S == {n \in Nat : \E f \in [0..n -> A] : Good(n, f)}
<1>1. 0 \in S
  <2>1. [k \in 0..0 |-> a] \in [0..0 -> A] /\ Good(0, [k \in 0..0 |-> a])
    OBVIOUS
  <2> QED
    BY <2>1
<1>2. ASSUME NEW n \in 1..N, n - 1 \in S
      PROVE  n \in S
  <2>1. PICK f \in [0..(n - 1) -> A] : Good(n - 1, f)
    BY <1>2
  <2> DEFINE g == [k \in 0..n |-> IF k = n THEN up[f[n - 1]] ELSE f[k]]
  <2>2. g \in [0..n -> A]
    OBVIOUS
  <2>3. \A k \in 0..n : g[k] = IF k = 0 THEN a ELSE up[g[k - 1]]
    BY <2>1
  <2>4. Good(n, g)
    BY <2>2, <2>3
  <2> HIDE DEF g, Good
  <2> QED
    BY <2>2, <2>4
<1> HIDE DEF S
<1>3. N \in S
  BY <1>1, <1>2, EveryLevel
<1> QED
  BY <1>3 DEF S, ByLevels

-----------------------------------------------------------------------------
(* The walks.                                                              *)

Walks(c) == [slugs: Seq({c[d].slug : d \in Docs}), complete: BOOLEAN]

LEMMA ClimbsTyped ==
  ASSUME NEW c \in Contents, NEW below \in [Docs -> Walks(c)]
  PROVE  /\ Climbs(c, below) \in [Docs -> Walks(c)]
         /\ \A d \in Docs : LET slugs == Climbs(c, below)[d].slugs
                            IN Len(slugs) \in Nat \ {0} /\ slugs[Len(slugs)] = c[d].slug
<1> DEFINE climbs == Climbs(c, below)
           Slugs == {c[d].slug : d \in Docs}
<1> SUFFICES ASSUME NEW d \in Docs
             PROVE  climbs[d] \in Walks(c)
                    /\ Len(climbs[d].slugs) \in Nat \ {0}
                    /\ climbs[d].slugs[Len(climbs[d].slugs)] = c[d].slug
  BY DEF Climbs
<1>1. c[d].slug \in Slugs
  OBVIOUS
<1>2. CASE c[d].parent # None /\ AlikeIn(c, c[d].parent, d)
  <2>1. c[d].parent \in Docs
    BY <1>2, SiteAssumption DEF AlikeIn, ThereIn, Contents, RowSpace
  <2>2. below[c[d].parent] \in Walks(c)
    BY <2>1
  <2>3. climbs[d] = [below[c[d].parent] EXCEPT !.slugs = Append(@, c[d].slug)]
    BY <1>2 DEF Climbs
  <2> DEFINE b == below[c[d].parent]
  <2>4. b.slugs \in Seq(Slugs) /\ b.complete \in BOOLEAN /\ b = [slugs |-> b.slugs, complete |-> b.complete]
    BY <2>2 DEF Walks
  <2>5. climbs[d] = [slugs |-> Append(b.slugs, c[d].slug), complete |-> b.complete]
    BY <2>3, <2>4
  <2>6. Append(b.slugs, c[d].slug) \in Seq(Slugs) /\ Len(Append(b.slugs, c[d].slug)) = Len(b.slugs) + 1
        /\ Append(b.slugs, c[d].slug)[Len(b.slugs) + 1] = c[d].slug
    BY <1>1, <2>4
  <2> HIDE DEF climbs, Slugs, b
  <2> QED
    BY <2>4, <2>5, <2>6 DEF Walks, Slugs
<1>3. CASE ~(c[d].parent # None /\ AlikeIn(c, c[d].parent, d))
  <2>1. climbs[d] = [slugs |-> <<c[d].slug>>, complete |-> c[d].parent = None]
    BY <1>3 DEF Climbs
  <2>2. <<c[d].slug>> \in Seq(Slugs) /\ Len(<<c[d].slug>>) = 1 /\ <<c[d].slug>>[1] = c[d].slug
    BY <1>1
  <2>3. (c[d].parent = None) \in BOOLEAN
    OBVIOUS
  <2> HIDE DEF climbs, Slugs
  <2> QED
    BY <2>1, <2>2, <2>3 DEF Walks, Slugs
<1> QED
  BY <1>2, <1>3

LEMMA ClimbLevels ==
  ASSUME NEW c \in Contents
  PROVE  /\ ClimbIn(c)[0] = Lost
         /\ \A n \in 0..MAX_ANCESTRY_DEPTH : ClimbIn(c)[n] \in [Docs -> Walks(c)]
         /\ \A n \in 1..MAX_ANCESTRY_DEPTH : ClimbIn(c)[n] = Climbs(c, ClimbIn(c)[n - 1])
<1> DEFINE A == [Docs -> Walks(c)]
           up == [below \in A |-> Climbs(c, below)]
           N == MAX_ANCESTRY_DEPTH
           climb == ClimbIn(c)
<1>1. N \in Nat
  BY SiteAssumption
<1>2. Lost \in A
  BY DEF Lost, Walks
<1>3. up \in [A -> A]
  BY ClimbsTyped
<1> HIDE DEF A, up
<1>4. PICK f \in [0..N -> A] : ByLevels(f, N, Lost, up)
  BY <1>1, <1>2, <1>3, LevelsExist
<1>5. f = [n \in 0..N |-> IF n = 0 THEN Lost ELSE Climbs(c, f[n - 1])]
  <2>1. \A n \in 0..N : n # 0 => f[n - 1] \in A
    BY <1>1
  <2>2. \A n \in 0..N : n # 0 => up[f[n - 1]] = Climbs(c, f[n - 1])
    BY <2>1 DEF up
  <2> QED
    BY <1>4, <2>2 DEF ByLevels
<1>6. climb = [n \in 0..N |-> IF n = 0 THEN Lost ELSE Climbs(c, climb[n - 1])]
  BY <1>5 DEF ClimbIn
<1> HIDE DEF climb
<1>7. climb[0] = Lost /\ \A n \in 1..N : climb[n] = Climbs(c, climb[n - 1])
  BY <1>1, <1>6
<1> DEFINE S == {n \in 0..N : climb[n] \in A}
<1>8. 0 \in S
  BY <1>1, <1>2, <1>7
<1>9. ASSUME NEW n \in 1..N, n - 1 \in S PROVE n \in S
  BY <1>7, <1>9, ClimbsTyped DEF A
<1> HIDE DEF S
<1>10. 0..N \subseteq S
  BY <1>1, <1>8, <1>9, EveryLevel
<1> QED
  BY <1>7, <1>10 DEF S, A, climb

(* The path of a document ends in its slug. *)
LEMMA PathTyped ==
  ASSUME NEW c \in Contents, NEW d \in Docs
  PROVE  /\ PathIn(c, d) \in Seq({c[e].slug : e \in Docs})
         /\ Len(PathIn(c, d)) \in Nat \ {0}
         /\ PathIn(c, d)[Len(PathIn(c, d))] = c[d].slug
<1>1. MAX_ANCESTRY_DEPTH \in 1..MAX_ANCESTRY_DEPTH /\ MAX_ANCESTRY_DEPTH - 1 \in 0..MAX_ANCESTRY_DEPTH
  BY SiteAssumption
<1>2. ClimbIn(c)[MAX_ANCESTRY_DEPTH - 1] \in [Docs -> Walks(c)]
      /\ ClimbIn(c)[MAX_ANCESTRY_DEPTH] = Climbs(c, ClimbIn(c)[MAX_ANCESTRY_DEPTH - 1])
  BY <1>1, ClimbLevels
<1>3. AncestryIn(c, d).slugs \in Seq({c[e].slug : e \in Docs})
      /\ Len(AncestryIn(c, d).slugs) \in Nat \ {0}
      /\ AncestryIn(c, d).slugs[Len(AncestryIn(c, d).slugs)] = c[d].slug
  <2>1. AncestryIn(c, d) = Climbs(c, ClimbIn(c)[MAX_ANCESTRY_DEPTH - 1])[d]
    BY <1>2 DEF AncestryIn
  <2>2. AncestryIn(c, d) \in Walks(c)
    BY <1>2, <2>1, ClimbsTyped
  <2>3. AncestryIn(c, d).slugs \in Seq({c[e].slug : e \in Docs})
    BY <2>2 DEF Walks
  <2> QED
    BY <1>2, <2>1, <2>3, ClimbsTyped
<1>4. <<c[d].slug>> \in Seq({c[e].slug : e \in Docs}) /\ Len(<<c[d].slug>>) = 1
      /\ <<c[d].slug>>[1] = c[d].slug
  OBVIOUS
<1>5. PathIn(c, d) = AncestryIn(c, d).slugs \/ PathIn(c, d) = <<c[d].slug>>
  BY DEF PathIn
<1>6. CASE PathIn(c, d) = AncestryIn(c, d).slugs
  BY <1>3, <1>6
<1>7. CASE PathIn(c, d) = <<c[d].slug>>
  BY <1>4, <1>7
<1> QED
  BY <1>5, <1>6, <1>7

LEMMA RootedLevels ==
  ASSUME NEW c \in Contents
  PROVE  RootedIn(c)[0] = {}
         /\ \A n \in 1..MAX_ANCESTRY_DEPTH : RootedIn(c)[n] = Roots(c, RootedIn(c)[n - 1])
<1> DEFINE A == SUBSET Docs
           none == {}
           up == [below \in A |-> Roots(c, below)]
           N == MAX_ANCESTRY_DEPTH
           rooted == RootedIn(c)
<1>1. N \in Nat
  BY SiteAssumption
<1>2. up \in [A -> A]
  BY DEF Roots
<1>3. none \in A
  OBVIOUS
<1> HIDE DEF A, up, none
<1>4. PICK f \in [0..N -> A] : ByLevels(f, N, none, up)
  BY <1>1, <1>2, <1>3, LevelsExist
<1>5. f = [n \in 0..N |-> IF n = 0 THEN none ELSE Roots(c, f[n - 1])]
  <2>1. \A n \in 0..N : n # 0 => f[n - 1] \in A
    BY <1>1
  <2>2. \A n \in 0..N : n # 0 => up[f[n - 1]] = Roots(c, f[n - 1])
    BY <2>1 DEF up
  <2> QED
    BY <1>4, <2>2 DEF ByLevels
<1>6. rooted = [n \in 0..N |-> IF n = 0 THEN none ELSE Roots(c, rooted[n - 1])]
  BY <1>5 DEF RootedIn, none
<1> HIDE DEF rooted
<1>7. rooted[0] = none /\ \A n \in 1..N : rooted[n] = Roots(c, rooted[n - 1])
  BY <1>1, <1>6
<1> QED
  BY <1>7 DEF rooted, none

LEMMA ReachedLevels ==
  ASSUME NEW c \in Contents
  PROVE  \A n \in 1..MAX_ANCESTRY_DEPTH : ReachedIn(c)[n] = Reaches(c, ReachedIn(c)[n - 1])
<1> DEFINE A == SUBSET Docs
           none == {}
           up == [below \in A |-> Reaches(c, below)]
           N == MAX_ANCESTRY_DEPTH
           reached == ReachedIn(c)
<1>1. N \in Nat
  BY SiteAssumption
<1>2. up \in [A -> A]
  BY DEF Reaches
<1>3. none \in A
  OBVIOUS
<1> HIDE DEF A, up, none
<1>4. PICK f \in [0..N -> A] : ByLevels(f, N, none, up)
  BY <1>1, <1>2, <1>3, LevelsExist
<1>5. f = [n \in 0..N |-> IF n = 0 THEN none ELSE Reaches(c, f[n - 1])]
  <2>1. \A n \in 0..N : n # 0 => f[n - 1] \in A
    BY <1>1
  <2>2. \A n \in 0..N : n # 0 => up[f[n - 1]] = Reaches(c, f[n - 1])
    BY <2>1 DEF up
  <2> QED
    BY <1>4, <2>2 DEF ByLevels
<1>6. reached = [n \in 0..N |-> IF n = 0 THEN none ELSE Reaches(c, reached[n - 1])]
  BY <1>5 DEF ReachedIn, none
<1> HIDE DEF reached
<1>7. \A n \in 1..N : reached[n] = Reaches(c, reached[n - 1])
  BY <1>1, <1>6
<1> QED
  BY <1>7 DEF reached

(* What is well formed resolves: the way up that the tree promises is the   *)
(* way the resolver takes.                                                 *)
LEMMA RootedResolves ==
  ASSUME NEW c \in Contents, NEW n \in 0..MAX_ANCESTRY_DEPTH
  PROVE  \A d \in Docs : d \in RootedIn(c)[n] => ClimbIn(c)[n][d].complete
<1> DEFINE N == MAX_ANCESTRY_DEPTH
           S == {k \in 0..N : \A d \in Docs : d \in RootedIn(c)[k] => ClimbIn(c)[k][d].complete}
<1>1. N \in Nat
  BY SiteAssumption
<1>2. 0 \in S
  BY <1>1, RootedLevels
<1>3. ASSUME NEW k \in 1..N, k - 1 \in S
      PROVE  k \in S
  <2> SUFFICES ASSUME NEW d \in Docs, d \in RootedIn(c)[k]
               PROVE  ClimbIn(c)[k][d].complete
    BY <1>1
  <2>1. d \in Roots(c, RootedIn(c)[k - 1])
    BY RootedLevels
  <2>2. ClimbIn(c)[k] = Climbs(c, ClimbIn(c)[k - 1]) /\ ClimbIn(c)[k - 1] \in [Docs -> Walks(c)]
    BY <1>1, ClimbLevels
  <2>3. CASE c[d].parent = None
    <3>1. ClimbIn(c)[k][d] = [slugs |-> <<c[d].slug>>, complete |-> c[d].parent = None]
      BY <2>2, <2>3 DEF Climbs
    <3>2. ClimbIn(c)[k][d].complete = (c[d].parent = None)
      BY <3>1
    <3> QED
      BY <2>3, <3>2
  <2>4. CASE c[d].parent # None
    <3>1. ThereIn(c, d) /\ c[d].parent \in Docs /\ c[d].parent \in RootedIn(c)[k - 1]
          /\ c[c[d].parent].type = c[d].type /\ c[c[d].parent].locale = c[d].locale
      BY <2>1, <2>4, SiteAssumption DEF Roots, ThereIn, Contents, RowSpace
    <3>2. ThereIn(c, c[d].parent)
      <4>1. k - 1 # 0
        BY <3>1, RootedLevels
      <4>2. c[d].parent \in Roots(c, RootedIn(c)[(k - 1) - 1])
        BY <1>1, <3>1, <4>1, RootedLevels
      <4> QED
        BY <4>2 DEF Roots
    <3>3. AlikeIn(c, c[d].parent, d)
      BY <3>1, <3>2 DEF AlikeIn
    <3>4. ClimbIn(c)[k - 1][c[d].parent].complete
      BY <1>3, <3>1
    <3>5. ClimbIn(c)[k - 1][c[d].parent] \in Walks(c)
      BY <2>2, <3>1
    <3>6. ClimbIn(c)[k][d] = [ClimbIn(c)[k - 1][c[d].parent] EXCEPT !.slugs = Append(@, c[d].slug)]
      BY <2>2, <2>4, <3>3 DEF Climbs
    <3> QED
      BY <3>4, <3>5, <3>6 DEF Walks
  <2> QED
    BY <2>3, <2>4
<1> HIDE DEF S
<1>4. 0..N \subseteq S
  BY <1>1, <1>2, <1>3, EveryLevel
<1> QED
  BY <1>4 DEF S

LEMMA WellFormedResolves ==
  ASSUME NEW c \in Contents, WellFormed(c), NEW d \in Docs, ThereIn(c, d)
  PROVE  AncestryIn(c, d).complete
<1>1. d \in RootedIn(c)[MAX_ANCESTRY_DEPTH]
  BY WellFormedIs
<1>2. MAX_ANCESTRY_DEPTH \in 0..MAX_ANCESTRY_DEPTH
  BY SiteAssumption
<1> QED
  BY <1>1, <1>2, RootedResolves DEF AncestryIn

-----------------------------------------------------------------------------
(* What the queries return.                                                *)

Found(c, u) ==
  {d \in Docs : /\ VisibleIn(c, d)
                /\ c[d].type = u.type /\ c[d].locale = u.locale /\ c[d].slug = Slug(u)}

Translated(c, g) == {d \in Docs : VisibleIn(c, d) /\ c[d].group = g}

Listed(c, u) ==
  {d \in Docs : VisibleIn(c, d) /\ c[d].type = u.type /\ c[d].locale = u.locale}

Before(c, u, d) ==
  {e \in Listed(c, u) : c[e].date > c[d].date \/ (c[e].date = c[d].date /\ e > d)}

PageOf(c, u) ==
  {d \in Listed(c, u) : Cardinality(Before(c, u, d)) \div PER_PAGE = u.number - 1}

EntryIn(c, d) ==
  [row |-> ShownIn(c, d),
   url |-> [kind |-> "document", type |-> c[d].type, locale |-> c[d].locale,
            path |-> PathIn(c, d)]]

SitemapIn(c) == {EntryIn(c, d) : d \in ReachedIn(c)[MAX_ANCESTRY_DEPTH]}

ResolvesIn(c, d) ==
  ThereIn(c, d) /\ (c[d].type \in HierarchicalTypes => AncestryIn(c, d).complete)

AltsIn(a, refs) == {<<m, a[m]>> : m \in {n \in refs : a[n] # Absent}}

(* No document is dated ahead: none becomes visible by the mere passing of  *)
(* time, which no write announces.                                         *)
NoneAhead == \A date \in Given("date") : date <= 0

LEMMA VisibleNow ==
  ASSUME NoneAhead, rows \in Contents, NEW time \in Nat, NEW d \in Docs
  PROVE  PubliclyVisible(d, time) <=> VisibleIn(rows, d)
<1>1. ASSUME ThereIn(rows, d) PROVE rows[d].date <= time
  <2>1. rows[d].date \in Given("date")
    BY <1>1 DEF ThereIn, Contents, RowSpace
  <2>2. rows[d].date \in Int /\ rows[d].date <= 0
    BY <2>1, SiteAssumption DEF NoneAhead
  <2> QED
    BY <2>2
<1> QED
  BY <1>1 DEF PubliclyVisible, VisibleIn, Exists, ThereIn

LEMMA RowsNow ==
  ASSUME NEW d
  PROVE  /\ Exists(d) <=> ThereIn(rows, d)
         /\ Shown(d) = ShownIn(rows, d)
         /\ PathOf(d) = PathIn(rows, d)
         /\ Resolves(d) <=> ResolvesIn(rows, d)
         /\ DocumentUrl(d) = EntryIn(rows, d).url
         /\ Entry(d) = EntryIn(rows, d)
<1>1. Exists(d) <=> ThereIn(rows, d)
  BY DEF Exists, ThereIn
<1>2. Shown(d) = ShownIn(rows, d)
  BY DEF Shown, ShownIn
<1>3. Ancestry(d) = AncestryIn(rows, d)
  BY AncestryIsIn
<1>4. PathOf(d) = PathIn(rows, d)
  BY <1>3 DEF PathOf, PathIn
<1>5. Resolves(d) <=> ResolvesIn(rows, d)
  BY <1>1, <1>3 DEF Resolves, ResolvesIn
<1>6. Entry(d) = EntryIn(rows, d) /\ DocumentUrl(d) = EntryIn(rows, d).url
  BY <1>2, <1>4 DEF Entry, EntryIn, DocumentUrl
<1> QED
  BY <1>1, <1>2, <1>4, <1>5, <1>6

LEMMA QueriesNow ==
  ASSUME NoneAhead, rows \in Contents, clock \in Nat, NEW time \in Nat
  PROVE  /\ \A u : FindPublishedBySlug(u) = Found(rows, u)
         /\ \A g : ListPublishedTranslations(g) = Translated(rows, g)
         /\ \A u : ListPublished(u, time) = Listed(rows, u)
         /\ \A u : OnPage(u, time) = PageOf(rows, u)
         /\ ListPublishedPaths = ReachedIn(rows)[MAX_ANCESTRY_DEPTH]
<1>1. \A d \in Docs : /\ PubliclyVisible(d, clock) <=> VisibleIn(rows, d)
                      /\ PubliclyVisible(d, time) <=> VisibleIn(rows, d)
  BY VisibleNow
<1>2. \A u : FindPublishedBySlug(u) = Found(rows, u)
  BY <1>1 DEF FindPublishedBySlug, Found
<1>3. \A g : ListPublishedTranslations(g) = Translated(rows, g)
  BY <1>1 DEF ListPublishedTranslations, Translated
<1>4. \A u : ListPublished(u, time) = Listed(rows, u)
  BY <1>1 DEF ListPublished, Listed
<1>5. ASSUME NEW u PROVE OnPage(u, time) = PageOf(rows, u)
  <2> DEFINE Rank(listed, d) == Cardinality({e \in listed : Precedes(e, d)})
             On(listed) == {d \in listed : Rank(listed, d) \div PER_PAGE = u.number - 1}
  <2>1. OnPage(u, time) = On(ListPublished(u, time))
    BY DEF OnPage
  <2>2. PageOf(rows, u) = On(Listed(rows, u))
    BY DEF PageOf, Before, Precedes
  <2>3. ListPublished(u, time) = Listed(rows, u)
    BY <1>4
  <2> HIDE DEF On
  <2> QED
    BY <2>1, <2>2, <2>3
<1> DEFINE N == MAX_ANCESTRY_DEPTH
           none == {}
           Down(below) == {d \in Docs : /\ PubliclyVisible(d, clock)
                                        /\ \/ rows[d].parent = None
                                           \/ /\ Alike(rows[d].parent, d)
                                              /\ rows[d].parent \in below}
           reached == CHOOSE f : f = [n \in 0..N |-> IF n = 0 THEN none ELSE Down(f[n - 1])]
<1>6. \A below : Down(below) = Reaches(rows, below)
  BY <1>1 DEF Reaches, Alike, AlikeIn, Exists, ThereIn
<1>7. ListPublishedPaths = ReachedIn(rows)[MAX_ANCESTRY_DEPTH]
  <2>1. ListPublishedPaths = reached[N]
    BY DEF ListPublishedPaths
  <2> HIDE DEF Down, none
  <2>2. reached = ReachedIn(rows)
    BY <1>6 DEF ReachedIn, none
  <2> HIDE DEF reached
  <2> QED
    BY <2>1, <2>2
<1> QED
  BY <1>2, <1>3, <1>4, <1>5, <1>7

LEMMA AltsNow == \A refs : AltsOf(refs) = AltsIn(assets, refs)
BY DEF AltsOf, AltsIn

-----------------------------------------------------------------------------
(* A page that is being put together, or is cached: a view with nothing to  *)
(* do.                                                                     *)

Kept(body) == [NoView EXCEPT !.body = body]

Done(v, queries) == v.todo \cap queries = {}

RowRead(v) == Done(v, {"document"})

LinksRead(v) == Done(v, {"document", "ancestry", "translations"})

Gathered(v) == Done(v, {"document", "ancestry", "translations", "links", "rows", "total",
                        "media"})

OfAList(u) == u.kind \in {"archive", "feed"}

(* What a view has by then, of each kind of page. *)
DocumentShape(u, v) ==
  /\ v.todo \in {{"document"}, {"ancestry"}, {"translations"}, {"links", "media"},
                 {"media"}, {"response"}, {}}
  /\ v.body.entries = {} /\ v.body.pages = 0
  /\ RowRead(v) => v.body.row \in ShownRow
  /\ Done(v, {"document", "ancestry"}) => v.body.path = u.path
  /\ "links" \notin v.todo \/ u.type \notin HierarchicalTypes => v.siblings = {}

ListShape(u, v) ==
  /\ v.todo \in {{"rows", "total"}, {"rows"}, {"total"}, {"media"}, {"response"}, {}}
  /\ v.body.row = None /\ v.body.path = <<>> /\ v.body.links = {}
  /\ u.kind = "archive" => v.todo # {"media"} /\ v.body.alts = {}

SitemapShape(v) ==
  /\ v.todo \in {{"paths"}, {"response"}, {}}
  /\ v.body.row = None /\ v.body.path = <<>> /\ v.body.links = {}
  /\ v.body.pages = 0 /\ v.body.alts = {}

Shape(u, v) ==
  /\ u.kind = "document" => DocumentShape(u, v)
  /\ OfAList(u) => ListShape(u, v)
  /\ u.kind = "sitemap" => SitemapShape(v)

(* The tags a view carries by then. *)
AltsTagged(alts, tags) == \A alt \in alts : MediaTag(alt[1]) \in tags

Covers(u, v, tags) ==
  /\ u.kind = "document" /\ RowRead(v) =>
       {ContentTag(v.body.row.id), TranslationGroupTag(v.body.row.group)} \subseteq tags
  /\ OfAList(u) /\ Done(v, {"rows"}) => ContentListTag(u.type, u.locale) \in tags
  /\ u.kind \in {"document", "feed"} /\ Gathered(v) => AltsTagged(v.body.alts, tags)
  /\ u.kind = "sitemap" /\ Done(v, {"paths"}) => SitemapTags \subseteq tags

(* What it has by then is what the contents c and the assets a say. *)
RowRight(c, u, row) == row.id \in Found(c, u) /\ row = ShownIn(c, row.id)

LinksRight(c, u, v) ==
  LET others == Translated(c, v.body.row.group)
  IN IF u.type \in HierarchicalTypes
     THEN /\ {link.row : link \in v.body.links} \cup {s[2] : s \in v.siblings}
               = {ShownIn(c, e) : e \in others}
          /\ \A s \in v.siblings : s[1] \in others /\ s[2] = ShownIn(c, s[1])
     ELSE v.body.links = {EntryIn(c, e) : e \in others}

RefsIn(u, body) ==
  IF u.kind = "document" THEN body.row.refs ELSE UNION {e.row.refs : e \in body.entries}

TextRight(c, u, v) ==
  /\ u.kind = "document" /\ RowRead(v) => RowRight(c, u, v.body.row)
  /\ u.kind = "document" /\ LinksRead(v) => LinksRight(c, u, v)
  /\ OfAList(u) /\ Done(v, {"rows"}) => v.body.entries = {EntryIn(c, d) : d \in PageOf(c, u)}
  /\ OfAList(u) /\ Done(v, {"total"}) => v.body.pages = PageCount(Cardinality(Listed(c, u)))
  /\ u.kind = "sitemap" /\ Done(v, {"paths"}) => v.body.entries = SitemapIn(c)

AltsRight(a, u, v) ==
  u.kind \in {"document", "feed"} /\ Gathered(v) =>
    v.body.alts = AltsIn(a, RefsIn(u, v.body))

(* The tags whose purge may concern it: those it carries, and that of the   *)
(* list it is a page of, whose total may have been counted before.         *)
Concerns(u, tags) ==
  tags \cup (IF OfAList(u) THEN {ContentListTag(u.type, u.locale)} ELSE {})

-----------------------------------------------------------------------------
(* What a write of the contents may leave unsaid.                          *)

Announced(c, n, tags) ==
  \A e \in Docs :
    \/ n[e] = c[e]
    \/ ThereIn(c, e) /\ n[e] = [c[e] EXCEPT !.parent = None]
    \/ \A x \in {c, n} : ThereIn(x, e) => PurgeContent(e, x[e]) \subseteq tags

LEMMA Unsaid ==
  ASSUME NEW c \in Contents, NEW n \in Contents, NEW tags, Announced(c, n, tags),
         NEW x \in {c, n}, NEW e \in Docs, ThereIn(x, e), ~(PurgeContent(e, x[e]) \subseteq tags)
  PROVE  /\ ThereIn(c, e) /\ ThereIn(n, e)
         /\ n[e].type = c[e].type /\ n[e].locale = c[e].locale /\ n[e].group = c[e].group
         /\ n[e].slug = c[e].slug /\ n[e].date = c[e].date /\ n[e].status = c[e].status
         /\ ShownIn(n, e) = ShownIn(c, e)
         /\ c[e].type \notin HierarchicalTypes => EntryIn(n, e) = EntryIn(c, e)
<1>1. n[e] = c[e] \/ (ThereIn(c, e) /\ n[e] = [c[e] EXCEPT !.parent = None])
  BY DEF Announced
<1>2. ThereIn(c, e) /\ ThereIn(n, e)
  <2>1. CASE n[e] = c[e]
    BY <2>1 DEF ThereIn
  <2>2. CASE ThereIn(c, e) /\ n[e] = [c[e] EXCEPT !.parent = None]
    <3>1. c[e] \in RowSpace
      BY <2>2 DEF ThereIn, Contents
    <3>2. n[e] \in RowSpace
      BY <2>2, <3>1 DEF RowSpace
    <3> QED
      BY <2>2, <3>2, SiteAssumption DEF ThereIn
  <2> QED
    BY <1>1, <2>1, <2>2
<1>3. c[e] \in RowSpace
  BY <1>2 DEF ThereIn, Contents
<1>4. /\ n[e].type = c[e].type /\ n[e].locale = c[e].locale /\ n[e].group = c[e].group
      /\ n[e].slug = c[e].slug /\ n[e].date = c[e].date /\ n[e].status = c[e].status
      /\ n[e].title = c[e].title /\ n[e].refs = c[e].refs
  BY <1>1, <1>3 DEF RowSpace
<1>5. ShownIn(n, e) = ShownIn(c, e)
  BY <1>4 DEF ShownIn
<1>6. c[e].type \notin HierarchicalTypes => EntryIn(n, e) = EntryIn(c, e)
  BY <1>4, <1>5 DEF EntryIn, PathIn
<1> QED
  BY <1>2, <1>4, <1>5, <1>6

(* The queries whose tag is not purged return what they did. *)
LEMMA QueriesStay ==
  ASSUME NEW c \in Contents, NEW n \in Contents, NEW tags, Announced(c, n, tags)
  PROVE  /\ \A u, row : RowRight(c, u, row) /\ ContentTag(row.id) \notin tags =>
              RowRight(n, u, row)
         /\ \A g : TranslationGroupTag(g) \notin tags =>
              Translated(n, g) = Translated(c, g)
         /\ \A u : ContentListTag(u.type, u.locale) \notin tags =>
              Listed(n, u) = Listed(c, u) /\ PageOf(n, u) = PageOf(c, u)
<1>1. ASSUME NEW u, NEW row, RowRight(c, u, row), ContentTag(row.id) \notin tags
      PROVE  RowRight(n, u, row)
  <2>1. row.id \in Docs /\ ThereIn(c, row.id)
    BY <1>1 DEF RowRight, Found, VisibleIn
  <2>2. ~(PurgeContent(row.id, c[row.id]) \subseteq tags)
    BY <1>1 DEF PurgeContent
  <2> QED
    BY <1>1, <2>1, <2>2, Unsaid DEF RowRight, Found, VisibleIn
<1>2. ASSUME NEW g, TranslationGroupTag(g) \notin tags
      PROVE  Translated(n, g) = Translated(c, g)
  <2>1. \A x \in {c, n}, e \in Docs :
          ThereIn(x, e) /\ x[e].group = g => ~(PurgeContent(e, x[e]) \subseteq tags)
    BY <1>2 DEF PurgeContent
  <2>2. \A e \in Docs : e \in Translated(c, g) => e \in Translated(n, g)
    BY <2>1, Unsaid DEF Translated, VisibleIn
  <2>3. \A e \in Docs : e \in Translated(n, g) => e \in Translated(c, g)
    BY <2>1, Unsaid DEF Translated, VisibleIn
  <2> QED
    BY <2>2, <2>3 DEF Translated
<1>3. ASSUME NEW u, ContentListTag(u.type, u.locale) \notin tags
      PROVE  Listed(n, u) = Listed(c, u) /\ PageOf(n, u) = PageOf(c, u)
  <2>1. \A x \in {c, n}, e \in Docs :
          ThereIn(x, e) /\ x[e].type = u.type /\ x[e].locale = u.locale
            => ~(PurgeContent(e, x[e]) \subseteq tags)
    BY <1>3 DEF PurgeContent
  <2>2. \A e \in Docs : e \in Listed(c, u) => e \in Listed(n, u) /\ n[e].date = c[e].date
    BY <2>1, Unsaid DEF Listed, VisibleIn
  <2>3. \A e \in Docs : e \in Listed(n, u) => e \in Listed(c, u)
    BY <2>1, Unsaid DEF Listed, VisibleIn
  <2>4. Listed(n, u) = Listed(c, u)
    BY <2>2, <2>3 DEF Listed
  <2>5. \A d \in Listed(c, u) : Before(n, u, d) = Before(c, u, d)
    <3>1. \A d \in Listed(c, u) : d \in Docs
      BY DEF Listed
    <3> QED
      BY <2>2, <2>4, <3>1 DEF Before
  <2>6. PageOf(n, u) = PageOf(c, u)
    BY <2>4, <2>5 DEF PageOf
  <2> QED
    BY <2>4, <2>6
<1> QED
  BY <1>1, <1>2, <1>3

(* A write whose purge does not concern a view leaves it right. *)
LEMMA TextStays ==
  ASSUME NEW c \in Contents, NEW n \in Contents, WellFormed(c), NEW changed,
         Announced(c, n, changed), changed \cap SitemapTags # {},
         NEW u \in Keys, NEW v, NEW tags, Covers(u, v, tags),
         Concerns(u, tags) \cap changed = {}, TextRight(c, u, v)
  PROVE  TextRight(n, u, v)
<1>1. tags \cap changed = {} /\ (OfAList(u) => ContentListTag(u.type, u.locale) \notin changed)
  BY DEF Concerns
<1>2. ASSUME u.kind = "document", RowRead(v)
      PROVE  RowRight(n, u, v.body.row)
  <2>1. ContentTag(v.body.row.id) \notin changed /\ RowRight(c, u, v.body.row)
    BY <1>1, <1>2 DEF Covers, TextRight
  <2> QED
    BY <2>1, QueriesStay
<1>3. ASSUME u.kind = "document", LinksRead(v)
      PROVE  LinksRight(n, u, v)
  <2> DEFINE g == v.body.row.group
             d == v.body.row.id
             others == Translated(c, g)
  <2>1. RowRead(v)
    BY <1>3 DEF LinksRead, RowRead, Done
  <2>2. TranslationGroupTag(g) \notin changed
    BY <1>1, <1>3, <2>1 DEF Covers
  <2>3. Translated(n, g) = others
    BY <2>2, QueriesStay
  <2>4. \A e \in others : /\ e \in Docs /\ ThereIn(c, e) /\ c[e].group = g
                          /\ ~(PurgeContent(e, c[e]) \subseteq changed)
    BY <2>2 DEF Translated, VisibleIn, PurgeContent
  <2>5. \A e \in others : /\ ShownIn(n, e) = ShownIn(c, e)
                          /\ c[e].type \notin HierarchicalTypes => EntryIn(n, e) = EntryIn(c, e)
    BY <2>4, Unsaid
  <2>6. LinksRight(c, u, v) /\ RowRight(c, u, v.body.row)
    BY <1>3, <2>1 DEF TextRight
  <2>7. CASE u.type \in HierarchicalTypes
    <3>1. {ShownIn(n, e) : e \in others} = {ShownIn(c, e) : e \in others}
      BY <2>5
    <3> HIDE DEF others
    <3>2. /\ {link.row : link \in v.body.links} \cup {s[2] : s \in v.siblings}
               = {ShownIn(c, e) : e \in others}
          /\ \A s \in v.siblings : s[1] \in others /\ s[2] = ShownIn(c, s[1])
      BY <2>6, <2>7 DEF LinksRight, others
    <3>3. \A s \in v.siblings : s[1] \in others /\ s[2] = ShownIn(n, s[1])
      BY <2>5, <3>2
    <3> QED
      BY <2>3, <2>7, <3>1, <3>2, <3>3 DEF LinksRight
  <2>8. CASE u.type \notin HierarchicalTypes
    <3>1. d \in Docs /\ ThereIn(c, d) /\ c[d].type = u.type /\ c[d].group = g
      BY <2>6 DEF RowRight, Found, VisibleIn, ShownIn
    <3>2. \A e \in others : c[e].type = u.type
      BY <2>4, <3>1, WellFormedIs
    <3>3. {EntryIn(n, e) : e \in others} = {EntryIn(c, e) : e \in others}
      BY <2>5, <2>8, <3>2
    <3> HIDE DEF others
    <3>4. v.body.links = {EntryIn(c, e) : e \in others}
      BY <2>6, <2>8 DEF LinksRight, others
    <3> QED
      BY <2>3, <2>8, <3>3, <3>4 DEF LinksRight
  <2> QED
    BY <2>7, <2>8
<1>4. ASSUME OfAList(u)
      PROVE  /\ Done(v, {"rows"}) => v.body.entries = {EntryIn(n, d) : d \in PageOf(n, u)}
             /\ Done(v, {"total"}) => v.body.pages = PageCount(Cardinality(Listed(n, u)))
  <2>1. Listed(n, u) = Listed(c, u) /\ PageOf(n, u) = PageOf(c, u)
    BY <1>1, <1>4, QueriesStay
  <2>2. u.type \notin HierarchicalTypes
    BY <1>4, SiteAssumption DEF OfAList, IsRoute
  <2>3. \A d \in PageOf(c, u) : EntryIn(n, d) = EntryIn(c, d)
    <3> SUFFICES ASSUME NEW d \in PageOf(c, u) PROVE EntryIn(n, d) = EntryIn(c, d)
      OBVIOUS
    <3>1. d \in Docs /\ ThereIn(c, d) /\ c[d].type = u.type /\ c[d].locale = u.locale
      BY DEF PageOf, Listed, VisibleIn
    <3>2. ~(PurgeContent(d, c[d]) \subseteq changed)
      BY <1>1, <1>4, <3>1 DEF PurgeContent
    <3> QED
      BY <2>2, <3>1, <3>2, Unsaid
  <2>4. {EntryIn(n, d) : d \in PageOf(n, u)} = {EntryIn(c, d) : d \in PageOf(c, u)}
    BY <2>1, <2>3
  <2> QED
    BY <1>4, <2>1, <2>4 DEF TextRight
<1>5. ASSUME u.kind = "sitemap"
      PROVE  ~Done(v, {"paths"})
  BY <1>1, <1>5 DEF Covers
<1> QED
  BY <1>2, <1>3, <1>4, <1>5 DEF TextRight

LEMMA AltsStay ==
  ASSUME NEW a \in [Media -> Nat \cup {Absent}], NEW m \in Media, a[m] # Absent,
         NEW alt, NEW n, n = [a EXCEPT ![m] = alt],
         NEW u, NEW v, NEW tags, Covers(u, v, tags), MediaTag(m) \notin tags,
         RefsIn(u, v.body) \subseteq Media, AltsRight(a, u, v)
  PROVE  AltsRight(n, u, v)
<1> SUFFICES ASSUME u.kind \in {"document", "feed"}, Gathered(v)
             PROVE  AltsIn(n, RefsIn(u, v.body)) = AltsIn(a, RefsIn(u, v.body))
  BY DEF AltsRight
<1> DEFINE refs == RefsIn(u, v.body)
<1>1. v.body.alts = AltsIn(a, refs) /\ AltsTagged(v.body.alts, tags)
  BY DEF AltsRight, Covers
<1>2. m \notin refs
  <2>1. ASSUME m \in refs PROVE FALSE
    <3>1. <<m, a[m]>> \in v.body.alts
      BY <1>1, <2>1 DEF AltsIn
    <3> QED
      BY <1>1, <3>1 DEF AltsTagged
  <2> QED
    BY <2>1
<1>3. \A x \in refs : n[x] = a[x]
  BY <1>2
<1> HIDE DEF refs
<1>4. AltsIn(n, refs) = AltsIn(a, refs)
  BY <1>3 DEF AltsIn
<1> QED
  BY <1>4 DEF refs

-----------------------------------------------------------------------------
(* Types of what is gathered.                                              *)

LEMMA SlugsOnly ==
  ASSUME NEW c \in Contents, NEW d \in Docs, ThereIn(c, d)
  PROVE  PathIn(c, d) \in Seq(Given("slug"))
<1> DEFINE N == MAX_ANCESTRY_DEPTH
           S == {k \in 0..N : \A e \in Docs :
                   ThereIn(c, e) => ClimbIn(c)[k][e].slugs \in Seq(Given("slug"))}
           climb == ClimbIn(c)
<1>1. N \in Nat /\ N \in 0..N
  BY SiteAssumption
<1>2. climb[0] = Lost
  BY ClimbLevels
<1>3. 0 \in S
  <2>1. \A e \in Docs : climb[0][e].slugs = <<>>
    BY <1>2 DEF Lost
  <2> DEFINE start == <<>>
  <2>2. start \in Seq(Given("slug")) /\ 0 \in 0..N
    BY <1>1
  <2>3. \A e \in Docs : climb[0][e].slugs = start
    BY <2>1
  <2> HIDE DEF start, climb
  <2>4. \A e \in Docs : climb[0][e].slugs \in Seq(Given("slug"))
    BY <2>2, <2>3
  <2> QED
    BY <2>2, <2>4 DEF climb
<1>4. ASSUME NEW k \in 1..N, k - 1 \in S
      PROVE  k \in S
  <2> SUFFICES ASSUME NEW e \in Docs, ThereIn(c, e)
               PROVE  climb[k][e].slugs \in Seq(Given("slug"))
    BY <1>1
  <2>1. climb[k] = Climbs(c, climb[k - 1]) /\ climb[k - 1] \in [Docs -> Walks(c)]
    BY <1>1, ClimbLevels
  <2>2. c[e].slug \in Given("slug") /\ c[e].parent \in Docs \cup {None}
    BY DEF ThereIn, Contents, RowSpace
  <2> DEFINE p == c[e].parent
             b == climb[k - 1][p]
  <2>3. CASE p # None /\ AlikeIn(c, p, e)
    <3>1. p \in Docs /\ ThereIn(c, p)
      BY <2>2, <2>3 DEF AlikeIn
    <3>2. b.slugs \in Seq(Given("slug")) /\ b \in Walks(c)
      BY <1>4, <2>1, <3>1
    <3>3. climb[k][e] = [b EXCEPT !.slugs = Append(@, c[e].slug)]
      BY <2>1, <2>3 DEF Climbs
    <3>4. climb[k][e].slugs = Append(b.slugs, c[e].slug)
      BY <3>2, <3>3 DEF Walks
    <3>5. Append(b.slugs, c[e].slug) \in Seq(Given("slug"))
      BY <2>2, <3>2
    <3> QED
      BY <3>4, <3>5
  <2>4. CASE ~(p # None /\ AlikeIn(c, p, e))
    <3>1. climb[k][e] = [slugs |-> <<c[e].slug>>, complete |-> c[e].parent = None]
      BY <2>1, <2>4 DEF Climbs
    <3>2. climb[k][e].slugs = <<c[e].slug>>
      BY <3>1
    <3>3. <<c[e].slug>> \in Seq(Given("slug"))
      BY <2>2
    <3> QED
      BY <3>2, <3>3
  <2> QED
    BY <2>3, <2>4
<1> HIDE DEF S
<1>5. N \in S
  BY <1>1, <1>3, <1>4, EveryLevel
<1>6. AncestryIn(c, d).slugs \in Seq(Given("slug"))
  BY <1>5 DEF AncestryIn, S
<1>7. <<c[d].slug>> \in Seq(Given("slug"))
  BY DEF ThereIn, Contents, RowSpace
<1>8. PathIn(c, d) = AncestryIn(c, d).slugs \/ PathIn(c, d) = <<c[d].slug>>
  BY DEF PathIn
<1> QED
  BY <1>6, <1>7, <1>8

LEMMA EntryTyped ==
  ASSUME NEW c \in Contents, NEW d \in Docs, ThereIn(c, d)
  PROVE  /\ ShownIn(c, d) \in ShownRow
         /\ EntryIn(c, d) \in EntryOfPage
         /\ EntryIn(c, d).row = ShownIn(c, d)
<1>1. c[d] \in RowSpace
  BY DEF ThereIn, Contents
<1>2. ShownIn(c, d) \in ShownRow
  BY <1>1 DEF ShownIn, ShownRow, RowSpace
<1>3. PathIn(c, d) \in Seq(Given("slug")) /\ c[d].type \in Types /\ c[d].locale \in Locales
  BY <1>1, SlugsOnly DEF RowSpace
<1>4. EntryIn(c, d) \in EntryOfPage
  BY <1>2, <1>3 DEF EntryIn, EntryOfPage
<1> QED
  BY <1>2, <1>4 DEF EntryIn

LEMMA QueriesTyped ==
  ASSUME NEW c \in Contents
  PROVE  /\ \A u : PageOf(c, u) \subseteq Listed(c, u)
         /\ \A u : \A d \in Listed(c, u) : d \in Docs /\ ThereIn(c, d)
         /\ \A u : \A d \in Found(c, u) : d \in Docs /\ ThereIn(c, d)
         /\ \A g : \A d \in Translated(c, g) : d \in Docs /\ ThereIn(c, d)
         /\ \A d \in ReachedIn(c)[MAX_ANCESTRY_DEPTH] : d \in Docs /\ VisibleIn(c, d)
         /\ \A u : Cardinality(Listed(c, u)) \in Nat
<1>1. MAX_ANCESTRY_DEPTH \in 1..MAX_ANCESTRY_DEPTH
  BY SiteAssumption
<1>2. \A d \in ReachedIn(c)[MAX_ANCESTRY_DEPTH] : d \in Docs /\ VisibleIn(c, d)
  BY <1>1, ReachedLevels DEF Reaches
<1>3. ASSUME NEW u PROVE Cardinality(Listed(c, u)) \in Nat
  <2>1. Listed(c, u) \subseteq Docs
    BY DEF Listed
  <2> QED
    BY <2>1, SiteAssumption, FS_Subset, FS_CardinalityType
<1> QED
  BY <1>2, <1>3 DEF PageOf, Listed, Found, Translated, VisibleIn

LEMMA PagesCount ==
  ASSUME NEW total \in Nat
  PROVE  PageCount(total) \in Nat /\ PageCount(total) >= 1
BY SiteAssumption DEF PageCount

-----------------------------------------------------------------------------
(* The stages of a render.                                                 *)

Queries == {"document", "ancestry", "translations", "links", "media", "rows", "total",
            "paths", "response"}

ViewSpace == [todo: SUBSET Queries, doc: Docs \cup {None},
              siblings: SUBSET (Docs \X ShownRow), body: PageBodies]

DatabaseOK ==
  /\ rows \in Contents /\ WellFormed(rows)
  /\ assets \in [Media -> Nat \cup {Absent}]

SiteTypeOK ==
  /\ CacheTypeOK
  /\ rows \in Contents /\ WellFormed(rows)
  /\ assets \in [Media -> Nat \cup {Absent}]
  /\ view \in [Requests -> ViewSpace]

LEMMA Stages ==
  ASSUME NEW u \in Keys, NEW v, Shape(u, v)
  PROVE  /\ u.kind \in {"document", "archive", "feed", "sitemap"}
         /\ "document" \in v.todo => u.kind = "document" /\ v.todo = {"document"}
         /\ "ancestry" \in v.todo => u.kind = "document" /\ v.todo = {"ancestry"}
         /\ "translations" \in v.todo => u.kind = "document" /\ v.todo = {"translations"}
         /\ "links" \in v.todo => u.kind = "document" /\ v.todo = {"links", "media"}
         /\ "rows" \in v.todo => OfAList(u) /\ v.todo \in {{"rows"}, {"rows", "total"}}
         /\ "total" \in v.todo => OfAList(u) /\ v.todo \in {{"total"}, {"rows", "total"}}
         /\ "paths" \in v.todo => u.kind = "sitemap" /\ v.todo = {"paths"}
         /\ v.todo = {"media"} => u.kind \in {"document", "feed"}
<1>1. u.kind \in {"document", "archive", "feed", "sitemap"}
  BY SiteAssumption DEF IsRoute
<1>2. CASE u.kind = "document"
  BY <1>1, <1>2 DEF Shape, DocumentShape
<1>3. CASE OfAList(u)
  BY <1>1, <1>3 DEF Shape, ListShape, OfAList
<1>4. CASE u.kind = "sitemap"
  BY <1>1, <1>4 DEF Shape, SitemapShape
<1> QED
  BY <1>1, <1>2, <1>3, <1>4 DEF OfAList

-----------------------------------------------------------------------------
(* The inductive invariant.                                                *)

Right(u, v) == TextRight(rows, u, v) /\ AltsRight(assets, u, v)

(* What is in hand fits its page, and its tags name what it shows. *)
Fits(u, v, tags) == v \in ViewSpace /\ Shape(u, v) /\ Covers(u, v, tags)

RendersFit ==
  \A r \in Requests : Rendering(r) => Fits(Url(r), view[r], request[r].tags)

PagesFit(s) ==
  \A k \in Keys : Cached(s, k) =>
    /\ Fits(k, Kept(s.page[k].body), s.page[k].tags)
    /\ k.kind = "archive" => k.number <= s.page[k].body.pages

(* What a render has in hand is right, or a purge that concerns it is due,  *)
(* or has come and bars it.                                                *)
Excused(s, excused, q) ==
  \E t \in Concerns(q.key, q.tags) : t \in excused \/ Barred(s, q, t)

RendersRight(s, excused) ==
  \A r \in Requests : Rendering(r) =>
    Right(Url(r), view[r]) \/ Excused(s, excused, request[r])

PagesRight(s, excused) ==
  \A k \in Keys : Cached(s, k) =>
    Right(k, Kept(s.page[k].body)) \/ s.page[k].tags \cap excused # {}

SiteInv ==
  /\ SiteTypeOK /\ CacheInv
  /\ RendersFit /\ PagesFit(valkey) /\ PagesFit(saved)
  /\ RendersRight(valkey, Due) /\ RendersRight(saved, Due \cup unsaved)
  /\ PagesRight(valkey, Due) /\ PagesRight(saved, Due \cup unsaved)

-----------------------------------------------------------------------------
(* The steps of a render.                                                  *)

GoesOn(r) ==
  \E tags \in SUBSET Tags, n \in ViewSpace :
    /\ Gathers(r, tags, n)
    /\ Fits(Url(r), n, request[r].tags \cup tags)
    /\ Right(Url(r), view[r]) => Right(Url(r), n)

LEMMA ViewFields ==
  ASSUME NEW v \in ViewSpace
  PROVE  /\ v.todo \in SUBSET Queries /\ v.doc \in Docs \cup {None}
         /\ v.siblings \in SUBSET (Docs \X ShownRow) /\ v.body \in PageBodies
         /\ v.body.row \in ShownRow \cup {None}
         /\ v.body.links \in SUBSET EntryOfPage /\ v.body.entries \in SUBSET EntryOfPage
         /\ v.body.pages \in Nat /\ v.body.alts \in SUBSET (Media \X Nat)
BY DEF ViewSpace, PageBodies

LEMMA NoViewTyped == Body \in PageBodies /\ NoView \in ViewSpace
<1> DEFINE start == <<>>
<1>1. start \in Seq(Given("slug"))
  OBVIOUS
<1>2. Body = [row |-> None, path |-> start, links |-> {}, entries |-> {}, pages |-> 0,
              alts |-> {}]
  BY DEF Body
<1> HIDE DEF start
<1>3. Body \in PageBodies
  BY <1>1, <1>2 DEF PageBodies
<1> HIDE DEF Body
<1> QED
  BY <1>3 DEF NoView, ViewSpace

LEMMA TagsAreTags ==
  ASSUME NEW c \in Contents
  PROVE  /\ \A d \in Docs : ThereIn(c, d) =>
              {ContentTag(d), TranslationGroupTag(c[d].group),
               ContentListTag(c[d].type, c[d].locale)} \subseteq Tags
         /\ \A m \in Media : MediaTag(m) \in Tags
         /\ \A d \in Docs : ContentTag(d) \in Tags
         /\ \A g \in Groups : TranslationGroupTag(g) \in Tags
         /\ SitemapTags \subseteq Tags
<1>1. EveryTag \subseteq Tags
  BY SiteAssumption
<1>2. \A d \in Docs : ThereIn(c, d) => c[d] \in RowSpace
  BY DEF ThereIn, Contents
<1>3. \A d \in Docs : ThereIn(c, d) =>
        c[d].group \in Groups /\ c[d].type \in Types /\ c[d].locale \in Locales
  BY <1>2 DEF RowSpace
<1> QED
  BY <1>1, <1>3 DEF EveryTag, SitemapTags

LEMMA RenderOf ==
  ASSUME SiteTypeOK, NEW r \in Requests, Rendering(r)
  PROVE  /\ Url(r) \in Keys /\ request[r].tags \in SUBSET Tags /\ request[r].at \in Nat
         /\ view[r] \in ViewSpace /\ rows \in Contents /\ WellFormed(rows) /\ clock \in Nat
         /\ request[r] \in Render
BY RenderFields DEF SiteTypeOK, CacheTypeOK, Render, Url

LEMMA LoadDocumentGoes ==
  ASSUME NoneAhead, SiteTypeOK, NEW r \in Requests, Rendering(r),
         Fits(Url(r), view[r], request[r].tags), LoadDocument(r)
  PROVE  GoesOn(r) \/ GiveUp(r)
<1> DEFINE u == Url(r)
           v == view[r]
           old == request[r].tags
<1>1. /\ u \in Keys /\ v \in ViewSpace /\ rows \in Contents /\ clock \in Nat
      /\ Shape(u, v) /\ Covers(u, v, old)
  BY RenderOf DEF Fits
<1>2. u.kind = "document" /\ v.todo = {"document"}
  BY <1>1, Stages DEF LoadDocument, Todo
<1>3. CASE GiveUp(r)
  BY <1>3
<1>4. CASE \E d \in FindPublishedBySlug(u) :
             Gathers(r, {ContentTag(d), TranslationGroupTag(rows[d].group)},
                     [v EXCEPT !.todo = {"ancestry"}, !.doc = d, !.body.row = Shown(d)])
  <2>1. PICK d \in FindPublishedBySlug(u) :
          Gathers(r, {ContentTag(d), TranslationGroupTag(rows[d].group)},
                  [v EXCEPT !.todo = {"ancestry"}, !.doc = d, !.body.row = Shown(d)])
    BY <1>4
  <2>2. d \in Found(rows, u) /\ d \in Docs /\ ThereIn(rows, d) /\ Shown(d) = ShownIn(rows, d)
    BY <1>1, QueriesNow, QueriesTyped, RowsNow
  <2> DEFINE tags == {ContentTag(d), TranslationGroupTag(rows[d].group)}
             row == ShownIn(rows, d)
             n == [v EXCEPT !.todo = {"ancestry"}, !.doc = d, !.body.row = row]
  <2>3. tags \in SUBSET Tags
    BY <1>1, <2>2, TagsAreTags
  <2>4. row \in ShownRow /\ row.id = d /\ row.group = rows[d].group
    BY <1>1, <2>2, EntryTyped DEF ShownIn
  <2> HIDE DEF row
  <2>5. /\ n \in ViewSpace /\ n.todo = {"ancestry"} /\ n.siblings = v.siblings
        /\ n.body.row = row /\ n.body.entries = v.body.entries /\ n.body.pages = v.body.pages
    BY <1>1, <2>2, <2>4 DEF ViewSpace, PageBodies, Queries
  <2>6. Gathers(r, tags, n)
    BY <2>1, <2>2 DEF row
  <2> HIDE DEF n, tags
  <2>7. Shape(u, n)
    BY <1>1, <1>2, <2>4, <2>5 DEF Shape, DocumentShape, OfAList, Done, RowRead
  <2>8. Covers(u, n, old \cup tags)
    BY <1>2, <2>4, <2>5 DEF Covers, OfAList, Gathered, Done, tags
  <2>9. Right(u, n)
    BY <1>2, <2>2, <2>4, <2>5
       DEF Right, TextRight, AltsRight, RowRight, LinksRead, Gathered, OfAList, Done, row
  <2> QED
    BY <2>3, <2>5, <2>6, <2>7, <2>8, <2>9 DEF GoesOn, Fits
<1> QED
  BY <1>3, <1>4 DEF LoadDocument

LEMMA LoadAncestryGoes ==
  ASSUME NoneAhead, SiteTypeOK, NEW r \in Requests, Rendering(r),
         Fits(Url(r), view[r], request[r].tags), LoadAncestry(r)
  PROVE  GoesOn(r) \/ GiveUp(r)
<1> DEFINE u == Url(r)
           v == view[r]
           old == request[r].tags
           n == [v EXCEPT !.todo = {"translations"}, !.body.path = u.path]
           tags == {}
<1>1. /\ u \in Keys /\ v \in ViewSpace /\ Shape(u, v) /\ Covers(u, v, old)
  BY RenderOf DEF Fits
<1>2. u.kind = "document" /\ v.todo = {"ancestry"}
  BY <1>1, Stages DEF LoadAncestry, Todo
<1>3. CASE GiveUp(r)
  BY <1>3
<1>4. CASE Gathers(r, tags, n)
  <2>1. /\ n \in ViewSpace /\ n.todo = {"translations"} /\ n.siblings = v.siblings
        /\ n.body.row = v.body.row /\ n.body.entries = v.body.entries
        /\ n.body.pages = v.body.pages /\ n.body.path = u.path
    <3>1. u.path \in Seq(Given("slug")) \cup {k.path : k \in {j \in Keys : j.kind = "document"}}
      BY <1>1, <1>2
    <3> DEFINE path == u.path
    <3> HIDE DEF path
    <3>2. path \in Seq(Given("slug")) \cup {k.path : k \in {j \in Keys : j.kind = "document"}}
      BY <3>1 DEF path
    <3>3. v.body \in PageBodies /\ v.todo \in SUBSET Queries
      BY <1>1 DEF ViewSpace
    <3>4. [v.body EXCEPT !.path = path] \in PageBodies
      BY <3>2, <3>3 DEF PageBodies
    <3>5. n = [v EXCEPT !.todo = {"translations"}, !.body = [v.body EXCEPT !.path = path]]
      BY <1>1 DEF ViewSpace, path
    <3> QED
      BY <1>1, <3>3, <3>4, <3>5 DEF ViewSpace, PageBodies, Queries, path
  <2>2. Shape(u, n)
    BY <1>1, <1>2, <2>1 DEF Shape, DocumentShape, OfAList, Done, RowRead
  <2>3. Covers(u, n, old \cup tags)
    BY <1>1, <1>2, <2>1 DEF Covers, OfAList, Gathered, Done, RowRead
  <2>4. Right(u, v) => Right(u, n)
    BY <1>2, <2>1 DEF Right, TextRight, AltsRight, LinksRead, RowRead, Gathered, OfAList, Done
  <2>5. tags \in SUBSET Tags
    OBVIOUS
  <2> HIDE DEF n, tags
  <2> QED
    BY <1>4, <2>1, <2>2, <2>3, <2>4, <2>5 DEF GoesOn, Fits
<1> QED
  BY <1>3, <1>4 DEF LoadAncestry

LEMMA LoadTranslationsGoes ==
  ASSUME NoneAhead, SiteTypeOK, NEW r \in Requests, Rendering(r),
         Fits(Url(r), view[r], request[r].tags), LoadTranslations(r)
  PROVE  GoesOn(r)
<1> DEFINE u == Url(r)
           v == view[r]
           old == request[r].tags
           g == v.body.row.group
           others == Translated(rows, g)
           nests == u.type \in HierarchicalTypes
           none == {}
           shown == {<<d, ShownIn(rows, d)>> : d \in others}
           entries == {EntryIn(rows, d) : d \in others}
           links == IF nests THEN none ELSE entries
           siblings == IF nests THEN shown ELSE none
           n == [v EXCEPT !.todo = {"links", "media"}, !.body.links = links,
                          !.siblings = siblings]
           tags == {TranslationGroupTag(g)} \cup {ContentTag(d) : d \in others}
<1>1. /\ u \in Keys /\ v \in ViewSpace /\ rows \in Contents /\ WellFormed(rows)
      /\ clock \in Nat /\ Shape(u, v) /\ Covers(u, v, old)
  BY RenderOf DEF Fits
<1>2. u.kind = "document" /\ v.todo = {"translations"}
  BY <1>1, Stages DEF LoadTranslations, Todo
<1>3. v.body.row \in ShownRow /\ g \in Groups
  <2>1. v.body.row \in ShownRow
    BY <1>1, <1>2 DEF Shape, DocumentShape, RowRead, Done
  <2> QED
    BY <2>1 DEF ShownRow
<1>4. ListPublishedTranslations(g) = others /\ \A d \in others : d \in Docs /\ ThereIn(rows, d)
  BY <1>1, QueriesNow, QueriesTyped
<1>5. \A d \in others : /\ Resolves(d) /\ Entry(d) = EntryIn(rows, d)
                        /\ Shown(d) = ShownIn(rows, d)
  BY <1>1, <1>4, RowsNow, WellFormedResolves DEF ResolvesIn
<1>6. LinksOf(others) = entries /\ {<<d, Shown(d)>> : d \in others} = shown
  <2> HIDE DEF others
  <2> QED
    BY <1>5 DEF LinksOf
<1>7. Gathers(r, tags, n)
  BY <1>4, <1>6 DEF LoadTranslations
<1>8. \A d \in others : EntryIn(rows, d) \in EntryOfPage /\ ShownIn(rows, d) \in ShownRow
  BY <1>1, <1>4, EntryTyped
<1>9. links \in SUBSET EntryOfPage /\ siblings \in SUBSET (Docs \X ShownRow)
  <2> HIDE DEF others
  <2> QED
    BY <1>4, <1>8
<1>10. tags \in SUBSET Tags
  BY <1>1, <1>3, <1>4, TagsAreTags
<1>11. /\ u.type \notin HierarchicalTypes => links = entries /\ siblings = none
       /\ u.type \in HierarchicalTypes => links = none /\ siblings = shown
  OBVIOUS
<1> HIDE DEF links, siblings
<1>12. /\ n \in ViewSpace /\ n.todo = {"links", "media"} /\ n.siblings = siblings
       /\ n.body.row = v.body.row /\ n.body.entries = v.body.entries
       /\ n.body.pages = v.body.pages /\ n.body.path = v.body.path /\ n.body.links = links
  BY <1>1, <1>9 DEF ViewSpace, PageBodies, Queries
<1> HIDE DEF n, tags
<1>13. Shape(u, n)
  BY <1>1, <1>2, <1>3, <1>11, <1>12 DEF Shape, DocumentShape, OfAList, Done, RowRead, none
<1>14. Covers(u, n, old \cup tags)
  BY <1>1, <1>2, <1>12 DEF Covers, OfAList, Gathered, Done, RowRead
<1>15. LinksRight(rows, u, n)
  <2>1. CASE nests
    <3>1. {link.row : link \in none} \cup {s[2] : s \in shown} = {ShownIn(rows, e) : e \in others}
      <4> HIDE DEF others
      <4>1. {link.row : link \in none} = {}
        OBVIOUS
      <4>2. \A e \in others : ShownIn(rows, e) \in {s[2] : s \in shown}
        <5> SUFFICES ASSUME NEW e \in others PROVE ShownIn(rows, e) \in {s[2] : s \in shown}
          OBVIOUS
        <5>1. <<e, ShownIn(rows, e)>> \in shown /\ <<e, ShownIn(rows, e)>>[2] = ShownIn(rows, e)
          OBVIOUS
        <5> HIDE DEF shown
        <5> QED
          BY <5>1
      <4>3. \A s \in shown : s[2] \in {ShownIn(rows, e) : e \in others}
        OBVIOUS
      <4> HIDE DEF shown
      <4> QED
        BY <4>1, <4>2, <4>3
    <3>2. \A s \in shown : s[1] \in others /\ s[2] = ShownIn(rows, s[1])
      <4> HIDE DEF others
      <4> QED
        OBVIOUS
    <3> HIDE DEF shown, none
    <3> QED
      BY <1>11, <1>12, <2>1, <3>1, <3>2 DEF LinksRight
  <2>2. CASE ~nests
    BY <1>11, <1>12, <2>2 DEF LinksRight
  <2> QED
    BY <2>1, <2>2
<1>16. Right(u, v) => Right(u, n)
  BY <1>2, <1>12, <1>15 DEF Right, TextRight, AltsRight, RowRead, Gathered, OfAList, Done
<1> QED
  BY <1>7, <1>10, <1>12, <1>13, <1>14, <1>16 DEF GoesOn, Fits

LEMMA ResolveSiblingGoes ==
  ASSUME NoneAhead, SiteTypeOK, NEW r \in Requests, Rendering(r),
         Fits(Url(r), view[r], request[r].tags), ResolveSibling(r)
  PROVE  GoesOn(r)
<1> DEFINE u == Url(r)
           v == view[r]
           old == request[r].tags
           tags == {}
<1>1. /\ u \in Keys /\ v \in ViewSpace /\ rows \in Contents /\ WellFormed(rows)
      /\ clock \in Nat /\ Shape(u, v) /\ Covers(u, v, old)
  BY RenderOf DEF Fits
<1>2. u.kind = "document" /\ v.todo = {"links", "media"}
  BY <1>1, Stages DEF ResolveSibling, Todo
<1>3. v.body.row \in ShownRow /\ DocumentShape(u, v)
  BY <1>1, <1>2 DEF Shape, DocumentShape, RowRead, Done
<1>4. tags \in SUBSET Tags
  OBVIOUS
<1>5. CASE v.siblings = {} /\ Gathers(r, {}, [v EXCEPT !.todo = @ \ {"links"}])
  <2> DEFINE n == [v EXCEPT !.todo = @ \ {"links"}]
  <2>1. n \in ViewSpace /\ n.todo = {"media"} /\ n.siblings = v.siblings /\ n.body = v.body
    BY <1>1, <1>2 DEF ViewSpace, Queries
  <2>2. Gathers(r, tags, n)
    BY <1>5
  <2> HIDE DEF n
  <2>3. Shape(u, n)
    BY <1>2, <1>3, <1>5, <2>1 DEF Shape, DocumentShape, OfAList, Done, RowRead
  <2>4. Covers(u, n, old \cup tags)
    BY <1>1, <1>2, <2>1 DEF Covers, OfAList, Gathered, Done, RowRead
  <2>5. Right(u, v) => Right(u, n)
    BY <1>2, <2>1
       DEF Right, TextRight, AltsRight, LinksRead, LinksRight, RowRead, Gathered, OfAList, Done
  <2> QED
    BY <1>4, <2>1, <2>2, <2>3, <2>4, <2>5 DEF GoesOn, Fits
<1>6. CASE \E s \in v.siblings :
             LET link == IF Resolves(s[1])
                         THEN {[row |-> s[2], url |-> DocumentUrl(s[1])]} ELSE {}
             IN Gathers(r, {}, [v EXCEPT !.siblings = @ \ {s}, !.body.links = @ \cup link])
  <2>1. PICK s \in v.siblings :
          LET link == IF Resolves(s[1])
                      THEN {[row |-> s[2], url |-> DocumentUrl(s[1])]} ELSE {}
          IN Gathers(r, {}, [v EXCEPT !.siblings = @ \ {s}, !.body.links = @ \cup link])
    BY <1>6
  <2>2. u.type \in HierarchicalTypes
    BY <1>3, <2>1 DEF DocumentShape
  <2>3. s[1] \in Docs /\ s[2] \in ShownRow /\ v.siblings \in SUBSET (Docs \X ShownRow)
    BY <1>1 DEF ViewSpace
  <2> DEFINE entry == [row |-> s[2], url |-> DocumentUrl(s[1])]
             link == IF Resolves(s[1]) THEN {entry} ELSE {}
             n == [v EXCEPT !.siblings = @ \ {s}, !.body.links = @ \cup link]
  <2>4. Gathers(r, tags, n)
    BY <2>1
  <2>5. ASSUME Resolves(s[1])
        PROVE  entry \in EntryOfPage
    <3>1. ThereIn(rows, s[1]) /\ DocumentUrl(s[1]) = EntryIn(rows, s[1]).url
      BY <2>5, RowsNow DEF ResolvesIn
    <3>2. EntryIn(rows, s[1]) \in EntryOfPage
      BY <1>1, <2>3, <3>1, EntryTyped
    <3> QED
      BY <2>3, <3>1, <3>2 DEF EntryOfPage
  <2>6. link \in SUBSET EntryOfPage
    BY <2>5
  <2> HIDE DEF link, entry
  <2>7. /\ n \in ViewSpace /\ n.todo = v.todo /\ n.siblings = v.siblings \ {s}
        /\ n.body.row = v.body.row /\ n.body.entries = v.body.entries
        /\ n.body.pages = v.body.pages /\ n.body.path = v.body.path
        /\ n.body.links = v.body.links \cup link
    <3>1. v.body.links \cup link \in SUBSET EntryOfPage /\ v.siblings \ {s} \in SUBSET (Docs \X ShownRow)
      BY <1>1, <2>3, <2>6 DEF ViewSpace, PageBodies
    <3> QED
      BY <1>1, <3>1 DEF ViewSpace, PageBodies
  <2> HIDE DEF n
  <2>8. Shape(u, n)
    BY <1>2, <1>3, <2>2, <2>7 DEF Shape, DocumentShape, OfAList, Done, RowRead
  <2>9. Covers(u, n, old \cup tags)
    BY <1>1, <1>2, <2>7 DEF Covers, OfAList, Gathered, Done, RowRead
  <2>10. ASSUME Right(u, v)
         PROVE  LinksRight(rows, u, n)
    <3> DEFINE others == Translated(rows, v.body.row.group)
    <3>1. LinksRight(rows, u, v)
      BY <1>2, <2>10 DEF Right, TextRight, LinksRead, Done
    <3>2. /\ {l.row : l \in v.body.links} \cup {x[2] : x \in v.siblings}
               = {ShownIn(rows, e) : e \in others}
          /\ \A x \in v.siblings : x[1] \in others /\ x[2] = ShownIn(rows, x[1])
      BY <2>2, <3>1 DEF LinksRight
    <3>3. s[1] \in others
      BY <3>2
    <3>4. Resolves(s[1])
      <4>1. ThereIn(rows, s[1])
        BY <1>1, <3>3, QueriesTyped
      <4> QED
        BY <1>1, <2>3, <4>1, WellFormedResolves, RowsNow DEF ResolvesIn
    <3>5. link = {entry} /\ entry.row = s[2]
      BY <3>4 DEF link, entry
    <3> HIDE DEF others
    <3>6. {l.row : l \in n.body.links} \cup {x[2] : x \in n.siblings}
            = {l.row : l \in v.body.links} \cup {x[2] : x \in v.siblings}
      <4>1. s \in v.siblings
        OBVIOUS
      <4> QED
        BY <2>7, <3>5, <4>1
    <3>7. \A x \in n.siblings : x[1] \in others /\ x[2] = ShownIn(rows, x[1])
      BY <2>7, <3>2
    <3> QED
      BY <2>2, <2>7, <3>2, <3>6, <3>7 DEF LinksRight, others
  <2>11. Right(u, v) => Right(u, n)
    BY <1>2, <2>7, <2>10 DEF Right, TextRight, AltsRight, RowRead, Gathered, OfAList, Done
  <2> QED
    BY <1>4, <2>4, <2>7, <2>8, <2>9, <2>11 DEF GoesOn, Fits
<1> QED
  BY <1>5, <1>6 DEF ResolveSibling

LEMMA RefsOfAView ==
  ASSUME NEW u \in Keys, NEW v \in ViewSpace, Shape(u, v), u.kind \in {"document", "feed"},
         u.kind = "document" => RowRead(v)
  PROVE  RefsIn(u, v.body) \subseteq Media
<1>1. CASE u.kind = "document"
  <2>1. v.body.row \in ShownRow
    BY <1>1 DEF Shape, DocumentShape
  <2> QED
    BY <1>1, <2>1 DEF RefsIn, ShownRow
<1>2. CASE u.kind # "document"
  <2>1. \A e \in v.body.entries : e.row \in ShownRow
    BY ViewFields DEF EntryOfPage
  <2>2. \A e \in v.body.entries : e.row.refs \subseteq Media
    BY <2>1 DEF ShownRow
  <2> QED
    BY <1>2, <2>2 DEF RefsIn
<1> QED
  BY <1>1, <1>2

LEMMA LoadMediaGoes ==
  ASSUME NoneAhead, SiteTypeOK, NEW r \in Requests, Rendering(r),
         Fits(Url(r), view[r], request[r].tags), LoadMedia(r)
  PROVE  GoesOn(r)
<1> DEFINE u == Url(r)
           v == view[r]
           old == request[r].tags
           refs == RefsIn(u, v.body)
           alts == AltsIn(assets, refs)
           tags == MediaTags(refs)
           n == [v EXCEPT !.todo = {"response"}, !.body.alts = alts]
<1>1. /\ u \in Keys /\ v \in ViewSpace /\ rows \in Contents
      /\ clock \in Nat /\ Shape(u, v) /\ Covers(u, v, old)
  BY RenderOf DEF Fits
<1>2. v.todo = {"media"} /\ u.kind \in {"document", "feed"}
  BY <1>1, Stages DEF LoadMedia, Todo
<1>3. refs \subseteq Media
  BY <1>1, <1>2, RefsOfAView DEF RowRead, Done
<1>4. Gathers(r, tags, n)
  BY AltsNow DEF LoadMedia, RefsIn
<1>5. assets \in [Media -> Nat \cup {Absent}]
  BY DEF SiteTypeOK
<1> HIDE DEF refs
<1>6. alts \in SUBSET (Media \X Nat)
  BY <1>3, <1>5 DEF AltsIn
<1>7. tags \in SUBSET Tags
  <2>1. \A m \in Media : MediaTag(m) \in Tags
    BY <1>1, TagsAreTags
  <2> QED
    BY <1>3, <2>1 DEF MediaTags
<1>8. AltsTagged(alts, tags)
  BY DEF AltsTagged, AltsIn, MediaTags
<1> HIDE DEF alts, tags
<1>9. /\ n \in ViewSpace /\ n.todo = {"response"} /\ n.siblings = v.siblings
      /\ n.body.row = v.body.row /\ n.body.entries = v.body.entries
      /\ n.body.pages = v.body.pages /\ n.body.path = v.body.path
      /\ n.body.links = v.body.links /\ n.body.alts = alts
  BY <1>1, <1>6 DEF ViewSpace, PageBodies, Queries
<1> HIDE DEF n
<1>10. RefsIn(u, n.body) = refs
  BY <1>9 DEF RefsIn, refs
<1>11. Shape(u, n)
  <2>1. u.kind = "document" => DocumentShape(u, n)
    BY <1>1, <1>2, <1>9 DEF Shape, DocumentShape, Done, RowRead
  <2>2. OfAList(u) => ListShape(u, n)
    BY <1>1, <1>2, <1>9 DEF Shape, ListShape, OfAList
  <2> QED
    BY <1>2, <2>1, <2>2 DEF Shape
<1>12. Covers(u, n, old \cup tags)
  <2>1. AltsTagged(alts, old \cup tags)
    BY <1>8 DEF AltsTagged
  <2> QED
    BY <1>1, <1>2, <1>9, <2>1 DEF Covers, OfAList, Done, RowRead
<1>13. Right(u, v) => Right(u, n)
  <2>1. AltsRight(assets, u, n)
    BY <1>9, <1>10 DEF AltsRight, alts
  <2>2. LinksRight(rows, u, v) => LinksRight(rows, u, n)
    BY <1>9 DEF LinksRight
  <2>3. TextRight(rows, u, v) => TextRight(rows, u, n)
    BY <1>2, <1>9, <2>2 DEF TextRight, LinksRead, RowRead, OfAList, Done
  <2> QED
    BY <2>1, <2>3 DEF Right
<1> QED
  BY <1>4, <1>7, <1>9, <1>11, <1>12, <1>13 DEF GoesOn, Fits

LEMMA LoadRowsGoes ==
  ASSUME NoneAhead, SiteTypeOK, NEW r \in Requests, Rendering(r),
         Fits(Url(r), view[r], request[r].tags), LoadRows(r)
  PROVE  GoesOn(r)
<1> DEFINE u == Url(r)
           v == view[r]
           old == request[r].tags
           shown == PageOf(rows, u)
           entries == {EntryIn(rows, d) : d \in shown}
           todo == AfterArchive(u, v.todo \ {"rows"})
           tags == ArchiveTags(u, shown)
           n == [v EXCEPT !.todo = todo, !.body.entries = entries]
<1>1. /\ u \in Keys /\ v \in ViewSpace /\ rows \in Contents /\ request[r].at \in Nat
      /\ clock \in Nat /\ Shape(u, v) /\ Covers(u, v, old)
  BY RenderOf DEF Fits
<1>2. /\ OfAList(u) /\ v.todo \in {{"rows"}, {"rows", "total"}}
      /\ u.type \in Types /\ u.locale \in Locales
  <2>1. OfAList(u) /\ v.todo \in {{"rows"}, {"rows", "total"}}
    BY <1>1, Stages DEF LoadRows, Todo
  <2> QED
    BY <1>1, <2>1, SiteAssumption DEF IsRoute, OfAList
<1>3. OnPage(u, request[r].at) = shown /\ \A d \in shown : d \in Docs /\ ThereIn(rows, d)
  BY <1>1, QueriesNow, QueriesTyped
<1>4. \A d : Entry(d) = EntryIn(rows, d)
  BY RowsNow
<1>5. Gathers(r, tags, n)
  <2> DEFINE read == OnPage(u, request[r].at)
             given == {Entry(d) : d \in read}
  <2>1. Gathers(r, ArchiveTags(u, read), [v EXCEPT !.todo = todo, !.body.entries = given])
    BY DEF LoadRows, Todo
  <2>2. ArchiveTags(u, read) = tags /\ given = entries
    BY <1>3, <1>4
  <2> HIDE DEF given, entries, todo, tags
  <2> QED
    BY <2>1, <2>2
<1>6. entries \in SUBSET EntryOfPage
  <2>1. \A d \in shown : EntryIn(rows, d) \in EntryOfPage
    BY <1>1, <1>3, EntryTyped
  <2> QED
    BY <2>1
<1>7. tags \in SUBSET Tags
  <2>1. ContentListTag(u.type, u.locale) \in Tags
    BY <1>1, <1>2, TagsAreTags DEF SitemapTags
  <2>2. \A d \in shown : ContentTag(d) \in Tags
    BY <1>1, <1>3, TagsAreTags
  <2> QED
    BY <2>1, <2>2 DEF ArchiveTags
<1>8. ContentListTag(u.type, u.locale) \in tags
  BY DEF ArchiveTags
<1>9. /\ v.todo = {"rows", "total"} => todo = {"total"}
      /\ v.todo = {"rows"} => todo = IF u.kind = "feed" THEN {"media"} ELSE {"response"}
  BY DEF AfterArchive
<1>10. v.todo = {"rows"} \/ v.todo = {"rows", "total"}
  BY <1>2
<1>11. todo \in SUBSET Queries
  BY <1>9, <1>10 DEF Queries
<1> HIDE DEF entries, tags, todo
<1>12. /\ n \in ViewSpace /\ n.todo = todo /\ n.siblings = v.siblings
       /\ n.body.row = v.body.row /\ n.body.entries = entries
       /\ n.body.pages = v.body.pages /\ n.body.path = v.body.path
       /\ n.body.links = v.body.links /\ n.body.alts = v.body.alts
  BY <1>1, <1>6, <1>11 DEF ViewSpace, PageBodies
<1> HIDE DEF n
<1>13. Shape(u, n)
  BY <1>1, <1>2, <1>9, <1>10, <1>12 DEF Shape, ListShape, OfAList
<1>14. Covers(u, n, old \cup tags)
  BY <1>2, <1>8, <1>9, <1>10, <1>12 DEF Covers, OfAList, Gathered, Done
<1>15. Right(u, v) => Right(u, n)
  BY <1>2, <1>9, <1>10, <1>12 DEF Right, TextRight, AltsRight, Gathered, OfAList, Done, entries
<1> QED
  BY <1>5, <1>7, <1>12, <1>13, <1>14, <1>15 DEF GoesOn, Fits

LEMMA LoadTotalGoes ==
  ASSUME NoneAhead, SiteTypeOK, NEW r \in Requests, Rendering(r),
         Fits(Url(r), view[r], request[r].tags), LoadTotal(r)
  PROVE  GoesOn(r)
<1> DEFINE u == Url(r)
           v == view[r]
           old == request[r].tags
           pages == PageCount(Cardinality(Listed(rows, u)))
           todo == AfterArchive(u, v.todo \ {"total"})
           tags == {}
           n == [v EXCEPT !.todo = todo, !.body.pages = pages]
<1>1. /\ u \in Keys /\ v \in ViewSpace /\ rows \in Contents /\ request[r].at \in Nat
      /\ clock \in Nat /\ Shape(u, v) /\ Covers(u, v, old)
  BY RenderOf DEF Fits
<1>2. OfAList(u) /\ v.todo \in {{"total"}, {"rows", "total"}}
  BY <1>1, Stages DEF LoadTotal, Todo
<1>3. Gathers(r, tags, n)
  BY <1>1, QueriesNow DEF LoadTotal, Todo
<1>4. pages \in Nat
  BY <1>1, QueriesTyped, PagesCount
<1>5. tags \in SUBSET Tags
  OBVIOUS
<1>6. /\ v.todo = {"rows", "total"} => todo = {"rows"}
      /\ v.todo = {"total"} => todo = IF u.kind = "feed" THEN {"media"} ELSE {"response"}
  BY DEF AfterArchive
<1>7. v.todo = {"total"} \/ v.todo = {"rows", "total"}
  BY <1>2
<1>8. todo \in SUBSET Queries
  BY <1>6, <1>7 DEF Queries
<1> HIDE DEF pages, tags, todo
<1>9. /\ n \in ViewSpace /\ n.todo = todo /\ n.siblings = v.siblings
      /\ n.body.row = v.body.row /\ n.body.entries = v.body.entries
      /\ n.body.pages = pages /\ n.body.path = v.body.path
      /\ n.body.links = v.body.links /\ n.body.alts = v.body.alts
  BY <1>1, <1>4, <1>8 DEF ViewSpace, PageBodies
<1> HIDE DEF n
<1>10. Shape(u, n)
  BY <1>1, <1>2, <1>6, <1>7, <1>9 DEF Shape, ListShape, OfAList
<1>11. Covers(u, n, old \cup tags)
  BY <1>1, <1>2, <1>6, <1>7, <1>9 DEF Covers, OfAList, Gathered, Done
<1>12. Right(u, v) => Right(u, n)
  BY <1>2, <1>6, <1>7, <1>9 DEF Right, TextRight, AltsRight, Gathered, OfAList, Done, pages
<1> QED
  BY <1>3, <1>5, <1>9, <1>10, <1>11, <1>12 DEF GoesOn, Fits

LEMMA LoadPathsGoes ==
  ASSUME NoneAhead, SiteTypeOK, NEW r \in Requests, Rendering(r),
         Fits(Url(r), view[r], request[r].tags), LoadEveryPublishedPath(r)
  PROVE  GoesOn(r)
<1> DEFINE u == Url(r)
           v == view[r]
           old == request[r].tags
           reached == ReachedIn(rows)[MAX_ANCESTRY_DEPTH]
           entries == {EntryIn(rows, d) : d \in reached}
           n == [v EXCEPT !.todo = {"response"}, !.body.entries = entries]
<1>1. /\ u \in Keys /\ v \in ViewSpace /\ rows \in Contents
      /\ clock \in Nat /\ Shape(u, v) /\ Covers(u, v, old)
  BY RenderOf DEF Fits
<1>2. u.kind = "sitemap" /\ v.todo = {"paths"}
  BY <1>1, Stages DEF LoadEveryPublishedPath, Todo
<1>3. ListPublishedPaths = reached /\ \A d \in reached : d \in Docs /\ ThereIn(rows, d)
  BY <1>1, QueriesNow, QueriesTyped DEF VisibleIn
<1>4. \A d : Entry(d) = EntryIn(rows, d)
  BY RowsNow
<1> HIDE DEF reached
<1>5. Gathers(r, SitemapTags, n)
  BY <1>3, <1>4 DEF LoadEveryPublishedPath
<1>6. entries \in SUBSET EntryOfPage
  <2>1. \A d \in reached : EntryIn(rows, d) \in EntryOfPage
    BY <1>1, <1>3, EntryTyped
  <2> QED
    BY <2>1
<1>7. SitemapTags \in SUBSET Tags
  BY <1>1, TagsAreTags
<1>8. entries = SitemapIn(rows)
  BY DEF SitemapIn, reached
<1> HIDE DEF entries
<1>9. /\ n \in ViewSpace /\ n.todo = {"response"} /\ n.siblings = v.siblings
      /\ n.body.row = v.body.row /\ n.body.entries = entries
      /\ n.body.pages = v.body.pages /\ n.body.path = v.body.path
      /\ n.body.links = v.body.links /\ n.body.alts = v.body.alts
  BY <1>1, <1>6 DEF ViewSpace, PageBodies, Queries
<1> HIDE DEF n
<1>10. Shape(u, n)
  BY <1>1, <1>2, <1>9 DEF Shape, SitemapShape, OfAList
<1>11. Covers(u, n, old \cup SitemapTags)
  BY <1>2, <1>9 DEF Covers, OfAList
<1>12. Right(u, n)
  BY <1>2, <1>8, <1>9 DEF Right, TextRight, AltsRight, OfAList
<1> QED
  BY <1>5, <1>7, <1>9, <1>10, <1>11, <1>12 DEF GoesOn, Fits

-----------------------------------------------------------------------------
(* Every step is one of a few kinds.                                       *)

Sends(r) ==
  /\ Todo(r) = {"response"} /\ ~PastTheEnd(r)
  /\ \E life \in Lifetimes : Keep(r, life, view[r].body)
  /\ view' = [view EXCEPT ![r] = NoView]
  /\ UNCHANGED <<rows, assets>>

Rewrites(w, tags) ==
  /\ rows' \in Contents /\ WellFormed(rows')
  /\ Announced(rows, rows', tags) /\ tags \cap SitemapTags # {}
  /\ Write(w, tags)
  /\ UNCHANGED <<assets, view>>

Retitles(w, m) ==
  /\ assets[m] # Absent
  /\ \E alt \in Nat \cup {Absent} : assets' = [assets EXCEPT ![m] = alt]
  /\ Write(w, {MediaTag(m)})
  /\ UNCHANGED <<rows, view>>

LEMMA AnswersGo ==
  ASSUME NoneAhead, SiteTypeOK, RendersFit, NEW r \in Requests, Answers(r)
  PROVE  Rendering(r) /\ (GoesOn(r) \/ GiveUp(r) \/ Sends(r))
<1>1. Rendering(r)
  <2>1. ASSUME NEW tags, NEW n, Gathers(r, tags, n) PROVE Rendering(r)
    BY <2>1 DEF Gathers, Read
  <2>2. GiveUp(r) => Rendering(r)
    BY DEF GiveUp, Drop
  <2>3. CASE LoadDocument(r) \/ LoadAncestry(r)
    BY <2>1, <2>2, <2>3 DEF LoadDocument, LoadAncestry
  <2>4. CASE LoadTranslations(r) \/ ResolveSibling(r)
    BY <2>1, <2>4 DEF LoadTranslations, ResolveSibling
  <2>5. CASE LoadMedia(r) \/ LoadRows(r) \/ LoadTotal(r) \/ LoadEveryPublishedPath(r)
    BY <2>1, <2>5 DEF LoadMedia, LoadRows, LoadTotal, LoadEveryPublishedPath
  <2>6. CASE Respond(r)
    BY <2>2, <2>6 DEF Respond, Keep
  <2> QED
    BY <2>3, <2>4, <2>5, <2>6 DEF Answers
<1>2. Fits(Url(r), view[r], request[r].tags)
  BY <1>1 DEF RendersFit
<1>3. Respond(r) => GiveUp(r) \/ Sends(r)
  BY DEF Respond, Sends
<1> QED
  BY <1>1, <1>2, <1>3, LoadDocumentGoes, LoadAncestryGoes, LoadTranslationsGoes,
     ResolveSiblingGoes, LoadMediaGoes, LoadRowsGoes, LoadTotalGoes, LoadPathsGoes DEF Answers

LEMMA PurgeTags ==
  ASSUME NEW d \in Docs, NEW row \in RowSpace
  PROVE  /\ PurgeContent(d, row) \in (SUBSET Tags) \ {{}}
         /\ PurgeContent(d, row) \cap SitemapTags # {}
<1>1. row.type \in Types /\ row.locale \in Locales /\ row.group \in Groups
  BY DEF RowSpace
<1>2. PurgeContent(d, row) \subseteq Tags
  BY <1>1, SiteAssumption DEF PurgeContent, EveryTag
<1>3. ContentListTag(row.type, row.locale) \in PurgeContent(d, row) \cap SitemapTags
  BY <1>1 DEF PurgeContent, SitemapTags
<1> QED
  BY <1>2, <1>3

LEMMA ChangesWrite ==
  ASSUME DatabaseOK, NEW w \in Writers, Changes(w)
  PROVE  \/ \E tags \in (SUBSET Tags) \ {{}} : Rewrites(w, tags)
         \/ \E m \in Media : Retitles(w, m)
<1>1. rows \in Contents /\ assets \in [Media -> Nat \cup {Absent}]
  BY DEF DatabaseOK
<1>2. ASSUME NEW d \in Docs, NEW row \in Creations, CreateDocument(w, d, row)
      PROVE  Rewrites(w, PurgeContent(d, row)) /\ PurgeContent(d, row) \in (SUBSET Tags) \ {{}}
  <2>1. row \in RowSpace
    BY SiteAssumption
  <2> DEFINE n == [rows EXCEPT ![d] = row]
  <2>2. n \in Contents /\ rows' = n /\ WellFormed(n)
    BY <1>1, <1>2, <2>1 DEF CreateDocument, Commits, Contents
  <2>3. ~ThereIn(rows, d) /\ n[d] = row /\ \A e \in Docs \ {d} : n[e] = rows[e]
    BY <1>1, <1>2 DEF CreateDocument, ThereIn, Contents
  <2> HIDE DEF n
  <2>4. Announced(rows, n, PurgeContent(d, row))
    BY <2>3 DEF Announced
  <2> QED
    BY <1>2, <2>1, <2>2, <2>4, PurgeTags DEF CreateDocument, Commits, Rewrites
<1>3. ASSUME NEW d \in Docs, NEW edit \in Edits, SaveDocument(w, d, edit)
      PROVE  Rewrites(w, PurgeContent(d, rows[d]))
             /\ PurgeContent(d, rows[d]) \in (SUBSET Tags) \ {{}}
  <2>1. rows[d] \in RowSpace
    BY <1>1, <1>3 DEF SaveDocument, Exists, Contents
  <2> DEFINE n == [rows EXCEPT ![d][edit.column] = edit.value]
             row == [rows[d] EXCEPT ![edit.column] = edit.value]
  <2>2. rows' = n /\ WellFormed(n) /\ n[d] = row /\ \A e \in Docs \ {d} : n[e] = rows[e]
    BY <1>1, <1>3 DEF SaveDocument, Commits, Contents
  <2>3. IsSave(edit) /\ edit.value \in Given(edit.column)
    BY SiteAssumption DEF Given
  <2>4. row \in RowSpace /\ row.type = rows[d].type /\ row.locale = rows[d].locale
        /\ row.group = rows[d].group
    <3>1. CASE edit.column = "slug"
      BY <2>1, <2>3, <3>1 DEF RowSpace
    <3>2. CASE edit.column = "title"
      BY <2>1, <2>3, <3>2 DEF RowSpace
    <3>3. CASE edit.column = "parent"
      BY <2>1, <2>3, <3>3 DEF RowSpace, IsSave
    <3>4. CASE edit.column = "status"
      BY <2>1, <2>3, <3>4 DEF RowSpace
    <3>5. CASE edit.column = "date"
      BY <2>1, <2>3, <3>5 DEF RowSpace
    <3>6. CASE edit.column = "refs"
      BY <2>1, <2>3, <3>6 DEF RowSpace, IsSave
    <3> QED
      BY <2>3, <3>1, <3>2, <3>3, <3>4, <3>5, <3>6 DEF IsSave
  <2>5. n \in [Docs -> RowSpace \cup {Absent, Deleted}]
    <3>1. n = [rows EXCEPT ![d] = row]
      BY <1>1 DEF Contents
    <3> HIDE DEF n, row
    <3> QED
      BY <1>1, <2>4, <3>1 DEF Contents
  <2> HIDE DEF n, row
  <2>6. PurgeContent(d, row) = PurgeContent(d, rows[d])
    BY <2>4 DEF PurgeContent
  <2>7. Announced(rows, n, PurgeContent(d, rows[d]))
    BY <2>2, <2>6 DEF Announced
  <2>8. Write(w, PurgeContent(d, rows[d])) /\ UNCHANGED <<assets, view>>
    BY <1>3 DEF SaveDocument, Commits
  <2> QED
    BY <2>1, <2>2, <2>5, <2>7, <2>8, PurgeTags DEF Rewrites, Contents
<1>4. ASSUME NEW d \in Docs, DeleteDocument(w, d)
      PROVE  Rewrites(w, PurgeContent(d, rows[d]))
             /\ PurgeContent(d, rows[d]) \in (SUBSET Tags) \ {{}}
  <2>1. rows[d] \in RowSpace
    BY <1>1, <1>4 DEF DeleteDocument, Exists, Contents
  <2> DEFINE n == [e \in Docs |->
                     IF e = d THEN Deleted
                     ELSE IF Exists(e) /\ rows[e].parent = d
                          THEN [rows[e] EXCEPT !.parent = None]
                          ELSE rows[e]]
  <2>2. rows' = n /\ WellFormed(n)
    BY <1>4 DEF DeleteDocument, Commits
  <2>3. n[d] = Deleted
    OBVIOUS
  <2>4. ASSUME NEW e \in Docs, e # d
        PROVE  /\ n[e] \in RowSpace \cup {Absent, Deleted}
               /\ n[e] = rows[e]
                  \/ (ThereIn(rows, e) /\ n[e] = [rows[e] EXCEPT !.parent = None])
    <3>1. CASE Exists(e) /\ rows[e].parent = d
      <4>1. rows[e] \in RowSpace /\ ThereIn(rows, e)
        BY <1>1, <3>1 DEF Exists, Contents, ThereIn
      <4>2. [rows[e] EXCEPT !.parent = None] \in RowSpace
        BY <4>1 DEF RowSpace
      <4> QED
        BY <2>4, <3>1, <4>1, <4>2
    <3>2. CASE ~(Exists(e) /\ rows[e].parent = d)
      BY <1>1, <2>4, <3>2 DEF Contents
    <3> QED
      BY <3>1, <3>2
  <2>5. n \in [Docs -> RowSpace \cup {Absent, Deleted}]
    <3>1. \A e \in Docs : n[e] \in RowSpace \cup {Absent, Deleted}
      BY <2>3, <2>4
    <3>2. n = [e \in Docs |-> n[e]]
      OBVIOUS
    <3> HIDE DEF n
    <3> QED
      BY <3>1, <3>2
  <2> HIDE DEF n
  <2>6. Announced(rows, n, PurgeContent(d, rows[d]))
    <3>1. \A x \in {rows, n} : ThereIn(x, d) => PurgeContent(d, x[d]) \subseteq PurgeContent(d, rows[d])
      BY <2>3 DEF ThereIn
    <3> QED
      BY <2>4, <3>1 DEF Announced
  <2>7. Write(w, PurgeContent(d, rows[d])) /\ UNCHANGED <<assets, view>>
    BY <1>4 DEF DeleteDocument, Commits
  <2> QED
    BY <2>1, <2>2, <2>5, <2>6, <2>7, PurgeTags DEF Rewrites, Contents
<1>5. ASSUME NEW m \in Media, UpdateAsset(w, m) \/ DeleteAsset(w, m)
      PROVE  Retitles(w, m)
  <2>1. assets[m] # Absent => assets[m] + 1 \in Nat
    BY <1>1
  <2> QED
    BY <1>1, <1>5, <2>1 DEF UpdateAsset, DeleteAsset, Retitles
<1> QED
  BY <1>2, <1>3, <1>4, <1>5 DEF Changes

LEMMA SiteSteps ==
  ASSUME NoneAhead, SiteTypeOK, RendersFit, SiteNext
  PROVE  \/ \E r \in Requests, u \in Keys : Get(r, u)
         \/ \E r \in Requests : Rendering(r) /\ (GoesOn(r) \/ GiveUp(r) \/ Sends(r))
         \/ \E w \in Writers, tags \in (SUBSET Tags) \ {{}} : Rewrites(w, tags)
         \/ \E w \in Writers, m \in Media : Retitles(w, m)
         \/ (\E w \in Writers : Purge(w) \/ Lose(w)) /\ UNCHANGED <<rows, assets, view>>
         \/ (Valkey \/ Quiet) /\ UNCHANGED <<rows, assets, view>>
<1>1. \A r \in Requests : GiveUp(r) => Rendering(r)
  BY DEF GiveUp, Drop
<1>2. DatabaseOK
  BY DEF SiteTypeOK, DatabaseOK
<1> QED
  BY <1>1, <1>2, AnswersGo, ChangesWrite DEF SiteNext

-----------------------------------------------------------------------------
(* Every step of the site is one of the cache, or changes nothing there.   *)

PagesAreBodies == PageBodies \subseteq Bodies

LEMMA SiteStepCaches ==
  ASSUME NoneAhead, PagesAreBodies, SiteTypeOK, RendersFit, [SiteNext]_siteVars
  PROVE  [CacheNext]_vars
<1>1. ASSUME NEW r \in Requests, NEW u \in Keys, Get(r, u)
      PROVE  CacheNext
  BY <1>1 DEF Get, CacheNext
<1>2. ASSUME NEW r \in Requests, Rendering(r), GoesOn(r)
      PROVE  [CacheNext]_vars
  <2>1. PICK tags \in SUBSET Tags, n \in ViewSpace : Gathers(r, tags, n)
    BY <1>2 DEF GoesOn
  <2>2. CASE tags # {}
    BY <2>1, <2>2 DEF Gathers, CacheNext
  <2>3. CASE tags = {}
    <3>1. request[r] \in Render /\ request \in [Requests -> Render \cup {Idle}]
      BY <1>2, RenderOf DEF SiteTypeOK, CacheTypeOK
    <3>2. Collected(request[r], {}) = request[r]
      BY <3>1 DEF Collected, Render
    <3>3. request' = request
      BY <2>1, <2>3, <3>1, <3>2 DEF Gathers, Read
    <3> QED
      BY <2>1, <3>3 DEF Gathers, Read, vars, site
  <2> QED
    BY <2>2, <2>3
<1>3. ASSUME NEW r \in Requests, GiveUp(r)
      PROVE  CacheNext
  BY <1>3 DEF GiveUp, Ends, CacheNext
<1>4. ASSUME NEW r \in Requests, Rendering(r), Sends(r)
      PROVE  CacheNext
  <2>1. view[r].body \in Bodies
    BY <1>4, RenderOf, ViewFields DEF PagesAreBodies
  <2> QED
    BY <1>4, <2>1 DEF Sends, Ends, CacheNext
<1>5. ASSUME NEW w \in Writers, NEW tags \in (SUBSET Tags) \ {{}}, Rewrites(w, tags)
      PROVE  CacheNext
  BY <1>5 DEF Rewrites, CacheNext
<1>6. ASSUME NEW w \in Writers, NEW m \in Media, Retitles(w, m)
      PROVE  CacheNext
  <2>1. MediaTag(m) \in Tags
    BY TagsAreTags DEF SiteTypeOK
  <2> QED
    BY <1>6, <2>1 DEF Retitles, CacheNext
<1>7. (\E w \in Writers : Purge(w) \/ Lose(w)) => CacheNext
  BY DEF CacheNext
<1>8. Valkey \/ Quiet => CacheNext
  BY DEF CacheNext
<1>9. UNCHANGED siteVars => UNCHANGED vars
  BY DEF siteVars
<1> QED
  BY <1>1, <1>2, <1>3, <1>4, <1>5, <1>6, <1>7, <1>8, <1>9, SiteSteps

-----------------------------------------------------------------------------
(* Steps of a render.                                                      *)

LEMMA ExcusedStill ==
  ASSUME NEW s, NEW n, NEW excused, NEW more, NEW q, NEW p,
         p.key = q.key, p.at = q.at, q.tags \subseteq p.tags,
         \A t \in Concerns(q.key, q.tags) :
           /\ t \in excused => t \in more \/ Barred(n, q, t)
           /\ Barred(s, q, t) => t \in more \/ Barred(n, q, t),
         Excused(s, excused, q)
  PROVE  Excused(n, more, p)
<1>1. PICK t \in Concerns(q.key, q.tags) : t \in excused \/ Barred(s, q, t)
  BY DEF Excused
<1>2. t \in Concerns(p.key, p.tags)
  BY DEF Concerns
<1>3. Barred(n, q, t) => Barred(n, p, t)
  BY DEF Barred
<1> QED
  BY <1>1, <1>2, <1>3 DEF Excused

LEMMA PagesStay ==
  ASSUME PagesFit(valkey), PagesFit(saved),
         PagesRight(valkey, Due), PagesRight(saved, Due \cup unsaved),
         UNCHANGED <<valkey, saved, unsaved, Due, rows, assets>>
  PROVE  /\ PagesFit(valkey)' /\ PagesFit(saved)'
         /\ PagesRight(valkey, Due)' /\ PagesRight(saved, Due \cup unsaved)'
BY DEF PagesFit, PagesRight, Right

(* A render that goes on keeps what it had right and what excuses it. *)
Carries(r) ==
  /\ Rendering(r)
  /\ request'[r].key = request[r].key /\ request'[r].at = request[r].at
  /\ request[r].tags \subseteq request'[r].tags
  /\ Right(Url(r), view[r]) => Right(Url(r), view'[r])

LEMMA OneRenderMoves ==
  ASSUME NEW r \in Requests, RendersFit,
         RendersRight(valkey, Due), RendersRight(saved, Due \cup unsaved),
         UNCHANGED <<saved, unsaved, Due, rows, assets>>, valkey'.stamp = valkey.stamp,
         \A o \in Requests \ {r} : request'[o] = request[o] /\ view'[o] = view[o],
         Rendering(r)' => /\ Fits(request'[r].key, view'[r], request'[r].tags)
                          /\ Carries(r) \/ Right(request'[r].key, view'[r])
  PROVE  /\ RendersFit'
         /\ RendersRight(valkey, Due)' /\ RendersRight(saved, Due \cup unsaved)'
<1>1. RendersFit'
  BY DEF RendersFit, Rendering, Url
<1>2. ASSUME NEW o \in Requests, Rendering(o)',
             NEW s, NEW n, NEW excused, n.stamp = s.stamp,
             Rendering(o) => Right(Url(o), view[o]) \/ Excused(s, excused, request[o])
      PROVE  Right(request'[o].key, view'[o]) \/ Excused(n, excused, request'[o])
  <2>1. CASE o # r
    <3>1. Rendering(o) /\ request'[o] = request[o] /\ view'[o] = view[o]
      BY <1>2, <2>1 DEF Rendering
    <3>2. Excused(s, excused, request[o]) => Excused(n, excused, request[o])
      BY <1>2 DEF Excused, Barred
    <3> QED
      BY <1>2, <3>1, <3>2 DEF Url
  <2>2. CASE o = r /\ Right(request'[r].key, view'[r])
    BY <2>2
  <2>3. CASE o = r /\ Carries(r)
    <3>1. \A t : Barred(s, request[r], t) => Barred(n, request[r], t)
      BY <1>2 DEF Barred
    <3>2. Excused(s, excused, request[r]) => Excused(n, excused, request'[r])
      BY <2>3, <3>1, ExcusedStill DEF Carries
    <3> QED
      BY <1>2, <2>3, <3>2 DEF Carries, Url
  <2> QED
    BY <1>2, <2>1, <2>2, <2>3
<1>3. RendersRight(valkey, Due)'
  <2> SUFFICES ASSUME NEW o \in Requests, Rendering(o)'
               PROVE  Right(request'[o].key, view'[o]) \/ Excused(valkey', Due, request'[o])
    BY DEF RendersRight, Right, Url
  <2>1. Rendering(o) => Right(Url(o), view[o]) \/ Excused(valkey, Due, request[o])
    BY DEF RendersRight
  <2> QED
    BY <1>2, <2>1
<1>4. RendersRight(saved, Due \cup unsaved)'
  <2> SUFFICES ASSUME NEW o \in Requests, Rendering(o)'
               PROVE  Right(request'[o].key, view'[o])
                      \/ Excused(saved, Due \cup unsaved, request'[o])
    BY DEF RendersRight, Right, Url
  <2>1. Rendering(o) => Right(Url(o), view[o]) \/ Excused(saved, Due \cup unsaved, request[o])
    BY DEF RendersRight
  <2> QED
    BY <1>2, <2>1
<1> QED
  BY <1>1, <1>3, <1>4

LEMMA GetKeeps ==
  ASSUME SiteInv, CacheInv', NEW r \in Requests, NEW u \in Keys, Get(r, u)
  PROVE  SiteInv'
<1> DEFINE n == [NoView EXCEPT !.todo = FirstQueries(u)]
<1>1. /\ UNCHANGED <<valkey, saved, unsaved, Due, rows, assets>>
      /\ request' = [request EXCEPT ![r] = Starts(u)]
      /\ view' = [view EXCEPT ![r] = n]
  BY DEF Get, Miss, site, Due
<1>2. request \in [Requests -> Render \cup {Idle}] /\ view \in [Requests -> ViewSpace]
  BY DEF SiteInv, SiteTypeOK, CacheTypeOK
<1>3. /\ request'[r].key = u /\ request'[r].tags = {} /\ view'[r] = n
      /\ \A o \in Requests \ {r} : request'[o] = request[o] /\ view'[o] = view[o]
  BY <1>1, <1>2 DEF Starts
<1>4. \/ u.kind = "document" /\ n.todo = {"document"}
      \/ OfAList(u) /\ n.todo = {"rows", "total"}
      \/ u.kind = "sitemap" /\ n.todo = {"paths"}
  BY SiteAssumption DEF IsRoute, OfAList, NoView, FirstQueries
<1>5. /\ n.doc = None /\ n.siblings = {} /\ n.body = Body /\ n.todo \in SUBSET Queries
      /\ n = [todo |-> n.todo, doc |-> n.doc, siblings |-> n.siblings, body |-> n.body]
  BY <1>4 DEF NoView, Queries
<1>6. Body \in PageBodies
  BY NoViewTyped
<1> HIDE DEF n
<1>7. n \in ViewSpace
  BY <1>5, <1>6 DEF ViewSpace
<1>8. Shape(u, n)
  BY <1>4, <1>5 DEF Shape, DocumentShape, ListShape, SitemapShape, Body, OfAList, Done, RowRead
<1>9. Covers(u, n, {})
  BY <1>4 DEF Covers, OfAList, Gathered, Done, RowRead
<1>10. Right(u, n)
  BY <1>4 DEF Right, TextRight, AltsRight, LinksRead, RowRead, Gathered, OfAList, Done
<1>11. /\ RendersFit'
       /\ RendersRight(valkey, Due)' /\ RendersRight(saved, Due \cup unsaved)'
  BY <1>1, <1>3, <1>7, <1>8, <1>9, <1>10, OneRenderMoves DEF SiteInv, Fits
<1>12. SiteTypeOK'
  BY <1>1, <1>2, <1>7 DEF SiteInv, SiteTypeOK, CacheInv
<1> QED
  BY <1>1, <1>11, <1>12, PagesStay DEF SiteInv

LEMMA GoesOnKeeps ==
  ASSUME SiteInv, CacheInv', NEW r \in Requests, Rendering(r), GoesOn(r)
  PROVE  SiteInv'
<1>1. PICK tags \in SUBSET Tags, n \in ViewSpace :
        /\ Gathers(r, tags, n)
        /\ Fits(Url(r), n, request[r].tags \cup tags)
        /\ Right(Url(r), view[r]) => Right(Url(r), n)
  BY DEF GoesOn
<1>2. /\ UNCHANGED <<valkey, saved, unsaved, Due, rows, assets>>
      /\ request' = [request EXCEPT ![r] = Collected(@, tags)]
      /\ view' = [view EXCEPT ![r] = n]
  BY <1>1 DEF Gathers, Read, site, Due
<1>3. request \in [Requests -> Render \cup {Idle}] /\ view \in [Requests -> ViewSpace]
      /\ request[r] \in Render
  BY RenderOf DEF SiteInv, SiteTypeOK, CacheTypeOK
<1>4. /\ request'[r].key = request[r].key /\ request'[r].at = request[r].at
      /\ request'[r].tags = request[r].tags \cup tags /\ view'[r] = n
  BY <1>2, <1>3 DEF Collected, Render
<1>5. \A o \in Requests \ {r} : request'[o] = request[o] /\ view'[o] = view[o]
  BY <1>2, <1>3
<1>6. Carries(r)
  BY <1>1, <1>4 DEF Carries
<1>7. Fits(request'[r].key, view'[r], request'[r].tags)
  BY <1>1, <1>4 DEF Url
<1>8. /\ RendersFit'
      /\ RendersRight(valkey, Due)' /\ RendersRight(saved, Due \cup unsaved)'
  BY <1>2, <1>5, <1>6, <1>7, OneRenderMoves DEF SiteInv
<1>9. SiteTypeOK'
  BY <1>1, <1>2, <1>3 DEF SiteInv, SiteTypeOK, CacheInv
<1> QED
  BY <1>2, <1>8, <1>9, PagesStay DEF SiteInv

LEMMA GiveUpKeeps ==
  ASSUME SiteInv, CacheInv', NEW r \in Requests, GiveUp(r)
  PROVE  SiteInv'
<1>1. /\ UNCHANGED <<valkey, saved, unsaved, Due, rows, assets>>
      /\ request' = [request EXCEPT ![r] = Idle]
      /\ view' = [view EXCEPT ![r] = NoView]
  BY DEF GiveUp, Drop, site, Due
<1>2. request \in [Requests -> Render \cup {Idle}] /\ view \in [Requests -> ViewSpace]
  BY DEF SiteInv, SiteTypeOK, CacheTypeOK
<1>3. /\ ~Rendering(r)'
      /\ \A o \in Requests \ {r} : request'[o] = request[o] /\ view'[o] = view[o]
  BY <1>1, <1>2 DEF Rendering, Idle
<1>4. NoView \in ViewSpace
  BY NoViewTyped
<1>5. /\ RendersFit'
      /\ RendersRight(valkey, Due)' /\ RendersRight(saved, Due \cup unsaved)'
  BY <1>1, <1>3, OneRenderMoves DEF SiteInv
<1>6. SiteTypeOK'
  BY <1>1, <1>2, <1>4 DEF SiteInv, SiteTypeOK, CacheInv
<1> QED
  BY <1>1, <1>5, <1>6, PagesStay DEF SiteInv

-----------------------------------------------------------------------------
(* A page is stored.                                                       *)

LEMMA KeptAsSent ==
  ASSUME NEW u \in Keys, NEW v \in ViewSpace, NEW tags, Fits(u, v, tags),
         v.todo = {"response"}
  PROVE  /\ Fits(u, Kept(v.body), tags)
         /\ \A c : TextRight(c, u, v) => TextRight(c, u, Kept(v.body))
         /\ \A a : AltsRight(a, u, v) => AltsRight(a, u, Kept(v.body))
<1> DEFINE k == Kept(v.body)
<1>1. k.todo = {} /\ k.siblings = {} /\ k.body = v.body /\ k.doc = None
      /\ k = [todo |-> k.todo, doc |-> k.doc, siblings |-> k.siblings, body |-> k.body]
  BY DEF Kept, NoView
<1> HIDE DEF k
<1>2. k \in ViewSpace
  BY <1>1 DEF ViewSpace
<1>3. Shape(u, v) /\ Covers(u, v, tags)
  BY DEF Fits
<1>4. Shape(u, k)
  <2>1. u.kind = "document" => DocumentShape(u, k)
    BY <1>1, <1>3 DEF Shape, DocumentShape, Done, RowRead
  <2>2. OfAList(u) => ListShape(u, k)
    BY <1>1, <1>3 DEF Shape, ListShape, OfAList
  <2>3. u.kind = "sitemap" => SitemapShape(k)
    BY <1>1, <1>3 DEF Shape, SitemapShape
  <2> QED
    BY <2>1, <2>2, <2>3 DEF Shape
<1>5. \A queries : "response" \notin queries => Done(v, queries) /\ Done(k, queries)
  BY <1>1 DEF Done
<1>6. Covers(u, k, tags)
  BY <1>1, <1>3, <1>5 DEF Covers, RowRead, Gathered
<1>7. ASSUME NEW c, TextRight(c, u, v)
      PROVE  TextRight(c, u, k)
  <2>1. u.kind = "document" => v.siblings = {}
    BY <1>3 DEF Shape, DocumentShape
  <2>2. u.kind = "document" => (LinksRight(c, u, v) => LinksRight(c, u, k))
    BY <1>1, <2>1 DEF LinksRight
  <2> QED
    BY <1>1, <1>5, <1>7, <2>2 DEF TextRight, RowRead, LinksRead
<1>8. ASSUME NEW a, AltsRight(a, u, v)
      PROVE  AltsRight(a, u, k)
  BY <1>1, <1>5, <1>8 DEF AltsRight, Gathered
<1> QED
  BY <1>2, <1>4, <1>6, <1>7, <1>8 DEF Fits, k

(* A page that is done carries every tag that concerns it. *)
LEMMA ConcernsAreTags ==
  ASSUME NEW u, NEW v, NEW tags, Covers(u, v, tags), Done(v, {"rows"})
  PROVE  Concerns(u, tags) = tags
BY DEF Covers, Concerns

LEMMA SendsKeeps ==
  ASSUME SiteInv, CacheInv', NEW r \in Requests, Rendering(r), Sends(r)
  PROVE  SiteInv'
<1> DEFINE q == request[r]
           v == view[r]
<1>1. PICK life \in Lifetimes : Keep(r, life, v.body)
  BY DEF Sends
<1>2. /\ UNCHANGED <<saved, unsaved, Due, rows, assets>>
      /\ request' = [request EXCEPT ![r] = Idle]
      /\ view' = [view EXCEPT ![r] = NoView]
  BY <1>1 DEF Sends, Keep, site, Due
<1>3. request \in [Requests -> Render \cup {Idle}] /\ view \in [Requests -> ViewSpace]
      /\ q \in Render /\ q.key \in Keys /\ v \in ViewSpace /\ q.key = Url(r)
  BY RenderOf DEF SiteInv, SiteTypeOK, CacheTypeOK, Url
<1>4. /\ ~Rendering(r)'
      /\ \A o \in Requests \ {r} : request'[o] = request[o] /\ view'[o] = view[o]
  BY <1>2, <1>3 DEF Rendering, Idle
<1>5. SiteTypeOK'
  BY <1>2, <1>3, NoViewTyped DEF SiteInv, SiteTypeOK, CacheInv
<1>6. v.todo = {"response"} /\ Fits(q.key, v, q.tags)
  BY <1>3 DEF Sends, Todo, SiteInv, RendersFit
<1>7. CASE valkey' = valkey
  <2>1. /\ RendersFit'
        /\ RendersRight(valkey, Due)' /\ RendersRight(saved, Due \cup unsaved)'
    BY <1>2, <1>4, <1>7, OneRenderMoves DEF SiteInv
  <2> QED
    BY <1>2, <1>5, <1>7, <2>1, PagesStay DEF SiteInv
<1>8. CASE ~Refused(valkey, q.tags, q.at)
           /\ valkey' = Stored(valkey, q.key, q.tags, q.seen, v.body, life)
  <2>1. /\ valkey'.page[q.key].tags = q.tags /\ valkey'.page[q.key].body = v.body
        /\ \A k \in Keys \ {q.key} : valkey'.page[k] = valkey.page[k]
        /\ valkey'.stamp = valkey.stamp
    <3>1. valkey \in Store
      BY DEF SiteInv, SiteTypeOK, CacheTypeOK
    <3> QED
      BY <1>3, <1>8, <3>1 DEF Stored, Store
  <2>2. /\ RendersFit'
        /\ RendersRight(valkey, Due)' /\ RendersRight(saved, Due \cup unsaved)'
    BY <1>2, <1>4, <2>1, OneRenderMoves DEF SiteInv
  <2>3. Fits(q.key, Kept(v.body), q.tags)
    BY <1>3, <1>6, KeptAsSent
  <2>4. q.key.kind = "archive" => q.key.number <= v.body.pages
    <3>1. q.key.kind = "archive" => q.key.number \in Nat
      BY <1>3, SiteAssumption DEF IsRoute
    <3> QED
      BY <1>3, <3>1, ViewFields DEF Sends, PastTheEnd
  <2>5. Right(q.key, Kept(v.body)) \/ q.tags \cap Due # {}
    <3>1. Right(q.key, v) \/ Excused(valkey, Due, q)
      BY <1>3 DEF SiteInv, RendersRight
    <3>2. Right(q.key, v) => Right(q.key, Kept(v.body))
      BY <1>3, <1>6, KeptAsSent DEF Right
    <3>3. Concerns(q.key, q.tags) = q.tags
      BY <1>6, ConcernsAreTags DEF Fits, Done
    <3>4. Excused(valkey, Due, q) => q.tags \cap Due # {}
      BY <1>8, <3>3 DEF Excused, Barred, Refused
    <3> QED
      BY <3>1, <3>2, <3>4
  <2>6. PagesFit(valkey)'
    <3> SUFFICES ASSUME NEW k \in Keys, Cached(valkey', k)
                 PROVE  /\ Fits(k, Kept(valkey'.page[k].body), valkey'.page[k].tags)
                        /\ k.kind = "archive" => k.number <= valkey'.page[k].body.pages
      BY DEF PagesFit
    <3>1. CASE k = q.key
      BY <2>1, <2>3, <2>4, <3>1
    <3>2. CASE k # q.key
      BY <2>1, <3>2 DEF SiteInv, PagesFit, Cached
    <3> QED
      BY <3>1, <3>2
  <2>7. PagesRight(valkey, Due)'
    <3> SUFFICES ASSUME NEW k \in Keys, Cached(valkey', k)
                 PROVE  Right(k, Kept(valkey'.page[k].body)) \/ valkey'.page[k].tags \cap Due # {}
      BY <1>2 DEF PagesRight, Right
    <3>1. CASE k = q.key
      BY <2>1, <2>5, <3>1
    <3>2. CASE k # q.key
      BY <2>1, <3>2 DEF SiteInv, PagesRight, Cached
    <3> QED
      BY <3>1, <3>2
  <2>8. PagesFit(saved)' /\ PagesRight(saved, Due \cup unsaved)'
    BY <1>2 DEF SiteInv, PagesFit, PagesRight, Right
  <2> QED
    BY <1>5, <2>2, <2>6, <2>7, <2>8 DEF SiteInv
<1> QED
  BY <1>1, <1>7, <1>8 DEF Keep

-----------------------------------------------------------------------------
(* The site is written to.                                                 *)

LEMMA WriteKeeps ==
  ASSUME SiteInv, CacheInv', SiteTypeOK', NEW w \in Writers, NEW changed \in SUBSET Tags,
         Write(w, changed), view' = view,
         \A u \in Keys, v \in ViewSpace, tags \in SUBSET Tags :
           Fits(u, v, tags) /\ Concerns(u, tags) \cap changed = {} /\ Right(u, v)
             => TextRight(rows', u, v) /\ AltsRight(assets', u, v)
  PROVE  SiteInv'
<1>1. UNCHANGED <<valkey, saved, unsaved, request, view>>
  BY DEF Write
<1>2. Due \cup changed \subseteq Due'
  BY DEF Write, SiteInv, SiteTypeOK, CacheTypeOK, Due
<1>3. RendersFit' /\ PagesFit(valkey)' /\ PagesFit(saved)'
  BY <1>1 DEF SiteInv, RendersFit, PagesFit, Rendering, Url
<1>4. ASSUME NEW s, NEW excused, NEW more, RendersRight(s, excused), excused \subseteq more,
             changed \subseteq more, NEW r \in Requests, Rendering(r)
      PROVE  (TextRight(rows', Url(r), view[r]) /\ AltsRight(assets', Url(r), view[r]))
             \/ Excused(s, more, request[r])
  <2>1. /\ Url(r) \in Keys /\ view[r] \in ViewSpace /\ request[r].tags \in SUBSET Tags
        /\ request[r].key = Url(r) /\ Fits(Url(r), view[r], request[r].tags)
    BY <1>4, RenderOf DEF SiteInv, RendersFit, Url
  <2>2. CASE Concerns(Url(r), request[r].tags) \cap changed # {}
    BY <1>4, <2>1, <2>2 DEF Excused
  <2>3. CASE Excused(s, excused, request[r])
    BY <1>4, <2>3 DEF Excused
  <2>4. CASE Concerns(Url(r), request[r].tags) \cap changed = {} /\ Right(Url(r), view[r])
    BY <2>1, <2>4
  <2> QED
    BY <1>4, <2>2, <2>3, <2>4 DEF RendersRight
<1>5. ASSUME NEW s \in Store, NEW excused, NEW more, PagesFit(s), PagesRight(s, excused),
             excused \subseteq more, changed \subseteq more, NEW k \in Keys, Cached(s, k)
      PROVE  (/\ TextRight(rows', k, Kept(s.page[k].body))
              /\ AltsRight(assets', k, Kept(s.page[k].body)))
             \/ s.page[k].tags \cap more # {}
  <2> DEFINE v == Kept(s.page[k].body)
             tags == s.page[k].tags
  <2>1. Fits(k, v, tags) /\ v \in ViewSpace /\ tags \in SUBSET Tags
    BY <1>5, EntryFields DEF PagesFit, Fits
  <2>2. Concerns(k, tags) = tags
    <3>1. Done(v, {"rows"})
      BY DEF Done, Kept, NoView
    <3> QED
      BY <2>1, <3>1, ConcernsAreTags DEF Fits
  <2>3. Right(k, v) \/ tags \cap excused # {}
    BY <1>5 DEF PagesRight
  <2> HIDE DEF v, tags
  <2>4. CASE tags \cap changed # {}
    BY <1>5, <2>4 DEF tags
  <2>5. CASE tags \cap excused # {}
    BY <1>5, <2>5 DEF tags
  <2>6. CASE tags \cap changed = {} /\ Right(k, v)
    BY <2>1, <2>2, <2>6 DEF v
  <2> QED
    BY <2>3, <2>4, <2>5, <2>6
<1>6. valkey \in Store /\ saved \in Store
  BY DEF SiteInv, SiteTypeOK, CacheTypeOK
<1>7. RendersRight(valkey, Due)' /\ RendersRight(saved, Due \cup unsaved)'
  <2>1. \A r \in Requests : Rendering(r)' => Rendering(r)
    BY <1>1 DEF Rendering
  <2>2. \A r \in Requests : Rendering(r)' =>
          (TextRight(rows', Url(r), view[r]) /\ AltsRight(assets', Url(r), view[r]))
          \/ Excused(valkey, Due', request[r])
    BY <1>2, <1>4, <2>1 DEF SiteInv
  <2>3. \A r \in Requests : Rendering(r)' =>
          (TextRight(rows', Url(r), view[r]) /\ AltsRight(assets', Url(r), view[r]))
          \/ Excused(saved, Due' \cup unsaved, request[r])
    BY <1>2, <1>4, <2>1 DEF SiteInv
  <2> QED
    BY <1>1, <2>2, <2>3 DEF RendersRight, Right, Url
<1>8. PagesRight(valkey, Due)' /\ PagesRight(saved, Due \cup unsaved)'
  <2>1. \A k \in Keys : Cached(valkey, k) =>
          (/\ TextRight(rows', k, Kept(valkey.page[k].body))
           /\ AltsRight(assets', k, Kept(valkey.page[k].body)))
          \/ valkey.page[k].tags \cap Due' # {}
    BY <1>2, <1>5, <1>6 DEF SiteInv
  <2>2. \A k \in Keys : Cached(saved, k) =>
          (/\ TextRight(rows', k, Kept(saved.page[k].body))
           /\ AltsRight(assets', k, Kept(saved.page[k].body)))
          \/ saved.page[k].tags \cap (Due' \cup unsaved) # {}
    BY <1>2, <1>5, <1>6 DEF SiteInv
  <2> QED
    BY <1>1, <2>1, <2>2 DEF PagesRight, Right
<1> QED
  BY <1>3, <1>7, <1>8 DEF SiteInv

LEMMA RewritesKeep ==
  ASSUME SiteInv, CacheInv', NEW w \in Writers, NEW tags \in SUBSET Tags, Rewrites(w, tags)
  PROVE  SiteInv'
<1>1. SiteTypeOK'
  BY DEF Rewrites, SiteInv, SiteTypeOK, CacheInv
<1>2. ASSUME NEW u \in Keys, NEW v \in ViewSpace, NEW held \in SUBSET Tags,
             Fits(u, v, held), Concerns(u, held) \cap tags = {}, Right(u, v)
      PROVE  TextRight(rows', u, v) /\ AltsRight(assets', u, v)
  <2>1. rows \in Contents /\ WellFormed(rows) /\ rows' \in Contents
    BY DEF SiteInv, SiteTypeOK, Rewrites
  <2>2. TextRight(rows', u, v)
    BY <1>2, <2>1, TextStays DEF Fits, Right, Rewrites
  <2> QED
    BY <1>2, <2>2 DEF Right, Rewrites
<1> QED
  BY <1>1, <1>2, WriteKeeps DEF Rewrites

LEMMA RetitlesKeep ==
  ASSUME SiteInv, CacheInv', NEW w \in Writers, NEW m \in Media, Retitles(w, m)
  PROVE  SiteInv'
<1>1. PICK alt \in Nat \cup {Absent} : assets' = [assets EXCEPT ![m] = alt]
  BY DEF Retitles
<1>2. assets \in [Media -> Nat \cup {Absent}] /\ assets[m] # Absent
  BY DEF SiteInv, SiteTypeOK, Retitles
<1>3. SiteTypeOK'
  BY <1>1, <1>2 DEF Retitles, SiteInv, SiteTypeOK, CacheInv
<1>4. MediaTag(m) \in Tags
  BY TagsAreTags DEF SiteInv, SiteTypeOK
<1>5. ASSUME NEW u \in Keys, NEW v \in ViewSpace, NEW tags \in SUBSET Tags,
             Fits(u, v, tags), Concerns(u, tags) \cap {MediaTag(m)} = {}, Right(u, v)
      PROVE  TextRight(rows', u, v) /\ AltsRight(assets', u, v)
  <2>1. MediaTag(m) \notin tags /\ Covers(u, v, tags) /\ Shape(u, v)
    BY <1>5 DEF Concerns, Fits
  <2>2. AltsRight(assets', u, v)
    <3>1. CASE u.kind \in {"document", "feed"} /\ Gathered(v)
      <4>1. RefsIn(u, v.body) \subseteq Media
        BY <2>1, <3>1, RefsOfAView DEF Gathered, RowRead, Done
      <4> QED
        BY <1>1, <1>2, <1>5, <2>1, <4>1, AltsStay DEF Right
    <3>2. CASE ~(u.kind \in {"document", "feed"} /\ Gathered(v))
      BY <3>2 DEF AltsRight
    <3> QED
      BY <3>1, <3>2
  <2> QED
    BY <1>5, <2>2 DEF Right, Retitles
<1> DEFINE changed == {MediaTag(m)}
<1>6. changed \in SUBSET Tags /\ Write(w, changed) /\ view' = view
  BY <1>4 DEF Retitles
<1>7. \A u \in Keys, v \in ViewSpace, tags \in SUBSET Tags :
        Fits(u, v, tags) /\ Concerns(u, tags) \cap changed = {} /\ Right(u, v)
          => TextRight(rows', u, v) /\ AltsRight(assets', u, v)
  BY <1>5
<1> HIDE DEF changed
<1> QED
  BY <1>3, <1>6, <1>7, WriteKeeps

-----------------------------------------------------------------------------
(* The cache moves and the site does not.                                  *)

LEMMA ConcernsTyped ==
  ASSUME SiteTypeOK, NEW r \in Requests, Rendering(r)
  PROVE  Concerns(request[r].key, request[r].tags) \subseteq Tags
<1>1. Url(r) \in Keys /\ request[r].tags \in SUBSET Tags /\ Url(r) = request[r].key
  BY RenderOf DEF Url
<1>2. OfAList(Url(r)) => ContentListTag(Url(r).type, Url(r).locale) \in Tags
  BY <1>1, SiteAssumption DEF IsRoute, OfAList, EveryTag
<1> QED
  BY <1>1, <1>2 DEF Concerns

(* A store n that follows s: it adds no page, and what excused still does.  *)
Follows(n, more, s, excused) ==
  /\ \A k \in Keys : Cached(n, k) =>
       /\ n.page[k] = s.page[k]
       /\ s.page[k].tags \cap excused \subseteq more
  /\ \A r \in Requests : Rendering(r) =>
       \A t \in Concerns(request[r].key, request[r].tags) :
         t \in excused \/ Barred(s, request[r], t) => t \in more \/ Barred(n, request[r], t)

LEMMA FollowsRight ==
  ASSUME NEW n, NEW more, NEW s, NEW excused, Follows(n, more, s, excused),
         RendersRight(s, excused), PagesFit(s), PagesRight(s, excused)
  PROVE  RendersRight(n, more) /\ PagesFit(n) /\ PagesRight(n, more)
<1>1. \A k \in Keys : Cached(n, k) => Cached(s, k) /\ n.page[k] = s.page[k]
  BY DEF Follows, Cached
<1>2. PagesFit(n)
  BY <1>1 DEF PagesFit
<1>3. PagesRight(n, more)
  BY <1>1 DEF PagesRight, Follows
<1>4. RendersRight(n, more)
  BY DEF RendersRight, Follows, Excused
<1> QED
  BY <1>2, <1>3, <1>4

LEMMA CacheMoves ==
  ASSUME SiteInv, CacheInv', UNCHANGED <<request, view, rows, assets>>,
         \/ Follows(valkey', Due', valkey, Due)
         \/ Follows(valkey', Due', saved, Due \cup unsaved),
         \/ Follows(saved', Due' \cup unsaved', saved, Due \cup unsaved)
         \/ Follows(saved', Due' \cup unsaved', valkey, Due)
  PROVE  SiteInv'
<1>1. SiteTypeOK'
  BY DEF SiteInv, SiteTypeOK, CacheInv
<1>2. RendersFit'
  BY DEF SiteInv, RendersFit, Rendering, Url
<1>3. /\ RendersRight(valkey', Due') /\ PagesFit(valkey') /\ PagesRight(valkey', Due')
      /\ RendersRight(saved', Due' \cup unsaved') /\ PagesFit(saved')
      /\ PagesRight(saved', Due' \cup unsaved')
  BY FollowsRight DEF SiteInv
<1>4. /\ RendersRight(valkey, Due)' /\ RendersRight(saved, Due \cup unsaved)'
  BY <1>3 DEF RendersRight, Rendering, Right, Url
<1>5. /\ PagesFit(valkey)' /\ PagesFit(saved)'
      /\ PagesRight(valkey, Due)' /\ PagesRight(saved, Due \cup unsaved)'
  BY <1>3 DEF PagesFit, PagesRight, Right
<1> QED
  BY <1>1, <1>2, <1>4, <1>5 DEF SiteInv

LEMMA SameStoreFollows ==
  ASSUME NEW s, NEW excused, NEW more, excused \subseteq more
  PROVE  Follows(s, more, s, excused)
BY DEF Follows

LEMMA PurgeFollows ==
  ASSUME SiteInv, NEW w \in Writers, Purge(w)
  PROVE  Follows(valkey', Due', valkey, Due)
<1> DEFINE tags == outbox[w]
           n == Purged(valkey, tags)
<1>1. valkey' = n /\ clock \in Nat /\ StampTtl \in Nat /\ tags \in SUBSET Tags
      /\ valkey \in Store
  BY CacheAssumption DEF Purge, CacheAssumption, SiteInv, SiteTypeOK, CacheTypeOK
<1>2. Due \subseteq Due' \cup tags
  BY DEF Purge, SiteInv, SiteTypeOK, CacheTypeOK, Due
<1>3. \A k \in Keys : Cached(n, k) => n.page[k] = valkey.page[k]
                                      /\ valkey.page[k].tags \cap tags = {}
  BY <1>1, PurgedSound DEF SiteInv, CacheInv
<1>4. \A t \in Tags : n.stamp[t] = IF t \in tags THEN [at |-> clock, until |-> clock + StampTtl]
                                                 ELSE valkey.stamp[t]
  BY DEF Purged, Stamped
<1> HIDE DEF n, tags
<1>5. ASSUME NEW r \in Requests, Rendering(r),
             NEW t \in Concerns(request[r].key, request[r].tags),
             t \in Due \/ Barred(valkey, request[r], t)
      PROVE  t \in Due' \/ Barred(n, request[r], t)
  <2>1. t \in Tags /\ request[r].at \in Nat /\ request[r].at <= clock
    BY <1>5, ConcernsTyped, RenderOf DEF SiteInv, CacheInv, Timely
  <2>2. CASE t \in tags
    <3>1. n.stamp[t].at = clock /\ n.stamp[t].until = clock + StampTtl
      BY <1>4, <2>1, <2>2
    <3> QED
      BY <1>1, <2>1, <3>1 DEF Barred
  <2>3. CASE t \notin tags
    <3>1. n.stamp[t] = valkey.stamp[t]
      BY <1>4, <2>1, <2>3
    <3> QED
      BY <1>2, <1>5, <2>3, <3>1 DEF Barred
  <2> QED
    BY <2>2, <2>3
<1>6. \A k \in Keys : Cached(n, k) => valkey.page[k].tags \cap Due \subseteq Due'
  BY <1>2, <1>3
<1> QED
  BY <1>1, <1>3, <1>5, <1>6 DEF Follows

LEMMA ExpireFollows ==
  ASSUME SiteTypeOK, NEW s \in Store, NEW time \in Nat, NEW excused, NEW more,
         excused \subseteq more,
         \A r \in Requests : Rendering(r) => time <= request[r].at + RenderLimit
  PROVE  Follows(Expire(s, time), more, s, excused)
<1> DEFINE n == Expire(s, time)
<1>1. \A k \in Keys : Cached(n, k) => n.page[k] = s.page[k]
  BY ExpirePages DEF Cached
<1>2. \A r \in Requests : Rendering(r) =>
        \A t \in Concerns(request[r].key, request[r].tags) :
          Barred(s, request[r], t) => Barred(n, request[r], t)
  BY ConcernsTyped, RenderOf, ExpireKeepsBars
<1> HIDE DEF n
<1>3. Follows(n, more, s, excused)
  BY <1>1, <1>2 DEF Follows
<1> QED
  BY <1>3 DEF n

LEMMA CacheStepKeeps ==
  ASSUME SiteInv, CacheInv', UNCHANGED <<rows, assets, view>>,
         (\E w \in Writers : Purge(w) \/ Lose(w)) \/ Valkey \/ Quiet \/ UNCHANGED vars
  PROVE  SiteInv'
<1>1. CASE \E w \in Writers : Purge(w)
  <2>1. PICK w \in Writers : Purge(w)
    BY <1>1
  <2>2. Due \cup unsaved \subseteq Due' \cup unsaved'
    BY <2>1 DEF Purge, SiteInv, SiteTypeOK, CacheTypeOK, Due
  <2>3. UNCHANGED <<request, saved>>
    BY <2>1 DEF Purge
  <2> QED
    BY <2>1, <2>2, <2>3, PurgeFollows, SameStoreFollows, CacheMoves
<1>2. CASE \E w \in Writers : Lose(w)
  <2>1. PICK w \in Writers : Lose(w)
    BY <1>2
  <2>2. Due \subseteq Due' /\ UNCHANGED <<request, saved, unsaved, valkey>>
    BY <2>1 DEF Lose, SiteInv, SiteTypeOK, CacheTypeOK, Due
  <2>3. Due \cup unsaved \subseteq Due' \cup unsaved'
    BY <2>2
  <2> QED
    BY <2>2, <2>3, SameStoreFollows, CacheMoves
<1>3. CASE Tick
  <2>1. /\ UNCHANGED <<request, saved, unsaved, Due>> /\ valkey' = Expire(valkey, clock')
        /\ clock' = clock + 1
    BY <1>3 DEF Tick, site, Due
  <2>2. clock \in Nat /\ clock' \in Nat /\ valkey \in Store
    BY <2>1 DEF SiteInv, SiteTypeOK, CacheTypeOK
  <2>3. \A r \in Requests : Rendering(r) => clock' <= request[r].at + RenderLimit
    <3> SUFFICES ASSUME NEW r \in Requests, Rendering(r)
                 PROVE  clock' <= request[r].at + RenderLimit
      OBVIOUS
    <3>1. request[r].at \in Nat /\ RenderLimit \in Nat
      BY RenderOf, CacheAssumption DEF SiteInv, CacheAssumption
    <3> QED
      BY <1>3, <2>1, <2>2, <3>1 DEF Tick
  <2>4. Follows(valkey', Due', valkey, Due)
    BY <2>1, <2>2, <2>3, ExpireFollows DEF SiteInv
  <2> QED
    BY <2>1, <2>4, SameStoreFollows, CacheMoves
<1>4. CASE Save
  <2>1. UNCHANGED <<request, valkey, Due>> /\ saved' = valkey /\ unsaved' = {}
    BY <1>4 DEF Save, site, Due
  <2>2. Due \subseteq Due' /\ Due \subseteq Due' \cup unsaved'
    BY <2>1
  <2> QED
    BY <2>1, <2>2, SameStoreFollows, CacheMoves
<1>5. CASE Restart
  <2>1. /\ UNCHANGED <<request, saved, unsaved>> /\ valkey' = Expire(saved, clock)
        /\ Due' = Due \cup unsaved
    BY <1>5 DEF Restart, Due
  <2>2. clock \in Nat /\ saved \in Store
    BY DEF SiteInv, SiteTypeOK, CacheTypeOK
  <2>3. \A r \in Requests : Rendering(r) => clock <= request[r].at + RenderLimit
    BY DEF SiteInv, CacheInv, Timely
  <2>4. Follows(valkey', Due', saved, Due \cup unsaved)
    BY <2>1, <2>2, <2>3, ExpireFollows DEF SiteInv
  <2>5. Due \cup unsaved \subseteq Due' \cup unsaved'
    BY <2>1
  <2> QED
    BY <2>1, <2>4, <2>5, SameStoreFollows, CacheMoves
<1>6. CASE BeginClear \/ Unlink \/ EndClear
  BY <1>6 DEF SiteInv, CacheInv, Unclear, BeginClear, Unlink, EndClear
<1>7. CASE UNCHANGED vars
  <2>1. UNCHANGED <<request, valkey, saved, unsaved, Due>>
    BY <1>7 DEF vars, Due
  <2> QED
    BY <2>1, SameStoreFollows, CacheMoves
<1> QED
  BY <1>1, <1>2, <1>3, <1>4, <1>5, <1>6, <1>7 DEF Valkey, Quiet

(* Every step of the site keeps what is cached right, or about to be purged. *)
LEMMA SiteSound ==
  ASSUME Uniform, NoneAhead, PagesAreBodies, SiteInv, [SiteNext]_siteVars
  PROVE  SiteInv'
<1>1. [CacheNext]_vars
  BY SiteStepCaches DEF SiteInv
<1>2. CacheInv'
  BY <1>1, NextSound DEF SiteInv
<1>3. CASE SiteNext
  BY <1>2, <1>3, SiteSteps, GetKeeps, GoesOnKeeps, GiveUpKeeps, SendsKeeps, RewritesKeep,
     RetitlesKeep, CacheStepKeeps DEF SiteInv
<1>4. CASE UNCHANGED siteVars
  BY <1>2, <1>4, CacheStepKeeps DEF siteVars
<1> QED
  BY <1>3, <1>4

LEMMA SiteStarts ==
  ASSUME MaxClears = 0, SiteInit
  PROVE  SiteInv
<1>1. CacheInv
  BY InitSound DEF SiteInit
<1>2. NoView \in ViewSpace
  BY NoViewTyped
<1>3. SiteTypeOK
  BY <1>1, <1>2, SiteAssumption DEF SiteInit, SiteTypeOK, CacheInv
<1>4. \A r \in Requests : ~Rendering(r)
  BY DEF SiteInit, CacheInit, Rendering, Idle
<1>5. \A k \in Keys : ~Cached(valkey, k) /\ ~Cached(saved, k)
  BY DEF SiteInit, CacheInit, Empty, Cached
<1> QED
  BY <1>1, <1>3, <1>4, <1>5 DEF SiteInv, RendersFit, PagesFit, RendersRight, PagesRight

-----------------------------------------------------------------------------
(* A page that is right is what rendering it would give.                   *)

LEMMA LinksOfAll ==
  ASSUME SiteTypeOK, NoneAhead, NEW g
  PROVE  /\ ListPublishedTranslations(g) = Translated(rows, g)
         /\ LinksOf(ListPublishedTranslations(g)) = {EntryIn(rows, e) : e \in Translated(rows, g)}
<1> DEFINE others == Translated(rows, g)
<1>1. rows \in Contents /\ WellFormed(rows) /\ clock \in Nat
  BY DEF SiteTypeOK, CacheTypeOK
<1>2. ListPublishedTranslations(g) = others /\ \A d \in others : d \in Docs /\ ThereIn(rows, d)
  BY <1>1, QueriesNow, QueriesTyped
<1>3. \A d \in others : Resolves(d) /\ Entry(d) = EntryIn(rows, d)
  BY <1>1, <1>2, RowsNow, WellFormedResolves DEF ResolvesIn
<1> HIDE DEF others
<1>4. LinksOf(others) = {EntryIn(rows, e) : e \in others}
  BY <1>3 DEF LinksOf
<1> QED
  BY <1>2, <1>4 DEF others

(* The slug, the type and the locale of a page name one document.          *)
LEMMA FoundOnce ==
  ASSUME SiteTypeOK, NoneAhead, NEW u, NEW d \in Found(rows, u)
  PROVE  /\ FindPublishedBySlug(u) = {d}
         /\ d \in Docs /\ ThereIn(rows, d) /\ Resolves(d) /\ PubliclyVisible(d, clock)
<1>1. rows \in Contents /\ WellFormed(rows) /\ clock \in Nat
  BY DEF SiteTypeOK, CacheTypeOK
<1>2. d \in Docs /\ ThereIn(rows, d) /\ VisibleIn(rows, d)
  BY DEF Found, VisibleIn
<1>3. \A e \in Found(rows, u) : e = d
  <2> SUFFICES ASSUME NEW e \in Found(rows, u), e # d PROVE FALSE
    OBVIOUS
  <2>1. e \in Docs /\ ThereIn(rows, e)
    BY DEF Found, VisibleIn
  <2>2. <<rows[d].type, rows[d].locale, rows[d].slug>>
          = <<rows[e].type, rows[e].locale, rows[e].slug>>
    BY DEF Found
  <2> QED
    BY <1>1, <1>2, <2>1, <2>2, WellFormedIs
<1>4. FindPublishedBySlug(u) = Found(rows, u)
  BY <1>1, QueriesNow
<1>5. Resolves(d)
  BY <1>1, <1>2, RowsNow, WellFormedResolves DEF ResolvesIn
<1>6. PubliclyVisible(d, clock)
  BY <1>1, <1>2, VisibleNow
<1> QED
  BY <1>2, <1>3, <1>4, <1>5, <1>6

LEMMA KeptFields ==
  ASSUME NEW k, NEW body, NEW tags, Fits(k, Kept(body), tags)
  PROVE  /\ body \in PageBodies
         /\ body = [row |-> body.row, path |-> body.path, links |-> body.links,
                    entries |-> body.entries, pages |-> body.pages, alts |-> body.alts]
         /\ Shape(k, Kept(body)) /\ Kept(body).body = body /\ Kept(body).siblings = {}
         /\ \A queries : Done(Kept(body), queries)
<1>1. Kept(body).body = body /\ Kept(body).siblings = {} /\ Kept(body).todo = {}
  BY DEF Kept, NoView
<1>2. body \in PageBodies /\ Shape(k, Kept(body))
  BY <1>1 DEF Fits, ViewSpace
<1> QED
  BY <1>1, <1>2 DEF PageBodies, Done

DocumentBody(row, path, links, alts) ==
  [Body EXCEPT !.row = row, !.path = path, !.links = links, !.alts = alts]

LEMMA DocumentFilled ==
  ASSUME NEW row, NEW path, NEW links, NEW alts
  PROVE  DocumentBody(row, path, links, alts)
           = [row |-> row, path |-> path, links |-> links, entries |-> {}, pages |-> 0,
              alts |-> alts]
<1> DEFINE start == <<>>
           none == {}
<1>1. Body = [row |-> None, path |-> start, links |-> none, entries |-> none, pages |-> 0,
              alts |-> none]
  BY DEF Body
<1> HIDE DEF start, none
<1> DEFINE b1 == [Body EXCEPT !.row = row]
           b2 == [b1 EXCEPT !.path = path]
           b3 == [b2 EXCEPT !.links = links]
           b4 == [b3 EXCEPT !.alts = alts]
<1>2. b1 = [row |-> row, path |-> start, links |-> none, entries |-> none, pages |-> 0,
            alts |-> none]
  BY <1>1
<1>3. b4 = [row |-> row, path |-> path, links |-> links, entries |-> none, pages |-> 0,
            alts |-> alts]
  <2> HIDE DEF b1
  <2>1. b2 = [row |-> row, path |-> path, links |-> none, entries |-> none, pages |-> 0,
              alts |-> none]
    BY <1>2
  <2> HIDE DEF b2
  <2>2. b3 = [row |-> row, path |-> path, links |-> links, entries |-> none, pages |-> 0,
              alts |-> none]
    BY <2>1
  <2> HIDE DEF b3
  <2> QED
    BY <2>2
<1> QED
  BY <1>3, Zenon DEF none, DocumentBody

LEMMA ListFilled ==
  ASSUME NEW entries, NEW pages, NEW alts
  PROVE  /\ [Body EXCEPT !.entries = entries, !.pages = pages, !.alts = alts]
              = [row |-> None, path |-> <<>>, links |-> {}, entries |-> entries,
                 pages |-> pages, alts |-> alts]
         /\ [Body EXCEPT !.entries = entries]
              = [row |-> None, path |-> <<>>, links |-> {}, entries |-> entries,
                 pages |-> 0, alts |-> {}]
<1> DEFINE start == <<>>
           none == {}
<1>1. Body = [row |-> None, path |-> start, links |-> none, entries |-> none, pages |-> 0,
              alts |-> none]
  BY DEF Body
<1> HIDE DEF start, none
<1> DEFINE c1 == [Body EXCEPT !.entries = entries]
           c2 == [c1 EXCEPT !.pages = pages]
           c3 == [c2 EXCEPT !.alts = alts]
<1>2. c1 = [row |-> None, path |-> start, links |-> none, entries |-> entries, pages |-> 0,
            alts |-> none]
  BY <1>1
<1>3. c3 = [row |-> None, path |-> start, links |-> none, entries |-> entries,
            pages |-> pages, alts |-> alts]
  <2> HIDE DEF c1
  <2>1. c2 = [row |-> None, path |-> start, links |-> none, entries |-> entries,
              pages |-> pages, alts |-> none]
    BY <1>2
  <2> HIDE DEF c2
  <2> QED
    BY <2>1
<1> QED
  BY <1>2, <1>3, Zenon DEF start, none

LEMMA DocumentIsRendered ==
  ASSUME SiteTypeOK, NoneAhead, NEW k \in Keys, NEW body, NEW tags,
         Fits(k, Kept(body), tags), Right(k, Kept(body)),
         k.kind = "document", k.type \notin HierarchicalTypes
  PROVE  body = Rendered(k)
<1> DEFINE d == body.row.id
           g == rows[d].group
<1>1. /\ d \in Found(rows, k) /\ body.row = ShownIn(rows, d)
      /\ body.links = {EntryIn(rows, e) : e \in Translated(rows, body.row.group)}
      /\ body.alts = AltsIn(assets, body.row.refs)
      /\ body.path = k.path /\ body.entries = {} /\ body.pages = 0
  <2>1. /\ RowRight(rows, k, body.row) /\ LinksRight(rows, k, Kept(body))
        /\ body.alts = AltsIn(assets, RefsIn(k, body))
    BY KeptFields DEF Right, TextRight, AltsRight, RowRead, LinksRead, Gathered
  <2>2. body.path = k.path /\ body.entries = {} /\ body.pages = 0
    BY KeptFields DEF Shape, DocumentShape
  <2> QED
    BY <2>1, <2>2, KeptFields DEF RowRight, LinksRight, RefsIn
<1>2. FindPublishedBySlug(k) = {d} /\ d \in Docs /\ Resolves(d)
  BY <1>1, FoundOnce
<1>3. body.row.group = g /\ body.row.refs = rows[d].refs /\ body.row = Shown(d)
  BY <1>1, RowsNow DEF ShownIn
<1>4. PathOf(d) = k.path
  <2>1. rows[d].type = k.type /\ rows[d].slug = Slug(k)
    BY <1>1 DEF Found
  <2>2. k.path = <<Slug(k)>>
    BY SiteAssumption DEF IsRoute
  <2> QED
    BY <2>1, <2>2 DEF PathOf
<1>5. body.links = LinksOf(ListPublishedTranslations(g)) /\ body.alts = AltsOf(rows[d].refs)
  BY <1>1, <1>3, LinksOfAll, AltsNow
<1>6. body = [row |-> Shown(d), path |-> k.path, links |-> LinksOf(ListPublishedTranslations(g)),
              entries |-> {}, pages |-> 0, alts |-> AltsOf(rows[d].refs)]
  BY <1>1, <1>3, <1>5, KeptFields
<1> HIDE DEF d
<1>7. (CHOOSE e \in FindPublishedBySlug(k) : TRUE) = d
  BY <1>2
<1>8. \E e \in FindPublishedBySlug(k) : Resolves(e) /\ PathOf(e) = k.path
  BY <1>2, <1>4
<1> DEFINE links == LinksOf(ListPublishedTranslations(g))
           alts == AltsOf(rows[d].refs)
           row == Shown(d)
<1>9. Rendered(k) = DocumentBody(row, k.path, links, alts)
  BY <1>7, <1>8 DEF Rendered, DocumentBody
<1> HIDE DEF links, alts, row
<1>10. DocumentBody(row, k.path, links, alts)
         = [row |-> row, path |-> k.path, links |-> links, entries |-> {}, pages |-> 0,
            alts |-> alts]
  BY DocumentFilled, Zenon
<1> QED
  BY <1>6, <1>9, <1>10 DEF links, alts, row

LEMMA ListIsRendered ==
  ASSUME SiteTypeOK, NoneAhead, NEW k \in Keys, NEW body, NEW tags,
         Fits(k, Kept(body), tags), Right(k, Kept(body)), OfAList(k),
         k.kind = "archive" => k.number <= body.pages
  PROVE  body = Rendered(k)
<1> DEFINE total == Cardinality(Listed(rows, k))
           shown == PageOf(rows, k)
           entries == {EntryIn(rows, d) : d \in shown}
<1>1. rows \in Contents /\ clock \in Nat
  BY DEF SiteTypeOK, CacheTypeOK
<1>2. /\ body.entries = entries /\ body.pages = PageCount(total)
      /\ body.row = None /\ body.path = <<>> /\ body.links = {}
      /\ k.kind = "archive" => body.alts = {}
      /\ k.kind = "feed" => body.alts = AltsIn(assets, RefsIn(k, body))
  <2>1. body.entries = entries /\ body.pages = PageCount(total)
    BY KeptFields DEF Right, TextRight
  <2>2. k.kind = "feed" => body.alts = AltsIn(assets, RefsIn(k, body))
    BY KeptFields DEF Right, AltsRight, Gathered
  <2>3. /\ body.row = None /\ body.path = <<>> /\ body.links = {}
        /\ k.kind = "archive" => body.alts = {}
    BY KeptFields DEF Shape, ListShape
  <2> QED
    BY <2>1, <2>2, <2>3
<1>3. ListPublished(k, clock) = Listed(rows, k) /\ OnPage(k, clock) = shown
  BY <1>1, QueriesNow
<1>4. \A d : Entry(d) = EntryIn(rows, d)
  BY RowsNow
<1>5. total \in Nat /\ PageCount(total) \in Nat /\ PageCount(total) >= 1
  BY <1>1, QueriesTyped, PagesCount
<1>6. ~(k.number > PageCount(total)) /\ k.kind \in {"archive", "feed"}
  <2>1. k.number \in Nat /\ (k.kind = "feed" => k.number = 1)
    BY SiteAssumption DEF OfAList, IsRoute
  <2> HIDE DEF total
  <2> QED
    BY <1>2, <1>5, <2>1 DEF OfAList
<1>7. k.kind = "feed" => RefsIn(k, body) = RefsOf(shown)
  <2>1. \A d : EntryIn(rows, d).row.refs = rows[d].refs
    BY DEF EntryIn, ShownIn
  <2>2. {e.row.refs : e \in entries} = {rows[d].refs : d \in shown}
    <3> HIDE DEF shown
    <3> QED
      BY <2>1
  <2> HIDE DEF entries, shown
  <2> QED
    BY <1>2, <2>2 DEF RefsIn, RefsOf
<1>8. body.alts = IF k.kind = "feed" THEN AltsOf(RefsOf(shown)) ELSE {}
  BY <1>2, <1>6, <1>7, AltsNow
<1> DEFINE alts == IF k.kind = "feed" THEN AltsOf(RefsOf(shown)) ELSE {}
           pages == PageCount(total)
<1>9. Rendered(k) = [Body EXCEPT !.entries = entries, !.pages = pages, !.alts = alts]
  <2>1. {Entry(d) : d \in OnPage(k, clock)} = entries
    BY <1>3, <1>4
  <2>2. Cardinality(ListPublished(k, clock)) = total
    BY <1>3
  <2>3. alts = IF k.kind = "feed" THEN AltsOf(RefsOf(OnPage(k, clock))) ELSE {}
    BY <1>3
  <2> HIDE DEF entries, alts, total
  <2>4. ~(k.number > PageCount(Cardinality(ListPublished(k, clock)))) /\ k.kind # "document"
    BY <1>6, <2>2
  <2> DEFINE listed == {Entry(d) : d \in OnPage(k, clock)}
             counted == PageCount(Cardinality(ListPublished(k, clock)))
             described == IF k.kind = "feed" THEN AltsOf(RefsOf(OnPage(k, clock))) ELSE {}
  <2>5. Rendered(k) = IF k.number > counted THEN None
                      ELSE [Body EXCEPT !.entries = listed, !.pages = counted,
                                        !.alts = described]
    BY <1>6, <2>4 DEF Rendered
  <2>6. listed = entries /\ counted = pages /\ described = alts /\ ~(k.number > counted)
    BY <2>1, <2>2, <2>3, <2>4
  <2> HIDE DEF listed, counted, described, pages
  <2> QED
    BY <2>5, <2>6
<1>10. body.entries = entries /\ body.pages = pages /\ body.alts = alts
  BY <1>2, <1>8
<1> HIDE DEF entries, pages, alts
<1>11. [Body EXCEPT !.entries = entries, !.pages = pages, !.alts = alts]
         = [row |-> None, path |-> <<>>, links |-> {}, entries |-> entries, pages |-> pages,
            alts |-> alts]
  BY ListFilled, Zenon
<1>12. body = [row |-> None, path |-> <<>>, links |-> {}, entries |-> entries,
               pages |-> pages, alts |-> alts]
  BY <1>2, <1>10, KeptFields
<1> QED
  BY <1>9, <1>11, <1>12

LEMMA SitemapIsRendered ==
  ASSUME SiteTypeOK, NoneAhead, NEW k \in Keys, NEW body, NEW tags,
         Fits(k, Kept(body), tags), Right(k, Kept(body)), k.kind = "sitemap"
  PROVE  body = Rendered(k)
<1> DEFINE entries == SitemapIn(rows)
<1>1. rows \in Contents /\ clock \in Nat
  BY DEF SiteTypeOK, CacheTypeOK
<1>2. body.entries = entries
  BY KeptFields DEF Right, TextRight
<1>3. /\ body.row = None /\ body.path = <<>> /\ body.links = {} /\ body.pages = 0
      /\ body.alts = {}
  BY KeptFields DEF Shape, SitemapShape
<1>4. ListPublishedPaths = ReachedIn(rows)[MAX_ANCESTRY_DEPTH] /\ \A d : Entry(d) = EntryIn(rows, d)
  BY <1>1, QueriesNow, RowsNow
<1>5. Rendered(k) = [Body EXCEPT !.entries = entries]
  BY <1>4 DEF Rendered, SitemapIn
<1> HIDE DEF entries
<1>6. [Body EXCEPT !.entries = entries]
        = [row |-> None, path |-> <<>>, links |-> {}, entries |-> entries, pages |-> 0,
           alts |-> {}]
  BY ListFilled, Zenon
<1>7. body = [row |-> None, path |-> <<>>, links |-> {}, entries |-> entries, pages |-> 0,
              alts |-> {}]
  BY <1>2, <1>3, KeptFields
<1> QED
  BY <1>5, <1>6, <1>7

LEMMA TextIsShown ==
  ASSUME SiteTypeOK, NoneAhead, NEW k \in Keys, NEW body, NEW tags,
         Fits(k, Kept(body), tags), Right(k, Kept(body)), OfATree(k)
  PROVE  /\ PubliclyVisible(body.row.id, clock)
         /\ body.row = Shown(body.row.id)
         /\ {link.row : link \in body.links}
              = {Shown(e) : e \in ListPublishedTranslations(rows[body.row.id].group)}
         /\ body.alts = AltsOf(rows[body.row.id].refs)
<1> DEFINE d == body.row.id
           others == Translated(rows, body.row.group)
<1>1. k.kind = "document" /\ k.type \in HierarchicalTypes
  BY DEF OfATree
<1>2. /\ RowRight(rows, k, body.row) /\ LinksRight(rows, k, Kept(body))
      /\ body.alts = AltsIn(assets, RefsIn(k, body))
  BY <1>1, KeptFields DEF Right, TextRight, AltsRight, RowRead, LinksRead, Gathered
<1>3. d \in Found(rows, k) /\ body.row = ShownIn(rows, d)
  BY <1>2 DEF RowRight
<1>4. PubliclyVisible(d, clock)
  BY <1>3, FoundOnce
<1>5. body.row.group = rows[d].group /\ body.row.refs = rows[d].refs /\ body.row = Shown(d)
  BY <1>3, RowsNow DEF ShownIn
<1>6. body.alts = AltsOf(rows[d].refs)
  BY <1>1, <1>2, <1>5, AltsNow DEF RefsIn
<1>7. {link.row : link \in body.links} = {ShownIn(rows, e) : e \in others}
  <2>1. {link.row : link \in Kept(body).body.links} \cup {s[2] : s \in Kept(body).siblings}
          = {ShownIn(rows, e) : e \in others}
    BY <1>1, <1>2, KeptFields DEF LinksRight
  <2>2. {s[2] : s \in Kept(body).siblings} = {}
    BY KeptFields
  <2> QED
    BY <2>1, <2>2, KeptFields
<1>8. \A e : Shown(e) = ShownIn(rows, e)
  BY RowsNow
<1>9. ListPublishedTranslations(rows[d].group) = others
  BY <1>5, LinksOfAll
<1> HIDE DEF d, others
<1>10. {Shown(e) : e \in ListPublishedTranslations(rows[d].group)} = {ShownIn(rows, e) : e \in others}
  BY <1>8, <1>9
<1> QED
  BY <1>4, <1>5, <1>6, <1>7, <1>10 DEF d

LEMMA RightIsCurrent ==
  ASSUME NoneAhead, SiteInv
  PROVE  PagesAreCurrent
<1>1. SiteTypeOK
  BY DEF SiteInv
<1>2. ASSUME NEW k \in Keys, Cached(valkey, k)
      PROVE  /\ Fits(k, Kept(Now(k)), valkey.page[k].tags)
             /\ k.kind = "archive" => k.number <= Now(k).pages
             /\ Right(k, Kept(Now(k))) \/ PurgeIsDue(k)
  BY <1>2 DEF SiteInv, PagesFit, PagesRight, PurgeIsDue, Now
<1>3. SiteIsCurrent
  <2> SUFFICES ASSUME NEW k \in Keys, ~OfATree(k), Cached(valkey, k), ~PurgeIsDue(k)
               PROVE  Now(k) = Rendered(k)
    BY DEF SiteIsCurrent, Current
  <2>1. k.kind = "document" \/ OfAList(k) \/ k.kind = "sitemap"
    BY SiteAssumption DEF IsRoute, OfAList
  <2>2. Fits(k, Kept(Now(k)), valkey.page[k].tags) /\ Right(k, Kept(Now(k)))
    BY <1>2
  <2>3. CASE k.kind = "document"
    BY <1>1, <2>2, <2>3, DocumentIsRendered DEF OfATree
  <2>4. CASE OfAList(k)
    BY <1>1, <1>2, <2>2, <2>4, ListIsRendered
  <2>5. CASE k.kind = "sitemap"
    BY <1>1, <2>2, <2>5, SitemapIsRendered
  <2> QED
    BY <2>1, <2>3, <2>4, <2>5
<1>4. TextIsCurrent
  <2> SUFFICES ASSUME NEW k \in Keys, OfATree(k), Cached(valkey, k), ~PurgeIsDue(k)
               PROVE  /\ PubliclyVisible(Now(k).row.id, clock)
                      /\ Now(k).row = Shown(Now(k).row.id)
                      /\ {link.row : link \in Now(k).links}
                           = {Shown(e) : e \in
                                ListPublishedTranslations(rows[Now(k).row.id].group)}
                      /\ Now(k).alts = AltsOf(rows[Now(k).row.id].refs)
    BY DEF TextIsCurrent
  <2>1. Fits(k, Kept(Now(k)), valkey.page[k].tags) /\ Right(k, Kept(Now(k)))
    BY <1>2
  <2> QED
    BY <1>1, <2>1, TextIsShown
<1> QED
  BY <1>3, <1>4 DEF PagesAreCurrent

-----------------------------------------------------------------------------
(* What the site says, for every database and every order of its steps.    *)

(* The site drives the cache by the cache's own steps: a request is a miss, *)
(* its queries are reads of tags, its response is kept or dropped, and a   *)
(* commit raises exactly the tags that its event purges (cached-page.ts,   *)
(* invalidation.ts).  What is proved of the cache holds under the site.    *)
THEOREM SiteImplementsCache ==
  ASSUME Uniform, MaxClears = 0, NoneAhead, PagesAreBodies
  PROVE  SiteSpec => CacheSpec
<1>1. SiteInit => SiteInv
  BY SiteStarts
<1>2. SiteInv /\ [SiteNext]_siteVars => SiteInv'
  BY SiteSound
<1>3. SiteInit => CacheInit
  BY DEF SiteInit
<1>4. SiteInv /\ [SiteNext]_siteVars => [CacheNext]_vars
  BY SiteStepCaches DEF SiteInv
<1> QED
  BY <1>1, <1>2, <1>3, <1>4, PTL DEF SiteSpec, CacheSpec

(* Whatever the order of queries, commits, purges and restarts: a cached    *)
(* page is what rendering it now would give, that of a tree but for its    *)
(* path, or a purge of one of its tags is due (ARCHITECTURE.md, "every     *)
(* document, listing and asset the page actually read is recorded").       *)
THEOREM PagesStayCurrent ==
  ASSUME Uniform, MaxClears = 0, NoneAhead, PagesAreBodies
  PROVE  SiteSpec => []PagesAreCurrent
<1>1. SiteInit => SiteInv
  BY SiteStarts
<1>2. SiteInv /\ [SiteNext]_siteVars => SiteInv'
  BY SiteSound
<1>3. SiteInv => PagesAreCurrent
  BY RightIsCurrent
<1> QED
  BY <1>1, <1>2, <1>3, PTL DEF SiteSpec

-----------------------------------------------------------------------------
(* Links.  Of the database alone: that it is well formed.                  *)

LEMMA DatabaseSteps == DatabaseOK /\ [SiteNext]_siteVars => DatabaseOK'
<1> SUFFICES ASSUME DatabaseOK, [SiteNext]_siteVars PROVE DatabaseOK'
  OBVIOUS
<1>1. ASSUME UNCHANGED <<rows, assets>> PROVE DatabaseOK'
  BY <1>1 DEF DatabaseOK
<1>2. ASSUME NEW w \in Writers, Changes(w) PROVE DatabaseOK'
  <2>1. CASE \E tags \in (SUBSET Tags) \ {{}} : Rewrites(w, tags)
    BY <2>1 DEF Rewrites, DatabaseOK
  <2>2. CASE \E m \in Media : Retitles(w, m)
    BY <2>2 DEF Retitles, DatabaseOK
  <2> QED
    BY <1>2, <2>1, <2>2, ChangesWrite
<1>3. ASSUME NEW r \in Requests, Answers(r) \/ GiveUp(r) PROVE UNCHANGED <<rows, assets>>
  <2>1. \A tags, n : Gathers(r, tags, n) => UNCHANGED <<rows, assets>>
    BY DEF Gathers
  <2>2. GiveUp(r) => UNCHANGED <<rows, assets>>
    BY DEF GiveUp
  <2>3. CASE LoadDocument(r) \/ LoadAncestry(r)
    BY <2>1, <2>2, <2>3 DEF LoadDocument, LoadAncestry
  <2>4. CASE LoadTranslations(r) \/ ResolveSibling(r)
    BY <2>1, <2>4 DEF LoadTranslations, ResolveSibling
  <2>5. CASE LoadMedia(r) \/ LoadRows(r) \/ LoadTotal(r) \/ LoadEveryPublishedPath(r)
    BY <2>1, <2>5 DEF LoadMedia, LoadRows, LoadTotal, LoadEveryPublishedPath
  <2>6. CASE Respond(r)
    BY <2>2, <2>6 DEF Respond
  <2> QED
    BY <1>3, <2>2, <2>3, <2>4, <2>5, <2>6 DEF Answers
<1>4. ASSUME NEW r \in Requests, NEW u \in Keys, Get(r, u) PROVE UNCHANGED <<rows, assets>>
  BY <1>4 DEF Get
<1>5. CASE SiteNext
  BY <1>1, <1>2, <1>3, <1>4, <1>5 DEF SiteNext
<1>6. CASE UNCHANGED siteVars
  BY <1>1, <1>6 DEF siteVars
<1> QED
  BY <1>5, <1>6

LEMMA DatabaseStarts == SiteInit => DatabaseOK
BY SiteAssumption DEF SiteInit, DatabaseOK

(* Whoever may be seen has a page of its own, at its canonical path. *)
LEMMA VisibleIsThere ==
  ASSUME DatabaseOK, NEW d \in Docs, PubliclyVisible(d, clock)
  PROVE  Rendered(Entry(d).url) # None
<1> DEFINE u == DocumentUrl(d)
           e == CHOOSE x \in FindPublishedBySlug(u) : TRUE
           links == LinksOf(ListPublishedTranslations(rows[e].group))
           alts == AltsOf(rows[e].refs)
           row == Shown(e)
<1>1. rows \in Contents /\ WellFormed(rows) /\ assets \in [Media -> Nat \cup {Absent}]
  BY DEF DatabaseOK
<1>2. ThereIn(rows, d) /\ Exists(d)
  BY DEF PubliclyVisible, Exists, ThereIn
<1>3. /\ u.kind = "document" /\ u.type = rows[d].type /\ u.locale = rows[d].locale
      /\ u.path = PathOf(d)
  BY DEF DocumentUrl
<1>4. Slug(u) = rows[d].slug
  BY <1>1, <1>3, PathTyped, RowsNow DEF Slug
<1>5. d \in FindPublishedBySlug(u)
  BY <1>3, <1>4 DEF FindPublishedBySlug
<1>6. Resolves(d)
  BY <1>1, <1>2, RowsNow, WellFormedResolves DEF ResolvesIn
<1>7. e \in FindPublishedBySlug(u)
  BY <1>5
<1> HIDE DEF u, e
<1>8. e \in Docs /\ ThereIn(rows, e)
  BY <1>7 DEF FindPublishedBySlug, PubliclyVisible, Exists, ThereIn
<1>9. Rendered(u) = DocumentBody(row, u.path, links, alts)
  BY <1>3, <1>5, <1>6 DEF Rendered, DocumentBody, e
<1>10. row \in ShownRow
  BY <1>1, <1>8, EntryTyped, RowsNow
<1>11. u.path \in Seq(Given("slug"))
  BY <1>1, <1>2, <1>3, SlugsOnly, RowsNow
<1>12. links \in SUBSET EntryOfPage
  <2>1. \A x \in ListPublishedTranslations(rows[e].group) :
          x \in Docs /\ ThereIn(rows, x) /\ Entry(x) = EntryIn(rows, x)
    BY RowsNow DEF ListPublishedTranslations, PubliclyVisible, Exists, ThereIn
  <2> QED
    BY <1>1, <2>1, EntryTyped DEF LinksOf
<1>13. alts \in SUBSET (Media \X Nat)
  <2>1. rows[e].refs \in SUBSET Media
    BY <1>1, <1>8 DEF Contents, RowSpace, ThereIn
  <2> QED
    BY <1>1, <2>1 DEF AltsOf
<1> HIDE DEF row, links, alts
<1>14. DocumentBody(row, u.path, links, alts)
         = [row |-> row, path |-> u.path, links |-> links, entries |-> {}, pages |-> 0,
            alts |-> alts]
  BY DocumentFilled, Zenon
<1>15. DocumentBody(row, u.path, links, alts) \in PageBodies
  <2> DEFINE none == {}
  <2>1. none \in SUBSET EntryOfPage
    OBVIOUS
  <2> HIDE DEF none
  <2>2. [row |-> row, path |-> u.path, links |-> links, entries |-> none, pages |-> 0,
            alts |-> alts] \in PageBodies
    BY <1>10, <1>11, <1>12, <1>13, <2>1 DEF PageBodies
  <2> QED
    BY <1>14, <2>2 DEF none
<1>16. Entry(d).url = u
  BY DEF Entry, u
<1> QED
  BY <1>9, <1>15, <1>16, SiteAssumption

(* The sitemap lists what may be seen. *)
LEMMA PathsAreVisible == \A d \in ListPublishedPaths : d \in Docs /\ PubliclyVisible(d, clock)
<1> DEFINE A == SUBSET Docs
           none == {}
           Down(below) == {d \in Docs : /\ PubliclyVisible(d, clock)
                                        /\ \/ rows[d].parent = None
                                           \/ /\ Alike(rows[d].parent, d)
                                              /\ rows[d].parent \in below}
           up == [below \in A |-> Down(below)]
           N == MAX_ANCESTRY_DEPTH
           reached == CHOOSE f : f = [n \in 0..N |-> IF n = 0 THEN none ELSE Down(f[n - 1])]
<1>1. N \in Nat
  BY SiteAssumption
<1>2. up \in [A -> A]
  OBVIOUS
<1>3. none \in A
  OBVIOUS
<1>4. ListPublishedPaths = reached[N]
  BY DEF ListPublishedPaths
<1>5. \A below : Down(below) \subseteq {d \in Docs : PubliclyVisible(d, clock)}
  OBVIOUS
<1>6. \A below \in A : up[below] = Down(below)
  OBVIOUS
<1> HIDE DEF A, none, Down, up
<1>7. PICK f \in [0..N -> A] : ByLevels(f, N, none, up)
  BY <1>1, <1>2, <1>3, LevelsExist
<1>8. f = [n \in 0..N |-> IF n = 0 THEN none ELSE Down(f[n - 1])]
  <2>1. \A n \in 0..N : n # 0 => f[n - 1] \in A
    BY <1>1
  <2>2. \A n \in 0..N : n # 0 => up[f[n - 1]] = Down(f[n - 1])
    BY <1>6, <2>1
  <2> QED
    BY <1>7, <2>2 DEF ByLevels
<1>9. reached = [n \in 0..N |-> IF n = 0 THEN none ELSE Down(reached[n - 1])]
  BY <1>8
<1> HIDE DEF reached
<1>10. reached[N] = Down(reached[N - 1])
  BY <1>1, <1>9, SiteAssumption
<1> QED
  BY <1>4, <1>5, <1>10

(* Every entry and every link of a page is of a document that may be seen. *)
LEMMA EntriesAreVisible ==
  ASSUME DatabaseOK, NEW u \in Keys, Rendered(u) # None,
         NEW entry \in Rendered(u).entries \cup Rendered(u).links
  PROVE  \E d \in Docs : PubliclyVisible(d, clock) /\ entry = Entry(d)
<1> DEFINE page == Rendered(u)
<1>1. CASE u.kind = "document"
  <2> DEFINE d == CHOOSE d \in FindPublishedBySlug(u) : TRUE
             links == LinksOf(ListPublishedTranslations(rows[d].group))
             alts == AltsOf(rows[d].refs)
             row == Shown(d)
  <2>1. page = DocumentBody(row, u.path, links, alts)
    BY <1>1 DEF Rendered, DocumentBody
  <2> HIDE DEF links, alts, row
  <2>2. DocumentBody(row, u.path, links, alts)
          = [row |-> row, path |-> u.path, links |-> links, entries |-> {}, pages |-> 0,
             alts |-> alts]
    BY DocumentFilled, Zenon
  <2>3. page.entries = {} /\ page.links = links
    BY <2>1, <2>2
  <2> QED
    BY <2>3 DEF links, LinksOf, ListPublishedTranslations
<1>2. CASE OfAList(u)
  <2> DEFINE shown == OnPage(u, clock)
             entries == {Entry(d) : d \in shown}
             pages == PageCount(Cardinality(ListPublished(u, clock)))
             alts == IF u.kind = "feed" THEN AltsOf(RefsOf(shown)) ELSE {}
  <2>1. page = [Body EXCEPT !.entries = entries, !.pages = pages, !.alts = alts]
    BY <1>2 DEF Rendered, OfAList
  <2> HIDE DEF entries, pages, alts
  <2>2. [Body EXCEPT !.entries = entries, !.pages = pages, !.alts = alts]
          = [row |-> None, path |-> <<>>, links |-> {}, entries |-> entries,
             pages |-> pages, alts |-> alts]
    BY ListFilled, Zenon
  <2>3. page.entries = entries /\ page.links = {}
    BY <2>1, <2>2
  <2> QED
    BY <2>3 DEF entries, OnPage, ListPublished
<1>3. CASE u.kind = "sitemap"
  <2> DEFINE entries == {Entry(d) : d \in ListPublishedPaths}
  <2>1. page = [Body EXCEPT !.entries = entries]
    BY <1>3 DEF Rendered
  <2> HIDE DEF entries
  <2>2. [Body EXCEPT !.entries = entries]
          = [row |-> None, path |-> <<>>, links |-> {}, entries |-> entries, pages |-> 0,
             alts |-> {}]
    BY ListFilled, Zenon
  <2>3. page.entries = entries /\ page.links = {}
    BY <2>1, <2>2
  <2> QED
    BY <2>3, PathsAreVisible DEF entries
<1> QED
  BY <1>1, <1>2, <1>3, SiteAssumption DEF IsRoute, OfAList

(* The links of the site are never dead, whatever the database it starts    *)
(* from and the writes that follow: every entry of a list, a feed or the   *)
(* sitemap and every translation of a document leads to a page at its own  *)
(* canonical path (content.ts, "an hreflang that answers 404 is worse than *)
(* a missing one").                                                        *)
THEOREM LinksAlwaysResolve == SiteSpec => []LinksResolve
<1>1. DatabaseOK => LinksResolve
  BY EntriesAreVisible, VisibleIsThere DEF LinksResolve
<1> QED
  BY <1>1, DatabaseStarts, DatabaseSteps, PTL DEF SiteSpec

=============================================================================
