----------------------------- MODULE Documents ------------------------------
(***************************************************************************)
(* What the content repository promises, with the transactions, locks and  *)
(* requests left out: documents that are created, saved, published on time *)
(* and removed, each in one step, decided on the documents as they are in  *)
(* that step.  ContentStore implements it.                                 *)
(***************************************************************************)
EXTENDS Access, FiniteSets

CONSTANTS Docs, Media, UserIds, RoleOf, None, Absent,
          MAX_HIERARCHY_DEPTH, REVISION_LIMIT

VARIABLES
  rows,       \* the documents
  revisions,  \* the superseded states kept of each, with their versions
  media,      \* the assets that exist
  now,
  asking      \* the users whose write is about to happen

vars == <<rows, revisions, media, now, asking>>

Exists(d) == rows[d] # Absent

Actor(u) == [id |-> u, role |-> RoleOf[u]]

-----------------------------------------------------------------------------
(* What must hold of the documents after a write.                          *)

Distinct(db) ==
  \A d, e \in Docs :
    d # e /\ db[d] # Absent /\ db[e] # Absent =>
      /\ db[d].group = db[e].group =>
           db[d].type = db[e].type /\ db[d].locale # db[e].locale
      /\ db[d].type = db[e].type /\ db[d].locale = db[e].locale =>
           db[d].state.slug # db[e].state.slug

(* A parent is a document of the same type and language, and the chain of  *)
(* parents ends within the depth a public path may have.                   *)
Resolves(db, d) ==
  LET path[k \in 0..MAX_HIERARCHY_DEPTH] ==
        IF k = 0 THEN d
        ELSE IF path[k - 1] = None THEN None ELSE db[path[k - 1]].state.parent
  IN path[MAX_HIERARCHY_DEPTH] = None

WellParented(db) ==
  /\ \A d \in Docs :
       LET p == db[d].state.parent
       IN db[d] # Absent /\ p # None =>
            db[p] # Absent /\ db[p].type = db[d].type /\ db[p].locale = db[d].locale
  /\ \A d \in Docs : db[d] # Absent => Resolves(db, d)

Sound(db) ==
  /\ Distinct(db)
  /\ WellParented(db)
  /\ \A d \in Docs : db[d] # Absent => db[d].state.refs \subseteq media

(* One more state is kept, and older ones are let go beyond the limit.     *)
Keeps(d) ==
  LET kept == revisions[d] \cup {[version |-> rows[d].version, state |-> rows[d].state]}
  IN /\ revisions'[d] \subseteq kept
     /\ Cardinality(revisions'[d]) =
          IF Cardinality(kept) <= REVISION_LIMIT THEN Cardinality(kept)
                                                 ELSE REVISION_LIMIT

Untouched(S) == \A d \in Docs \ S : revisions'[d] = revisions[d]

-----------------------------------------------------------------------------
Create(d, u, row) ==
  /\ u \in asking
  /\ ~Exists(d)
  /\ row.version = 1 /\ row.author = u
  /\ CanCreate(Actor(u), row.state.status)
  /\ rows' = [rows EXCEPT ![d] = row]
  /\ Sound(rows')
  /\ UNCHANGED <<revisions, media, now>>

Save(d, u, state) ==
  /\ u \in asking
  /\ Exists(d)
  /\ CanWrite(Actor(u), rows[d].author, rows[d].state.status, state.status)
  /\ rows' = [rows EXCEPT ![d].state = state, ![d].version = @ + 1]
  /\ Sound(rows')
  /\ Keeps(d) /\ Untouched({d})
  /\ UNCHANGED <<media, now>>

Remove(d, u) ==
  /\ u \in asking
  /\ Exists(d)
  /\ CanDelete(Actor(u), rows[d].author, rows[d].state.status)
  /\ rows' = [e \in Docs |->
                IF e = d THEN Absent
                ELSE IF Exists(e) /\ rows[e].state.parent = d
                     THEN [rows[e] EXCEPT !.state.parent = None]
                     ELSE rows[e]]
  /\ revisions' = [revisions EXCEPT ![d] = {}]
  /\ UNCHANGED <<media, now>>

PublishDue(S) ==
  /\ \A d \in S : /\ Exists(d)
                  /\ rows[d].state.status = "scheduled"
                  /\ rows[d].state.date \in 0..now
  /\ rows' = [d \in Docs |->
                IF d \in S
                THEN [rows[d] EXCEPT !.state.status = "published", !.version = @ + 1]
                ELSE rows[d]]
  /\ \A d \in S : Keeps(d)
  /\ Untouched(S)
  /\ UNCHANGED <<media, now>>

DeleteMedia(m) ==
  /\ \A d \in Docs : Exists(d) => m \notin rows[d].state.refs
  /\ media' = media \ {m}
  /\ UNCHANGED <<rows, revisions, now>>

Tick == now' > now /\ UNCHANGED <<rows, revisions, media>>

(* Requests come and go, at any time.                                      *)
Ask == UNCHANGED <<rows, revisions, media, now>>

Init ==
  /\ Sound(rows)
  /\ revisions = [d \in Docs |-> {}]

(* The state a write leaves is any; rows' names the one this step leaves.  *)
Next ==
  \/ \E d \in Docs, u \in UserIds :
       \/ rows'[d] # Absent /\ Create(d, u, rows'[d])
       \/ rows'[d] # Absent /\ Save(d, u, rows'[d].state)
       \/ Remove(d, u)
  \/ PublishDue({d \in Docs : Exists(d) /\ rows'[d] # rows[d]})
  \/ \E m \in Media : DeleteMedia(m)
  \/ Tick
  \/ Ask

Spec == Init /\ [][Next]_vars
=============================================================================
