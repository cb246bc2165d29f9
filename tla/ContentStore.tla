---------------------------- MODULE ContentStore ----------------------------
(***************************************************************************)
(* The content repository over PostgreSQL: createContent, updateContent    *)
(* (a save or a restore), deleteContent and publishDueContent, as the      *)
(* routes and the scheduler call them, each a READ COMMITTED transaction   *)
(* that takes row locks one statement at a time.                           *)
(*                                                                         *)
(* rows, groups, media and revisions are the committed database.  What a   *)
(* transaction has written is seen by nobody else until it commits, and    *)
(* every row it will write is locked before it decides anything, so its    *)
(* writes appear in the commit action.  A unique or foreign key conflict   *)
(* with an uncommitted writer makes the later one wait for the earlier;    *)
(* here the one that commits second meets it at its commit.                *)
(***************************************************************************)
EXTENDS Access, Sequences, FiniteSets

CONSTANTS
  Docs,               \* content ids, ordered as ids are (naturals)
  Groups,             \* translation group ids
  Types,              \* registered content types
  HierarchicalTypes,  \* those whose documents form a tree
  Locales, Slugs, Media,
  UserIds, RoleOf,    \* accounts and the role of each
  Connections,        \* who can have a transaction open: requests, scheduler passes
  None, Absent, Keep, \* no value; no such row; a key a patch leaves out
  MAX_HIERARCHY_DEPTH,
  REVISION_LIMIT,
  Seeds,              \* databases a run may start from
  Creations, Patches, \* the states and patches clients send
  Ops,                \* the operations a run exercises
  MaxTransactions,    \* bound: transactions begun
  MaxTime             \* bound: the wall clock

VARIABLES
  rows,       \* contents: [Docs -> MaybeRow]
  groups,     \* translation_groups: the type of each, or Absent
  media,      \* ids of the media rows that exist
  uses,       \* content_media: the assets each document is on record as using
  revisions,  \* content_revisions, by document
  born,       \* ids handed out so far; a uuid is never reused
  rowLock, groupLock,  \* FOR UPDATE holders
  tx,         \* one record per connection
  ticks,      \* transactions begun, which orders their now()
  now         \* the wall clock publication dates are compared with

db    == <<rows, groups, media, uses, revisions, born>>
locks == <<rowLock, groupLock>>
vars  == <<rows, groups, media, uses, revisions, born, rowLock, groupLock, tx,
           ticks, now>>

-----------------------------------------------------------------------------
(* Rows, patches and connections.                                          *)

Times == 0..MaxTime

State == [slug: Slugs, status: Statuses, date: Times \cup {None},
          parent: Docs \cup {None}, refs: SUBSET Media]

Patch == [slug: Slugs \cup {Keep}, status: Statuses \cup {Keep},
          date: Times \cup {None, Keep}, parent: Docs \cup {None, Keep},
          refs: (SUBSET Media) \cup {Keep}]

Row == [type: Types, locale: Locales, group: Groups,
        author: UserIds \cup {Nobody}, version: Nat \ {0}, state: State]

Revision == [version: Nat \ {0}, state: State, at: Nat]

Event == {"content:created", "content:updated", "content:published",
          "content:unpublished", "content:deleted"}

Steps == {"idle", "composing", "lockGroup", "lockRow", "walk", "measure",
          "lockChildren", "claim", "commit", "announce"}

Operations == {"none", "create", "update", "restore", "delete", "publishDue"}

Optional(S) == S \cup {None}

MaybeRow == Row \cup {Absent}

Announcement == [doc: Docs, name: Event]

DueRows == SUBSET (Times \X Docs)

Transaction ==
  [pc: Steps, op: Operations,
   user: Optional(UserIds),
   doc: Optional(Docs),              \* the document addressed
   form: MaybeRow,                   \* what the client had read, version included
   patch: Optional(Patch),           \* what it sends
   cur: MaybeRow,                    \* the row as read under its lock
   next: Optional(State),            \* the state about to be written
   type: Optional(Types), locale: Optional(Locales),
   group: Optional(Groups),          \* the group to lock or join
   members: SUBSET Docs,             \* its members when the join was authorized
   at: Optional(Docs),               \* the row the current statement must lock
   depth: Nat,                       \* ancestors walked
   children: SUBSET Docs,            \* rows whose parent goes, still to be locked
   orphaned: SUBSET Docs,            \* those locked already
   due: DueRows,                     \* a publish pass's result set, still to be locked
   claimed: Seq(Docs),               \* those locked and still due
   started: Nat,                     \* now() of the transaction
   clock: Times,                     \* new Date() of the request
   outbox: Seq(Announcement)]        \* events still to be emitted

Idle ==
  [pc |-> "idle", op |-> "none", user |-> None, doc |-> None, form |-> Absent,
   patch |-> None, cur |-> Absent, next |-> None, type |-> None, locale |-> None,
   group |-> None, members |-> {}, at |-> None, depth |-> 0, children |-> {},
   orphaned |-> {}, due |-> {}, claimed |-> <<>>, started |-> 0, clock |-> 0,
   outbox |-> <<>>]

Actor(u) == [id |-> u, role |-> RoleOf[u]]

Exists(d) == rows[d] # Absent

MembersOf(g) == {d \in Docs : Exists(d) /\ rows[d].group = g}

ChildrenOf(d) == {c \in Docs : Exists(c) /\ rows[c].state.parent = d}

IsDue(d, moment) ==
  /\ Exists(d)
  /\ rows[d].state.status = "scheduled"
  /\ rows[d].state.date # None
  /\ rows[d].state.date <= moment

ContentAssumption ==
  /\ Docs \subseteq Nat
  /\ IsFiniteSet(Docs)
  /\ HierarchicalTypes \subseteq Types
  /\ RoleOf \in [UserIds -> Roles]
  /\ None \notin Docs \cup Groups \cup Nat \cup Connections \cup State
  /\ Absent \notin Row \cup Types
  /\ MAX_HIERARCHY_DEPTH \in Nat \ {0}
  /\ REVISION_LIMIT \in Nat \ {0}
  /\ MaxTime \in Nat
  /\ MaxTransactions \in Nat
  /\ Seeds \subseteq [Docs -> MaybeRow]
  /\ Creations \subseteq State
  /\ Patches \subseteq Patch

ASSUME ContentAssumption

(* A run starts from documents as their creation left them: a first        *)
(* version, a path of at most MAX_HIERARCHY_DEPTH to each, of documents of *)
(* its type and language that exist, one type in each group                *)
(* (contents_translation_group_fk) and no two rows alike in what the       *)
(* unique indexes cover.                                                   *)
Rooted(seed) ==
  \E level \in [Docs -> 1..MAX_HIERARCHY_DEPTH] :
    \A d \in Docs : seed[d] # Absent =>
      LET above == seed[d].state.parent
      IN IF above = None THEN level[d] = 1
         ELSE seed[above] # Absent /\ level[d] = level[above] + 1

Apart(row, other) ==
  /\ row.group = other.group =>
       row.type = other.type /\ row.locale # other.locale
  /\ row.type = other.type /\ row.locale = other.locale =>
       row.state.slug # other.state.slug

SeedsAssumption ==
  \A seed \in Seeds :
    /\ Rooted(seed)
    /\ \A d \in Docs : seed[d] # Absent =>
         /\ seed[d].version = 1
         /\ \A e \in Docs \ {d} : seed[e] # Absent => Apart(seed[e], seed[d])
         /\ \A p \in Docs : p = seed[d].state.parent =>
              seed[p].type = seed[d].type /\ seed[p].locale = seed[d].locale

ASSUME SeedsAssumption

-----------------------------------------------------------------------------
(* Locks.  A statement that must lock a row waits while another            *)
(* transaction holds it; commit, refusal and rollback release everything.  *)
(* Mistake: FOR UPDATE forgotten, a reader of a row never waits.           *)
RowFree_NoLock(t, d) == TRUE

RowFree(t, d)   == rowLock[d] \in {None, t}
GroupFree_NoLock(t, g) == TRUE

GroupFree(t, g) == groupLock[g] \in {None, t}

TakeRow(t, d)   == rowLock' = [rowLock EXCEPT ![d] = t]
TakeGroup(t, g) == groupLock' = [groupLock EXCEPT ![g] = t]
(* Mistake: the locks of groups outlive the transaction.                   *)
Release_RowsOnly(t) ==
  /\ rowLock' = [d \in Docs |-> IF rowLock[d] = t THEN None ELSE rowLock[d]]
  /\ UNCHANGED groupLock

Release(t) ==
  /\ rowLock'   = [d \in Docs   |-> IF rowLock[d] = t   THEN None ELSE rowLock[d]]
  /\ groupLock' = [g \in Groups |-> IF groupLock[g] = t THEN None ELSE groupLock[g]]

RowSteps == {"lockRow", "walk", "lockChildren", "claim"}

BlockedBy(t) ==
  LET holder == CASE tx[t].pc = "lockGroup" -> groupLock[tx[t].group]
                  [] tx[t].pc \in RowSteps  -> rowLock[tx[t].at]
                  [] OTHER                  -> None
  IN {holder} \ {None, t}

(* Connections that wait for each other, all of them and nobody else.      *)
InCycle(S) ==
  /\ S # {}
  /\ \A t \in S : /\ BlockedBy(t) \cap S # {}
                 /\ \E s \in S : t \in BlockedBy(s)

Moves(t, changes) == tx' = [tx EXCEPT ![t] = changes]

(* The transaction ends having changed nothing: a refusal, a missing row,  *)
(* or an error rethrown by the repository.                                 *)
Ends(t) == Moves(t, Idle) /\ Release(t)

Refuse(t) == Ends(t) /\ UNCHANGED <<db, ticks, now>>

(* It ends by committing, and its events are emitted afterwards.           *)
Commits(t, events) ==
  /\ Moves(t, [Idle EXCEPT !.pc = "announce", !.outbox = events])
  /\ Release(t)
  /\ UNCHANGED <<ticks, now>>

(* BEGIN: the moment now() will report for the rest of the transaction.    *)
Begins(t, changes) ==
  /\ ticks < MaxTransactions
  /\ ticks' = ticks + 1
  /\ Moves(t, [changes EXCEPT !.started = ticks + 1, !.clock = now])
  /\ UNCHANGED <<db, locks, now>>

-----------------------------------------------------------------------------
(* What a write does to a document, and what the schema accepts.           *)

(* Mistake: a key the patch leaves out is written all the same.            *)
Kept_Verbatim(new, old) == new

Kept(new, old) == IF new = Keep THEN old ELSE new

Merge(state, patch) ==
  [slug   |-> Kept(patch.slug, state.slug),
   status |-> Kept(patch.status, state.status),
   date   |-> Kept(patch.date, state.date),
   parent |-> Kept(patch.parent, state.parent),
   refs   |-> Kept(patch.refs, state.refs)]

StampPublication(state, moment) ==
  IF state.status = "published" /\ state.date = None
  THEN [state EXCEPT !.date = moment]
  ELSE state

(* stateSchema: a flat type has no parent, a schedule needs a date.        *)
Parse(type, state) ==
  IF type \in HierarchicalTypes THEN state ELSE [state EXCEPT !.parent = None]

ValidState(state) == state.status = "scheduled" => state.date # None

(* The state an update would write: a save stamps the date on the way into *)
(* published, a restore takes the revision as it is.                       *)
Derive(t, current) ==
  LET merged == Merge(current.state, tx[t].patch)
  IN Parse(current.type,
           IF tx[t].op = "update" /\ current.state.status # "published"
           THEN StampPublication(merged, tx[t].clock)
           ELSE merged)

(* The unique indexes, foreign keys and check constraint of contents and   *)
(* content_media, for document d about to carry row.                       *)
ConstraintsHold(d, row) ==
  /\ row.group \in born => groups[row.group] = row.type
  /\ \A e \in Docs \ {d} : Exists(e) =>
        /\ ~(rows[e].group = row.group /\ rows[e].locale = row.locale)
        /\ ~(/\ rows[e].type = row.type
             /\ rows[e].locale = row.locale
             /\ rows[e].state.slug = row.state.slug)
  /\ row.state.parent # None =>
        /\ row.state.parent # d
        /\ Exists(row.state.parent)
        /\ rows[row.state.parent].type = row.type
        /\ rows[row.state.parent].locale = row.locale
  /\ row.state.refs \ uses[d] \subseteq media
(* Mistake: references are never removed.                                  *)
SyncMediaReferences_AddOnly(d, refs) ==
  [uses EXCEPT ![d] = @ \cup refs]

(* syncMediaReferences, by difference: a foreign key is checked for the     *)
(* rows added and for no other.                                            *)
SyncMediaReferences(d, refs) ==
  LET gone  == uses[d] \ refs
      added == refs \ uses[d]
  IN [uses EXCEPT ![d] = (@ \ gone) \cup added]

(* Mistake: the oldest first.                                              *)
Newer_Ascending(r, s) == r.at < s.at \/ (r.at = s.at /\ r.version < s.version)

(* pruneRevisions: the newest REVISION_LIMIT, by created_at then version.  *)
Newer(r, s) == r.at > s.at \/ (r.at = s.at /\ r.version > s.version)

Prune(history) ==
  {r \in history : Cardinality({s \in history : Newer(s, r)}) < REVISION_LIMIT}

(* insertContentRevision then pruneRevisions, of the row being superseded. *)
Superseded(t, d, current) ==
  Prune(revisions[d] \cup
          {[version |-> current.version, state |-> current.state,
            at |-> tx[t].started]})
(* Mistake: the two statuses the wrong way round.                          *)
TransitionsFor_Swapped(previous, next) ==
  <<"content:updated">>
    \o (IF previous = "published" /\ next # "published"
        THEN <<"content:published">> ELSE <<>>)
    \o (IF previous # "published" /\ next = "published"
        THEN <<"content:unpublished">> ELSE <<>>)

TransitionsFor(previous, next) ==
  <<"content:updated">>
    \o (IF previous # "published" /\ next = "published"
        THEN <<"content:published">> ELSE <<>>)
    \o (IF previous = "published" /\ next # "published"
        THEN <<"content:unpublished">> ELSE <<>>)

About(d, names) == [i \in 1..Len(names) |-> [doc |-> d, name |-> names[i]]]

-----------------------------------------------------------------------------
(* Clients.  A form is what a client read before it sends a save, a        *)
(* restore; the version in it is the expectedVersion it will state.        *)

OpenForm(t, u, d) ==
  /\ tx[t].pc = "idle"
  /\ Ops \cap {"update", "restore"} # {}
  /\ Exists(d)
  /\ CanRead(Actor(u), rows[d].author, rows[d].state.status)
  /\ Moves(t, [Idle EXCEPT !.pc = "composing", !.user = u, !.doc = d,
                           !.form = rows[d]])
  /\ UNCHANGED <<db, locks, ticks, now>>

-----------------------------------------------------------------------------
(* POST /content/:type and createContent.                                  *)

BeginCreate(t, u) ==
  /\ "create" \in Ops
  /\ tx[t].pc = "idle"
  /\ \E type \in Types, locale \in Locales, sent \in Creations,
        group \in Groups \cup {None} :
       LET state == StampPublication(Parse(type, sent), now)
           next  == IF group # None THEN "lockGroup"
                    ELSE IF state.parent # None THEN "walk" ELSE "commit"
       IN /\ sent.parent # None => type \in HierarchicalTypes
          /\ ValidState(sent)
          /\ CanCreate(Actor(u), sent.status)
          /\ Begins(t, [Idle EXCEPT !.pc = next, !.op = "create", !.user = u,
                          !.type = type, !.locale = locale, !.group = group,
                          !.next = state, !.at = state.parent])

(* joinGroup: the group's lock, its type, who may join, its languages.     *)
JoinRefused(t) ==
  LET g == tx[t].group
  IN \/ groups[g] = Absent
     \/ groups[g] # tx[t].type
     \/ ~CanJoin(Actor(tx[t].user), {rows[d] : d \in MembersOf(g)})
     \/ \E d \in MembersOf(g) : rows[d].locale = tx[t].locale

JoinGroup(t) ==
  /\ tx[t].pc = "lockGroup" /\ tx[t].op = "create"
  /\ GroupFree(t, tx[t].group)
  /\ \/ JoinRefused(t) /\ Refuse(t)
     \/ /\ ~JoinRefused(t)
        /\ TakeGroup(t, tx[t].group)
        /\ Moves(t, [tx[t] EXCEPT
             !.pc = IF tx[t].at # None THEN "walk" ELSE "commit",
             !.members = MembersOf(tx[t].group)])
        /\ UNCHANGED <<db, rowLock, ticks, now>>

(* The row and, unless it joins, the group are given fresh ids.            *)
CommitCreate(t) ==
  /\ tx[t].pc = "commit" /\ tx[t].op = "create"
  /\ \E d \in Docs \ born,
        g \in IF tx[t].group = None THEN Groups \ born ELSE {tx[t].group} :
       LET row == [type |-> tx[t].type, locale |-> tx[t].locale, group |-> g,
                   author |-> tx[t].user, version |-> 1, state |-> tx[t].next]
       IN \/ ~ConstraintsHold(d, row) /\ Refuse(t)
          \/ /\ ConstraintsHold(d, row)
             /\ rows' = [rows EXCEPT ![d] = row]
             /\ groups' = [groups EXCEPT ![g] = tx[t].type]
             /\ uses' = SyncMediaReferences(d, row.state.refs)
             /\ born' = born \cup {d, g}
             /\ Commits(t, About(d, <<"content:created">>))
             /\ UNCHANGED <<media, revisions>>

-----------------------------------------------------------------------------
(* assertUsableParent, for a creation or a move: every ancestor of the new *)
(* parent is locked on the way up, then the height of what moves is read.  *)

ParentLoops(t) ==
  \/ tx[t].at = tx[t].doc
  \/ tx[t].depth + 1 > MAX_HIERARCHY_DEPTH + 1

ParentUnusable(t) ==
  LET p == tx[t].at
  IN Exists(p) => /\ tx[t].depth = 0
                  /\ \/ rows[p].type # tx[t].type
                     \/ rows[p].locale # tx[t].locale

RefuseParent(t) ==
  /\ tx[t].pc = "walk"
  /\ \/ ParentLoops(t)
     \/ RowFree(t, tx[t].at) /\ ParentUnusable(t)
  /\ Refuse(t)

LockAncestor(t) ==
  LET p == tx[t].at
      above == rows[p].state.parent
  IN /\ tx[t].pc = "walk"
     /\ ~ParentLoops(t)
     /\ RowFree(t, p)
     /\ ~ParentUnusable(t)
     /\ TakeRow(t, p)
     /\ Moves(t, [tx[t] EXCEPT !.pc = IF above = None THEN "measure" ELSE "walk",
                               !.at = above, !.depth = @ + 1])
     /\ UNCHANGED <<db, groupLock, ticks, now>>

(* subtreeHeight: levels of descendants, never further than the limit.     *)
SubtreeHeight(d) ==
  LET level[k \in 0..MAX_HIERARCHY_DEPTH] ==
        IF k = 0 THEN {d} ELSE UNION {ChildrenOf(c) : c \in level[k - 1]}
  IN Cardinality({k \in 0..MAX_HIERARCHY_DEPTH : level[k] # {}})
(* Mistake: the subtree that moves is not counted.                         *)
TooDeep_NodeOnly(t) == tx[t].depth + 1 > MAX_HIERARCHY_DEPTH

TooDeep(t) ==
  LET height == IF tx[t].op = "create" THEN 1 ELSE SubtreeHeight(tx[t].doc)
  IN tx[t].depth + height > MAX_HIERARCHY_DEPTH

MeasureHeight(t) ==
  /\ tx[t].pc = "measure"
  /\ \/ TooDeep(t) /\ Refuse(t)
     \/ /\ ~TooDeep(t)
        /\ Moves(t, [tx[t] EXCEPT !.pc = "commit"])
        /\ UNCHANGED <<db, locks, ticks, now>>

-----------------------------------------------------------------------------
(* PATCH /content/:type/:id, the restore route, and updateContent.         *)

BeginUpdate(t) ==
  /\ "update" \in Ops
  /\ tx[t].pc = "composing"
  /\ \E p \in Patches :
       /\ p.parent = Keep \/ tx[t].form.type \in HierarchicalTypes
       /\ Begins(t, [tx[t] EXCEPT !.pc = "lockRow", !.op = "update",
                                  !.at = tx[t].doc, !.patch = p])

(* The route looks at the row and at the revision before the transaction;  *)
(* it may be turned away there, and is authorized again under the lock.    *)
BeginRestore(t) ==
  LET d == tx[t].doc
  IN /\ "restore" \in Ops
     /\ tx[t].pc = "composing"
     /\ Exists(d)
     /\ CanWrite(Actor(tx[t].user), rows[d].author, rows[d].state.status,
                 rows[d].state.status)
     /\ \E r \in revisions[d] :
          Begins(t, [tx[t] EXCEPT !.pc = "lockRow", !.op = "restore",
                                  !.at = d, !.patch = r.state])
(* Mistake: the precondition is not looked at.                             *)
StaleVersion_Any(t, current) == FALSE

StaleVersion(t, current) == tx[t].form.version # current.version
(* Mistake: only the status aimed at is asked about, or nothing at all.    *)
MayUpdate_TargetOnly(t, current) ==
  LET status == Derive(t, current).status
  IN CanWrite(Actor(tx[t].user), current.author, status, status)

MayUpdate_Always(t, current) == TRUE

MayUpdate(t, current) ==
  CanWrite(Actor(tx[t].user), current.author, current.state.status,
           Derive(t, current).status)

UpdateRefused(t) ==
  LET current == rows[tx[t].doc]
  IN current # Absent => \/ StaleVersion(t, current)
                         \/ ~ValidState(Derive(t, current))
                         \/ ~MayUpdate(t, current)

(* Version, merge, validation and authorization, all against the locked    *)
(* row; the walk follows only when the parent changes to another document. *)
LockForUpdate(t) ==
  /\ tx[t].pc = "lockRow" /\ tx[t].op \in {"update", "restore"}
  /\ RowFree(t, tx[t].doc)
  /\ \/ UpdateRefused(t) /\ Refuse(t)
     \/ LET current == rows[tx[t].doc]
            next    == Derive(t, current)
            moves   == next.parent \notin {None, current.state.parent}
        IN /\ ~UpdateRefused(t)
           /\ TakeRow(t, tx[t].doc)
           /\ Moves(t, [tx[t] EXCEPT
                !.pc = IF moves THEN "walk" ELSE "commit",
                !.at = IF moves THEN next.parent ELSE None,
                !.cur = current, !.next = next,
                !.type = current.type, !.locale = current.locale])
           /\ UNCHANGED <<db, groupLock, ticks, now>>

CommitUpdate(t) ==
  LET d   == tx[t].doc
      row == [tx[t].cur EXCEPT !.state = tx[t].next, !.version = @ + 1]
  IN /\ tx[t].pc = "commit" /\ tx[t].op \in {"update", "restore"}
     /\ \/ ~ConstraintsHold(d, row) /\ Refuse(t)
        \/ /\ ConstraintsHold(d, row)
           /\ rows' = [rows EXCEPT ![d] = row]
           /\ revisions' = [revisions EXCEPT ![d] = Superseded(t, d, tx[t].cur)]
           /\ uses' = SyncMediaReferences(d, row.state.refs)
           /\ Commits(t, About(d, TransitionsFor(tx[t].cur.state.status,
                                                 tx[t].next.status)))
           /\ UNCHANGED <<groups, media, born>>

-----------------------------------------------------------------------------
(* DELETE /content/:type/:id and deleteContent.                            *)

BeginDelete(t, u, d) ==
  /\ "delete" \in Ops
  /\ tx[t].pc = "idle"
  /\ Exists(d)
  /\ Begins(t, [Idle EXCEPT !.pc = "lockGroup", !.op = "delete", !.user = u,
                            !.doc = d, !.group = rows[d].group, !.at = d])

(* The group may have gone while this waited; then there is nothing to lock. *)
LockGroupOfDeleted(t) ==
  /\ tx[t].pc = "lockGroup" /\ tx[t].op = "delete"
  /\ GroupFree(t, tx[t].group)
  /\ IF groups[tx[t].group] = Absent THEN UNCHANGED groupLock
                                     ELSE TakeGroup(t, tx[t].group)
  /\ Moves(t, [tx[t] EXCEPT !.pc = "lockRow"])
  /\ UNCHANGED <<db, rowLock, ticks, now>>

DeleteRefused(t) ==
  LET d == tx[t].doc
  IN Exists(d) =>
       ~CanDelete(Actor(tx[t].user), rows[d].author, rows[d].state.status)

(* The next row of a set that one statement locks in no particular order.  *)
SomeOf(S) == IF S = {} THEN {None} ELSE S

LockForDelete(t) ==
  LET d == tx[t].doc
  IN /\ tx[t].pc = "lockRow" /\ tx[t].op = "delete"
     /\ RowFree(t, d)
     /\ \/ DeleteRefused(t) /\ Refuse(t)
        \/ /\ ~DeleteRefused(t)
           /\ TakeRow(t, d)
           /\ \E c \in SomeOf(ChildrenOf(d)) :
                Moves(t, [tx[t] EXCEPT
                  !.pc = IF c = None THEN "commit" ELSE "lockChildren",
                  !.at = c, !.cur = rows[d], !.children = ChildrenOf(d)])
           /\ UNCHANGED <<db, groupLock, ticks, now>>

(* The statement that orphans the children: each is locked in turn, and    *)
(* left as it is if it is no longer a child once the lock is granted.      *)
LockChild(t) ==
  LET c     == tx[t].at
      left  == tx[t].children \ {c}
      still == c \in ChildrenOf(tx[t].doc)
  IN /\ tx[t].pc = "lockChildren"
     /\ RowFree(t, c)
     /\ IF Exists(c) THEN TakeRow(t, c) ELSE UNCHANGED rowLock
     /\ \E e \in SomeOf(left) :
          Moves(t, [tx[t] EXCEPT
            !.pc = IF e = None THEN "commit" ELSE "lockChildren",
            !.at = e, !.children = left,
            !.orphaned = IF still THEN @ \cup {c} ELSE @])
     /\ UNCHANGED <<db, groupLock, ticks, now>>

(* No member of the group remains once d is gone.                          *)
Emptied(d, g) == MembersOf(g) \subseteq {d}

(* The children's rows change here without a version or a revision.  The   *)
(* foreign key refuses the delete if a child was missed.                   *)
CommitDelete(t) ==
  LET d == tx[t].doc
      g == tx[t].group
  IN /\ tx[t].pc = "commit" /\ tx[t].op = "delete"
     /\ \/ ~(ChildrenOf(d) \subseteq tx[t].orphaned) /\ Refuse(t)
        \/ /\ ChildrenOf(d) \subseteq tx[t].orphaned
           /\ rows' = [e \in Docs |->
                         IF e = d THEN Absent
                         ELSE IF e \in tx[t].orphaned
                              THEN [rows[e] EXCEPT !.state.parent = None]
                              ELSE rows[e]]
           /\ groups' = IF Emptied(d, g)
                        THEN [groups EXCEPT ![g] = Absent] ELSE groups
           /\ revisions' = [revisions EXCEPT ![d] = {}]
           /\ uses' = [uses EXCEPT ![d] = {}]
           /\ Commits(t, About(d, <<"content:deleted">>))
           /\ UNCHANGED <<media, born>>

-----------------------------------------------------------------------------
(* publishDueContent, called by the scheduler of some API process.  The    *)
(* statement's snapshot and its order are taken first, then its rows are   *)
(* locked one by one, each re-evaluated once its lock is granted; one that *)
(* no longer qualifies is left out and stays locked.                       *)

Earliest(due) ==
  {x \in due : \A y \in due : x[1] < y[1] \/ (x[1] = y[1] /\ x[2] <= y[2])}

NextDue(due) == IF due = {} THEN {None} ELSE {x[2] : x \in Earliest(due)}

BeginPublishDue(t) ==
  LET due == {<<rows[d].state.date, d>> : d \in {e \in Docs : IsDue(e, now)}}
  IN /\ "publishDue" \in Ops
     /\ tx[t].pc = "idle"
     /\ due # {}
     /\ \E d \in NextDue(due) :
          Begins(t, [Idle EXCEPT !.pc = "claim", !.op = "publishDue",
                                 !.due = due, !.at = d])
(* Mistake: the pass trusts what its snapshot said.                        *)
StillDue_AsRead(t, d) == Exists(d)

(* The predicate again, on the row now locked.                             *)
StillDue(t, d) == IsDue(d, tx[t].clock)

Claim(t) ==
  LET d     == tx[t].at
      left  == tx[t].due \ Earliest(tx[t].due)
      still == StillDue(t, d)
  IN /\ tx[t].pc = "claim"
     /\ RowFree(t, d)
     /\ IF Exists(d) THEN TakeRow(t, d) ELSE UNCHANGED rowLock
     /\ \E e \in NextDue(left) :
          Moves(t, [tx[t] EXCEPT !.pc = IF e = None THEN "commit" ELSE "claim",
                                 !.due = left, !.at = e,
                                 !.claimed = IF still THEN Append(@, d) ELSE @])
     /\ UNCHANGED <<db, groupLock, ticks, now>>

Claimed(t) == {tx[t].claimed[i] : i \in 1..Len(tx[t].claimed)}

(* Every claimed row is recorded, versioned and published, or none is.     *)
Publish(row) == [row EXCEPT !.state.status = "published", !.version = @ + 1]

PublicationEvents(t) ==
  [i \in 1..(2 * Len(tx[t].claimed)) |->
     [doc  |-> tx[t].claimed[(i + 1) \div 2],
      name |-> IF i % 2 = 1 THEN "content:updated" ELSE "content:published"]]

CommitPublishDue(t) ==
  /\ tx[t].pc = "commit" /\ tx[t].op = "publishDue"
  /\ rows' = [d \in Docs |-> IF d \in Claimed(t) THEN Publish(rows[d]) ELSE rows[d]]
  /\ revisions' = [d \in Docs |-> IF d \in Claimed(t)
                                  THEN Superseded(t, d, rows[d])
                                  ELSE revisions[d]]
  /\ Commits(t, PublicationEvents(t))
  /\ UNCHANGED <<groups, media, uses, born>>

-----------------------------------------------------------------------------
(* After the commit the route or the scheduler emits each event and waits  *)
(* for the handlers; a handler's failure is reported, never thrown.        *)

Announce(t) ==
  /\ tx[t].pc = "announce"
  /\ Moves(t, IF Len(tx[t].outbox) <= 1 THEN Idle
              ELSE [tx[t] EXCEPT !.outbox = Tail(@)])
  /\ UNCHANGED <<db, locks, ticks, now>>

-----------------------------------------------------------------------------
(* The environment.                                                        *)

(* deleteMediaRow: the foreign key refuses it while a document uses it.    *)
DeleteMedia(m) ==
  /\ "deleteMedia" \in Ops
  /\ m \in media
  /\ \A d \in Docs : m \notin uses[d]
  /\ media' = media \ {m}
  /\ UNCHANGED <<rows, groups, uses, revisions, born, locks, tx, ticks, now>>

(* PostgreSQL ends a cycle of waiting transactions by failing one of them. *)
BreakDeadlock(t) ==
  /\ \E S \in SUBSET Connections : t \in S /\ InCycle(S)
  /\ Refuse(t)

(* The connection drops, the process dies, the client walks away: what was *)
(* not committed is rolled back, what was not announced never will be.     *)
Abort(t) ==
  /\ tx[t].pc # "idle"
  /\ Refuse(t)

Tick ==
  /\ now < MaxTime
  /\ now' = now + 1
  /\ UNCHANGED <<db, locks, tx, ticks>>

-----------------------------------------------------------------------------
Init ==
  /\ rows \in Seeds
  /\ groups = [g \in Groups |->
                 IF MembersOf(g) = {} THEN Absent
                 ELSE rows[CHOOSE d \in MembersOf(g) : TRUE].type]
  /\ media = Media
  /\ uses = [d \in Docs |-> IF Exists(d) THEN rows[d].state.refs ELSE {}]
  /\ revisions = [d \in Docs |-> {}]
  /\ born = {d \in Docs : Exists(d)} \cup {g \in Groups : MembersOf(g) # {}}
  /\ rowLock = [d \in Docs |-> None]
  /\ groupLock = [g \in Groups |-> None]
  /\ tx = [t \in Connections |-> Idle]
  /\ ticks = 0
  /\ now = 0

(* What a connection does once its transaction has begun.                  *)
Proceed(t) ==
  \/ JoinGroup(t)
  \/ CommitCreate(t)
  \/ RefuseParent(t)
  \/ LockAncestor(t)
  \/ MeasureHeight(t)
  \/ LockForUpdate(t)
  \/ CommitUpdate(t)
  \/ LockGroupOfDeleted(t)
  \/ LockForDelete(t)
  \/ LockChild(t)
  \/ CommitDelete(t)
  \/ Claim(t)
  \/ CommitPublishDue(t)
  \/ Announce(t)
  \/ BreakDeadlock(t)

Request(t) ==
  \/ \E u \in UserIds, d \in Docs : OpenForm(t, u, d) \/ BeginDelete(t, u, d)
  \/ \E u \in UserIds : BeginCreate(t, u)
  \/ BeginUpdate(t)
  \/ BeginRestore(t)
  \/ BeginPublishDue(t)

(* Nothing is under way: every request has been answered.                  *)
Quiet ==
  /\ \A t \in Connections : tx[t].pc \in {"idle", "composing"}
  /\ UNCHANGED vars

Next ==
  \/ \E t \in Connections : Request(t) \/ Proceed(t) \/ Abort(t)
  \/ \E m \in Media : DeleteMedia(m)
  \/ Tick
  \/ Quiet

Spec == Init /\ [][Next]_vars

(* A transaction that can take its next step takes it.  Nothing obliges a  *)
(* client to send anything, or a process to die.                           *)
TransactionFairness == \A t \in Connections : WF_vars(Proceed(t))

-----------------------------------------------------------------------------
(* Properties.                                                             *)

(* Every variable holds the kind of value the schema and the code give it. *)
TypeOK ==
  /\ rows \in [Docs -> MaybeRow]
  /\ groups \in [Groups -> Types \cup {Absent}]
  /\ media \subseteq Media
  /\ uses \in [Docs -> SUBSET Media]
  /\ revisions \in [Docs -> SUBSET Revision]
  /\ born \subseteq Docs \cup Groups
  /\ rowLock \in [Docs -> Optional(Connections)]
  /\ groupLock \in [Groups -> Optional(Connections)]
  /\ tx \in [Connections -> Transaction]
  /\ ticks \in Nat
  /\ now \in Times

(* The path of a document: itself, its parent, the parent of that.         *)
PathOf(d) ==
  LET step[k \in 0..MAX_HIERARCHY_DEPTH] ==
        IF k = 0 THEN d
        ELSE IF step[k - 1] = None THEN None
             ELSE IF Exists(step[k - 1]) THEN rows[step[k - 1]].state.parent ELSE None
  IN step

(* Every page has a path of at most MAX_HIERARCHY_DEPTH segments, so the   *)
(* public URL walk resolves it: no interleaving of moves, creations and    *)
(* deletions (assertUsableParent, subtreeHeight) builds a cycle or a chain *)
(* that is too long.                                                       *)
PathsResolve ==
  \A d \in Docs : Exists(d) => PathOf(d)[MAX_HIERARCHY_DEPTH] = None

(* A translation group exists exactly while it has members (joinGroup and  *)
(* deleteContent under the group's lock), and they share its type.         *)
GroupsLive ==
  \A g \in Groups :
    /\ groups[g] # Absent <=> MembersOf(g) # {}
    /\ \A d \in MembersOf(g) : rows[d].type = groups[g]

(* A document uses only assets that exist, and is on record for exactly    *)
(* those: content_media, kept by difference, is what refuses the deletion  *)
(* of an asset, and the state in the row is what readers follow            *)
(* (syncMediaReferences, deleteMediaRow).                                  *)
ReferencesHold ==
  \A d \in Docs :
    /\ Exists(d) => rows[d].state.refs \subseteq media
    /\ uses[d] = IF Exists(d) THEN rows[d].state.refs ELSE {}

(* A document at version n has min(n - 1, REVISION_LIMIT) revisions, of    *)
(* versions below n and all different: the prune removes as many as are in *)
(* excess (insertContentRevision, pruneRevisions).  It does not say which, *)
(* and the history may have a gap: see ReplacedIsKept.                     *)
RevisionsCounted ==
  \A d \in Docs : Exists(d) =>
    LET versions == {r.version : r \in revisions[d]}
        behind   == rows[d].version - 1
    IN /\ versions \subseteq 1..behind
       /\ Cardinality(versions) = Cardinality(revisions[d])
       /\ Cardinality(versions) = IF behind < REVISION_LIMIT THEN behind
                                                             ELSE REVISION_LIMIT

(* What the committed documents always are: pages with a path, groups with *)
(* members, as many revisions as there were writes, up to the limit        *)
(* (contents.ts).                                                          *)
StoreHolds == PathsResolve /\ GroupsLive /\ RevisionsCounted

(* Which connection commits a save or a restore in this step, and of what. *)
Commits_Update(t) ==
  /\ tx[t].pc = "commit" /\ tx[t].op \in {"update", "restore"}
  /\ tx'[t].pc = "announce"

(* A committed save or restore replaces the very state its form showed,    *)
(* but for a parent the deletion of that parent may have cleared: the      *)
(* version precondition of updateContent loses nobody's work.              *)
NoLostUpdate ==
  [][\A t \in Connections : Commits_Update(t) =>
       LET d == tx[t].doc
       IN /\ Exists(d)
          /\ rows[d].version = tx[t].form.version
          /\ \/ rows[d].state = tx[t].form.state
             \/ rows[d].state = [tx[t].form.state EXCEPT !.parent = None]]_vars

(* When a save or restore commits, its author may still make that very     *)
(* transition on the row as it stands: no document enters, stays in or     *)
(* leaves the public's sight on an authorization of an earlier state.      *)
PublishAuthorized ==
  [][\A t \in Connections : Commits_Update(t) =>
       LET d == tx[t].doc
       IN CanWrite(Actor(tx[t].user), rows[d].author, rows[d].state.status,
                   rows'[d].state.status)]_vars

Published(row) == row # Absent /\ row.state.status = "published"

(* A commit of this step queues the event for d.                           *)
Queues(d, name) ==
  \E t \in Connections :
    /\ tx[t].pc = "commit"
    /\ \E i \in 1..Len(tx'[t].outbox) : tx'[t].outbox[i] = [doc |-> d, name |-> name]

(* An existing document becomes visible exactly in the steps that queue its *)
(* content:published, and stops being visible exactly in those that queue  *)
(* content:unpublished or delete it, whoever writes and whatever status an *)
(* earlier reader saw (previousStatus is captured under the row lock).     *)
VisibilityIsAnnounced ==
  [][\A d \in Docs : Exists(d) =>
       /\ (~Published(rows[d]) /\ Published(rows'[d]))
            <=> Queues(d, "content:published")
       /\ (Published(rows[d]) /\ rows'[d] # Absent /\ ~Published(rows'[d]))
            <=> Queues(d, "content:unpublished")]_vars

(* A revision is written only with the next version of its document, and   *)
(* holds the state and version the document had until that very step:      *)
(* there is never a revision without its write (insertContentRevision in   *)
(* updateContent and publishDueContent).                                   *)
RevisionIsWhatWasSuperseded ==
  [][\A d \in Docs : \A r \in revisions'[d] \ revisions[d] :
       /\ Exists(d)
       /\ r.version = rows[d].version
       /\ r.state = rows[d].state
       /\ rows'[d] # Absent
       /\ rows'[d].version = r.version + 1]_vars

(* What a save or a restore replaces is in the history it leaves behind:   *)
(* the prune goes by the moment transactions began (contents.ts:1047), and *)
(* a save that found the version it names began after all those recorded   *)
(* so far.  A publish pass names no version: one that began before two     *)
(* saves and waited for the row removes with its prune the very revision   *)
(* it has recorded, and keeps an older one.                                *)
ReplacedIsKept ==
  [][\A t \in Connections : Commits_Update(t) =>
       \E r \in revisions'[tx[t].doc] :
         r.version = rows[tx[t].doc].version /\ r.state = rows[tx[t].doc].state]_vars

(* What is recorded is what was replaced, and what a save replaces is      *)
(* recorded and not pruned at once (insertContentRevision,                 *)
(* pruneRevisions).                                                        *)
HistoriesHold == RevisionIsWhatWasSuperseded /\ ReplacedIsKept

(* The members a join was authorized against are the group's members when  *)
(* it commits: joinGroup and deleteContent take the group's lock first.    *)
JoinSeesItsGroup ==
  [][\A t \in Connections :
       /\ tx[t].pc = "commit" /\ tx[t].op = "create" /\ tx[t].group # None
       /\ tx'[t].pc = "announce"
       => /\ MembersOf(tx[t].group) = tx[t].members
          /\ tx[t].members # {}]_vars

(* A publish pass publishes exactly rows still scheduled and due when it   *)
(* commits, so of two instances only one publishes, versions and announces *)
(* a document (publishDueContent).                                         *)
PublishesOnlyTheDue ==
  [][\A t \in Connections :
       /\ tx[t].pc = "commit" /\ tx[t].op = "publishDue"
       /\ tx'[t].pc = "announce"
       => \A d \in Claimed(t) : IsDue(d, tx[t].clock)]_vars

(* Whatever waits for whatever, a transaction that begins comes to an end: *)
(* a waiter is granted its lock or the cycle it is in is broken.           *)
TransactionsEnd ==
  \A t \in Connections :
    tx[t].pc \notin {"idle", "composing"} ~> tx[t].pc = "idle"

(* The transactions implement the documents of module Documents: every     *)
(* commit is one atomic operation, allowed by the documents as they are    *)
(* when it commits, whatever was decided earlier under its locks.          *)
Atomic ==
  INSTANCE Documents WITH
    revisions <- [d \in Docs |-> {[version |-> r.version, state |-> r.state] :
                                    r \in revisions[d]}],
    asking    <- {tx[t].user : t \in {c \in Connections : tx[c].pc = "commit"}}

AtomicDocuments == Atomic!Spec

=============================================================================
