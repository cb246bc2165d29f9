--------------------------- MODULE DocumentsProofs ---------------------------
(***************************************************************************)
(* What the committed documents of ContentStore always are, on top of what *)
(* ContentStoreProofs says each commit writes: translation groups that     *)
(* live exactly as long as their members, histories of the right length,   *)
(* and page trees where every page keeps a path of at most                 *)
(* MAX_HIERARCHY_DEPTH segments.  A tree is taken as the function from     *)
(* each existing document to its parent; the facts about trees come first, *)
(* then what each step does to the committed one.  The last part puts them *)
(* together: every commit is one operation of module Documents.            *)
(***************************************************************************)
EXTENDS ContentStoreProofs, FiniteSetTheorems, FunctionTheorems

-----------------------------------------------------------------------------
(* Groups.                                                                 *)

(* A creation past joinGroup holds the group's lock, and the members its   *)
(* join was authorized against are still the group's.                      *)
JoinHeld(t) ==
  tx[t].op = "create" /\ tx[t].group # None /\ tx[t].pc # "lockGroup" =>
    /\ groupLock[tx[t].group] = t
    /\ MembersOf(tx[t].group) = tx[t].members
    /\ tx[t].members # {}

(* A deletion names the group of its document, and holds its lock once it  *)
(* is past it, unless the document has gone meanwhile.                     *)
RemovalHeld(t) ==
  tx[t].op = "delete" /\ Exists(tx[t].doc) =>
    /\ rows[tx[t].doc].group = tx[t].group
    /\ tx[t].pc # "lockGroup" => groupLock[tx[t].group] = t

GroupsBorn == \A d \in Docs : Exists(d) => rows[d].group \in born

GroupsHeld ==
  /\ GroupsLive
  /\ GroupsBorn
  /\ \A t \in Connections : JoinHeld(t) /\ RemovalHeld(t)

(* What a step of t does to the locks of groups.                           *)
GroupLocksMove(t) ==
  \/ UNCHANGED groupLock
  \/ Release(t)
  \/ \E g \in Groups : GroupFree(t, g) /\ TakeGroup(t, g)

(* What a step of t does to the membership of groups: nothing to a group   *)
(* with members that somebody else has locked, and no document that exists *)
(* changes its group.                                                      *)
MembersMove(t) ==
  /\ \A d \in Docs : d \in born /\ rows'[d] # Absent =>
       rows[d] # Absent /\ rows'[d].group = rows[d].group
  /\ \A g \in Groups : groupLock[g] \notin {None, t} /\ MembersOf(g) # {} =>
       MembersOf(g)' = MembersOf(g)

LEMMA OthersKeepGroups ==
  ASSUME Inv, GroupsHeld, NEW t \in Connections, NEW s \in Connections, s # t,
         tx'[s] = tx[s], GroupLocksMove(t), MembersMove(t)
  PROVE  JoinHeld(s)' /\ RemovalHeld(s)'
<1>1. \A g \in Groups : groupLock[g] = s => groupLock'[g] = s
  BY NoValues DEF GroupLocksMove, Release, GroupFree, TakeGroup, Inv, TypeOK
<1>2. tx[s].group \in Groups \cup {None} /\ (tx[s].op = "delete" => tx[s].doc \in Docs)
  BY DEF Inv, TypeOK, Transaction, Optional, Shape
<1>3. JoinHeld(s)'
  BY <1>1, <1>2, NoValues DEF GroupsHeld, JoinHeld, MembersMove
<1>4. ASSUME tx[s].op = "delete", Exists(tx[s].doc)'
      PROVE  /\ rows'[tx[s].doc].group = tx[s].group
             /\ tx[s].pc # "lockGroup" => groupLock'[tx[s].group] = s
  <2>1. tx[s].doc \in Docs /\ tx[s].doc \in born
    BY <1>2, <1>4, NoValues DEF Inv, Known
  <2>2. Exists(tx[s].doc) /\ rows'[tx[s].doc].group = rows[tx[s].doc].group
    BY <1>4, <2>1 DEF MembersMove, Exists
  <2>3. rows[tx[s].doc].group \in Groups
    BY <2>1, <2>2 DEF Inv, TypeOK, Exists, MaybeRow, Row
  <2> QED
    BY <1>1, <1>4, <2>2, <2>3 DEF GroupsHeld, RemovalHeld
<1>5. RemovalHeld(s)'
  BY <1>4 DEF RemovalHeld
<1> QED
  BY <1>3, <1>5

(* A step that writes nothing keeps the invariant if it keeps t's part.    *)
LEMMA NoWriteKeepsGroups ==
  ASSUME Inv, GroupsHeld, NEW t \in Connections, NEW r, tx' = [tx EXCEPT ![t] = r],
         UNCHANGED db, GroupLocksMove(t), JoinHeld(t)', RemovalHeld(t)'
  PROVE  GroupsHeld'
<1>1. MembersMove(t)
  BY DEF MembersMove, MembersOf, Exists, db
<1>2. \A s \in Connections \ {t} : tx'[s] = tx[s]
  BY MovesTo
<1>3. \A s \in Connections \ {t} : JoinHeld(s)' /\ RemovalHeld(s)'
  BY <1>1, <1>2, OthersKeepGroups
<1>4. GroupsLive' /\ GroupsBorn'
  BY DEF GroupsHeld, GroupsLive, GroupsBorn, MembersOf, Exists, db
<1> QED
  BY <1>3, <1>4 DEF GroupsHeld

LEMMA RefuseKeepsGroups ==
  ASSUME Inv, GroupsHeld, NEW t \in Connections, Refuse(t)
  PROVE  GroupsHeld'
<1>1. tx' = [tx EXCEPT ![t] = Idle] /\ Release(t) /\ UNCHANGED db
  BY DEF Refuse, Ends, Moves
<1>2. Idle.op = "none"
  BY DEF Idle
<1>3. JoinHeld(t)' /\ RemovalHeld(t)'
  BY <1>1, <1>2, MovesTo DEF JoinHeld, RemovalHeld
<1> QED
  BY <1>1, <1>3, NoWriteKeepsGroups DEF GroupLocksMove

LEMMA RequestKeepsGroups ==
  ASSUME Inv, GroupsHeld, NEW t \in Connections, Request(t)
  PROVE  GroupsHeld'
<1>1. ASSUME NEW changes, Begins(t, changes)
      PROVE  /\ tx' = [tx EXCEPT ![t] = [changes EXCEPT !.started = ticks + 1, !.clock = now]]
             /\ UNCHANGED <<db, groupLock>>
  <2> DEFINE r == [changes EXCEPT !.started = ticks + 1, !.clock = now]
  <2>1. tx' = [tx EXCEPT ![t] = r] /\ UNCHANGED <<db, locks, now>>
    BY <1>1 DEF Begins, Moves
  <2> HIDE DEF r
  <2>2. UNCHANGED <<db, groupLock>>
    BY <2>1 DEF locks
  <2> QED
    BY <2>1, <2>2 DEF r
<1>2. ASSUME NEW u \in UserIds, NEW d \in Docs, OpenForm(t, u, d) PROVE GroupsHeld'
  <2> DEFINE r == [Idle EXCEPT !.pc = "composing", !.user = u, !.doc = d, !.form = rows[d]]
  <2>1. tx' = [tx EXCEPT ![t] = r] /\ UNCHANGED <<db, groupLock>> /\ r.op = "none"
    BY <1>2 DEF OpenForm, Moves, locks, Idle
  <2> HIDE DEF r
  <2>2. JoinHeld(t)' /\ RemovalHeld(t)'
    BY <2>1, MovesTo DEF JoinHeld, RemovalHeld
  <2> QED
    BY <2>1, <2>2, NoWriteKeepsGroups DEF GroupLocksMove
<1>3. ASSUME NEW u \in UserIds, NEW d \in Docs, BeginDelete(t, u, d) PROVE GroupsHeld'
  <2> DEFINE c == [Idle EXCEPT !.pc = "lockGroup", !.op = "delete", !.user = u,
                               !.doc = d, !.group = rows[d].group, !.at = d]
             r == [c EXCEPT !.started = ticks + 1, !.clock = now]
  <2>1. Begins(t, c)
    BY <1>3 DEF BeginDelete
  <2>2. tx' = [tx EXCEPT ![t] = r] /\ UNCHANGED <<db, groupLock>>
    BY <2>1, <1>1
  <2>3. r.op = "delete" /\ r.doc = d /\ r.group = rows[d].group /\ r.pc = "lockGroup"
    BY DEF Idle
  <2> HIDE DEF r
  <2>4. JoinHeld(t)' /\ RemovalHeld(t)'
    BY <2>2, <2>3, MovesTo DEF JoinHeld, RemovalHeld, db
  <2> QED
    BY <2>2, <2>4, NoWriteKeepsGroups DEF GroupLocksMove
<1>4. ASSUME NEW u \in UserIds, BeginCreate(t, u) PROVE GroupsHeld'
  <2>1. PICK type \in Types, locale \in Locales, sent \in Creations,
             group \in Groups \cup {None} :
          Begins(t, [Idle EXCEPT
            !.pc = IF group # None THEN "lockGroup"
                   ELSE IF StampPublication(Parse(type, sent), now).parent # None
                        THEN "walk" ELSE "commit",
            !.op = "create", !.user = u, !.type = type, !.locale = locale,
            !.group = group, !.next = StampPublication(Parse(type, sent), now),
            !.at = StampPublication(Parse(type, sent), now).parent])
    BY <1>4 DEF BeginCreate
  <2> DEFINE state == StampPublication(Parse(type, sent), now)
  <2> HIDE DEF state
  <2> DEFINE step == IF group # None THEN "lockGroup"
                     ELSE IF state.parent # None THEN "walk" ELSE "commit"
             c == [Idle EXCEPT !.pc = step, !.op = "create", !.user = u, !.type = type,
                     !.locale = locale, !.group = group, !.next = state,
                     !.at = state.parent]
             r == [c EXCEPT !.started = ticks + 1, !.clock = now]
  <2>2. Begins(t, c)
    BY <2>1 DEF state
  <2>3. tx' = [tx EXCEPT ![t] = r] /\ UNCHANGED <<db, groupLock>>
    BY <2>2, <1>1
  <2>4. r.op = "create" /\ r.group = group /\ (group # None => r.pc = "lockGroup")
    BY DEF Idle
  <2> HIDE DEF r
  <2>5. JoinHeld(t)' /\ RemovalHeld(t)'
    BY <2>3, <2>4, MovesTo DEF JoinHeld, RemovalHeld
  <2> QED
    BY <2>3, <2>5, NoWriteKeepsGroups DEF GroupLocksMove
<1>5. CASE BeginUpdate(t)
  <2>1. PICK p \in Patches :
          Begins(t, [tx[t] EXCEPT !.pc = "lockRow", !.op = "update",
                                  !.at = tx[t].doc, !.patch = p])
    BY <1>5 DEF BeginUpdate
  <2> DEFINE c == [tx[t] EXCEPT !.pc = "lockRow", !.op = "update",
                                !.at = tx[t].doc, !.patch = p]
             r == [c EXCEPT !.started = ticks + 1, !.clock = now]
  <2>2. tx' = [tx EXCEPT ![t] = r] /\ UNCHANGED <<db, groupLock>>
    BY <2>1, <1>1
  <2>3. r.op = "update"
    BY DEF Inv, TypeOK, Transaction
  <2> HIDE DEF r
  <2>4. JoinHeld(t)' /\ RemovalHeld(t)'
    BY <2>2, <2>3, MovesTo DEF JoinHeld, RemovalHeld
  <2> QED
    BY <2>2, <2>4, NoWriteKeepsGroups DEF GroupLocksMove
<1>6. CASE BeginRestore(t)
  <2>1. PICK p \in revisions[tx[t].doc] :
          Begins(t, [tx[t] EXCEPT !.pc = "lockRow", !.op = "restore",
                                  !.at = tx[t].doc, !.patch = p.state])
    BY <1>6 DEF BeginRestore
  <2> DEFINE c == [tx[t] EXCEPT !.pc = "lockRow", !.op = "restore",
                                !.at = tx[t].doc, !.patch = p.state]
             r == [c EXCEPT !.started = ticks + 1, !.clock = now]
  <2>2. tx' = [tx EXCEPT ![t] = r] /\ UNCHANGED <<db, groupLock>>
    BY <2>1, <1>1
  <2>3. r.op = "restore"
    BY DEF Inv, TypeOK, Transaction
  <2> HIDE DEF r
  <2>4. JoinHeld(t)' /\ RemovalHeld(t)'
    BY <2>2, <2>3, MovesTo DEF JoinHeld, RemovalHeld
  <2> QED
    BY <2>2, <2>4, NoWriteKeepsGroups DEF GroupLocksMove
<1>7. CASE BeginPublishDue(t)
  <2> DEFINE due == {<<rows[d].state.date, d>> : d \in {e \in Docs : IsDue(e, now)}}
  <2>1. \E d \in NextDue(due) :
          Begins(t, [Idle EXCEPT !.pc = "claim", !.op = "publishDue",
                                 !.due = due, !.at = d])
    BY <1>7 DEF BeginPublishDue
  <2> HIDE DEF due
  <2>2. PICK d \in NextDue(due) :
          Begins(t, [Idle EXCEPT !.pc = "claim", !.op = "publishDue",
                                 !.due = due, !.at = d])
    BY <2>1
  <2> DEFINE c == [Idle EXCEPT !.pc = "claim", !.op = "publishDue",
                               !.due = due, !.at = d]
             r == [c EXCEPT !.started = ticks + 1, !.clock = now]
  <2>3. tx' = [tx EXCEPT ![t] = r] /\ UNCHANGED <<db, groupLock>>
    BY <2>2, <1>1
  <2>4. r.op = "publishDue"
    BY DEF Idle
  <2> HIDE DEF r
  <2>5. JoinHeld(t)' /\ RemovalHeld(t)'
    BY <2>3, <2>4, MovesTo DEF JoinHeld, RemovalHeld
  <2> QED
    BY <2>3, <2>5, NoWriteKeepsGroups DEF GroupLocksMove
<1> QED
  BY <1>2, <1>3, <1>4, <1>5, <1>6, <1>7 DEF Request

(* A statement that neither writes nor touches the locks of groups, by a   *)
(* transaction that goes on with the same document and the same group.     *)
LEMMA SameGroupKeeps ==
  ASSUME Inv, GroupsHeld, NEW t \in Connections, NEW r, tx' = [tx EXCEPT ![t] = r],
         UNCHANGED db, UNCHANGED groupLock,
         tx[t].pc # "lockGroup" \/ r.op \notin {"create", "delete"},
         r.op = tx[t].op, r.doc = tx[t].doc, r.group = tx[t].group,
         r.members = tx[t].members
  PROVE  GroupsHeld'
<1>1. tx'[t] = r
  BY MovesTo
<1>2. JoinHeld(t)' /\ RemovalHeld(t)'
  BY <1>1 DEF GroupsHeld, JoinHeld, RemovalHeld, MembersOf, Exists, db
<1> QED
  BY <1>2, NoWriteKeepsGroups DEF GroupLocksMove

LEMMA JoinKeepsGroups ==
  ASSUME Inv, GroupsHeld, NEW t \in Connections, JoinGroup(t)
  PROVE  GroupsHeld'
<1>1. CASE Refuse(t)
  BY <1>1, RefuseKeepsGroups
<1>2. CASE ~Refuse(t)
  <2> DEFINE g    == tx[t].group
             step == IF tx[t].at # None THEN "walk" ELSE "commit"
             r    == [tx[t] EXCEPT !.pc = step, !.members = MembersOf(g)]
  <2>1. /\ tx[t].pc = "lockGroup" /\ tx[t].op = "create"
        /\ GroupFree(t, g) /\ TakeGroup(t, g) /\ ~JoinRefused(t)
        /\ tx' = [tx EXCEPT ![t] = r] /\ UNCHANGED db
    BY <1>2 DEF JoinGroup, Moves
  <2>2. g \in Groups
    BY <2>1 DEF Inv, Shape
  <2>3. /\ r.op = "create" /\ r.group = g
        /\ r.members = MembersOf(g)
    BY <2>1 DEF Inv, TypeOK, Transaction
  <2>4. MembersOf(g) # {}
    BY <2>1, <2>2 DEF GroupsHeld, GroupsLive, JoinRefused
  <2> HIDE DEF r
  <2>5. tx'[t] = r
    BY <2>1, MovesTo
  <2>6. groupLock'[g] = t
    BY <2>1, <2>2 DEF TakeGroup, Inv, TypeOK
  <2>7. \A h \in Groups : MembersOf(h)' = MembersOf(h)
    BY <2>1 DEF MembersOf, Exists, db
  <2>8. JoinHeld(t)'
    BY <2>2, <2>3, <2>4, <2>5, <2>6, <2>7 DEF JoinHeld
  <2>9. RemovalHeld(t)'
    BY <2>3, <2>5 DEF RemovalHeld
  <2> QED
    BY <2>1, <2>2, <2>8, <2>9, NoWriteKeepsGroups DEF GroupLocksMove
<1> QED
  BY <1>1, <1>2

LEMMA LockGroupOfDeletedKeepsGroups ==
  ASSUME Inv, GroupsHeld, NEW t \in Connections, LockGroupOfDeleted(t)
  PROVE  GroupsHeld'
<1> DEFINE g == tx[t].group
           r == [tx[t] EXCEPT !.pc = "lockRow"]
<1>1. /\ tx[t].pc = "lockGroup" /\ tx[t].op = "delete"
      /\ GroupFree(t, g)
      /\ groups[g] = Absent => UNCHANGED groupLock
      /\ groups[g] # Absent => TakeGroup(t, g)
      /\ tx' = [tx EXCEPT ![t] = r] /\ UNCHANGED db
  BY DEF LockGroupOfDeleted, Moves
<1>2. g \in Groups /\ tx[t].doc \in Docs
  BY <1>1 DEF Inv, Shape
<1>3. /\ r.op = "delete" /\ r.group = g
      /\ r.doc = tx[t].doc
  BY <1>1 DEF Inv, TypeOK, Transaction
<1> HIDE DEF r
<1>4. tx'[t] = r
  BY <1>1, MovesTo
<1>5. JoinHeld(t)'
  BY <1>3, <1>4 DEF JoinHeld
<1>6. ASSUME Exists(tx[t].doc)
      PROVE  rows[tx[t].doc].group = g /\ groupLock'[g] = t
  <2>1. rows[tx[t].doc].group = g
    BY <1>1, <1>6 DEF GroupsHeld, RemovalHeld
  <2>2. groups[g] # Absent
    BY <1>2, <1>6, <2>1 DEF GroupsHeld, GroupsLive, MembersOf
  <2> QED
    BY <1>1, <1>2, <2>1, <2>2 DEF TakeGroup, Inv, TypeOK
<1>7. RemovalHeld(t)'
  BY <1>1, <1>3, <1>4, <1>6 DEF RemovalHeld, Exists, db
<1>8. GroupLocksMove(t)
  BY <1>1, <1>2 DEF GroupLocksMove
<1> QED
  BY <1>1, <1>5, <1>7, <1>8, NoWriteKeepsGroups

LEMMA StatementKeepsGroups ==
  ASSUME Inv, GroupsHeld, NEW t \in Connections, ~Refuse(t),
         \/ LockAncestor(t) \/ MeasureHeight(t) \/ LockForUpdate(t)
         \/ LockForDelete(t) \/ LockChild(t) \/ Claim(t) \/ Announce(t)
  PROVE  GroupsHeld'
<1>1. CASE LockAncestor(t)
  <2> DEFINE above == rows[tx[t].at].state.parent
             step  == IF above = None THEN "measure" ELSE "walk"
             r     == [tx[t] EXCEPT !.pc = step, !.at = above, !.depth = @ + 1]
  <2>1. tx' = [tx EXCEPT ![t] = r] /\ tx[t].pc = "walk" /\ UNCHANGED <<db, groupLock>>
    BY <1>1 DEF LockAncestor, Moves
  <2>2. /\ r.op = tx[t].op /\ r.doc = tx[t].doc
        /\ r.group = tx[t].group /\ r.members = tx[t].members
    BY DEF Inv, TypeOK, Transaction
  <2> HIDE DEF r
  <2> QED
    BY <2>1, <2>2, SameGroupKeeps
<1>2. CASE MeasureHeight(t)
  <2> DEFINE r == [tx[t] EXCEPT !.pc = "commit"]
  <2>1. tx' = [tx EXCEPT ![t] = r] /\ tx[t].pc = "measure" /\ UNCHANGED <<db, locks>>
    BY <1>2 DEF MeasureHeight, Moves
  <2>2. /\ r.op = tx[t].op /\ r.doc = tx[t].doc
        /\ r.group = tx[t].group /\ r.members = tx[t].members
    BY DEF Inv, TypeOK, Transaction
  <2> HIDE DEF r
  <2>3. UNCHANGED db /\ UNCHANGED groupLock
    BY <2>1 DEF locks
  <2> QED
    BY <2>1, <2>2, <2>3, SameGroupKeeps
<1>3. CASE LockForUpdate(t)
  <2> DEFINE current == rows[tx[t].doc]
             next    == Derive(t, current)
             moves   == next.parent \notin {None, current.state.parent}
             step    == IF moves THEN "walk" ELSE "commit"
             at      == IF moves THEN next.parent ELSE None
             r == [tx[t] EXCEPT !.pc = step, !.at = at, !.cur = current,
                     !.next = next, !.type = current.type, !.locale = current.locale]
  <2>1. tx' = [tx EXCEPT ![t] = r] /\ tx[t].pc = "lockRow" /\ UNCHANGED <<db, groupLock>>
    BY <1>3 DEF LockForUpdate, Moves
  <2>2. /\ r.op = tx[t].op /\ r.doc = tx[t].doc
        /\ r.group = tx[t].group /\ r.members = tx[t].members
    BY DEF Inv, TypeOK, Transaction
  <2> HIDE DEF r
  <2> QED
    BY <2>1, <2>2, SameGroupKeeps
<1>4. CASE LockForDelete(t)
  <2>1. PICK c \in SomeOf(ChildrenOf(tx[t].doc)) :
          Moves(t, [tx[t] EXCEPT
            !.pc = IF c = None THEN "commit" ELSE "lockChildren",
            !.at = c, !.cur = rows[tx[t].doc], !.children = ChildrenOf(tx[t].doc)])
    BY <1>4 DEF LockForDelete
  <2> DEFINE step == IF c = None THEN "commit" ELSE "lockChildren"
             r == [tx[t] EXCEPT !.pc = step, !.at = c, !.cur = rows[tx[t].doc],
                     !.children = ChildrenOf(tx[t].doc)]
  <2>2. tx' = [tx EXCEPT ![t] = r] /\ tx[t].pc = "lockRow" /\ UNCHANGED <<db, groupLock>>
    BY <1>4, <2>1 DEF LockForDelete, Moves
  <2>3. /\ r.op = tx[t].op /\ r.doc = tx[t].doc
        /\ r.group = tx[t].group /\ r.members = tx[t].members
    BY DEF Inv, TypeOK, Transaction
  <2> HIDE DEF r
  <2> QED
    BY <2>2, <2>3, SameGroupKeeps
<1>5. CASE LockChild(t)
  <2> DEFINE left == tx[t].children \ {tx[t].at}
             orphaned == IF tx[t].at \in ChildrenOf(tx[t].doc)
                         THEN tx[t].orphaned \cup {tx[t].at} ELSE tx[t].orphaned
  <2>1. PICK e \in SomeOf(left) :
          Moves(t, [tx[t] EXCEPT
            !.pc = IF e = None THEN "commit" ELSE "lockChildren",
            !.at = e, !.children = left,
            !.orphaned = IF tx[t].at \in ChildrenOf(tx[t].doc)
                         THEN @ \cup {tx[t].at} ELSE @])
    BY <1>5 DEF LockChild
  <2> DEFINE step == IF e = None THEN "commit" ELSE "lockChildren"
             r == [tx[t] EXCEPT !.pc = step, !.at = e, !.children = left,
                                !.orphaned = orphaned]
  <2>2. tx' = [tx EXCEPT ![t] = r] /\ tx[t].pc = "lockChildren"
        /\ UNCHANGED <<db, groupLock>>
    BY <1>5, <2>1 DEF LockChild, Moves
  <2>3. /\ r.op = tx[t].op /\ r.doc = tx[t].doc
        /\ r.group = tx[t].group /\ r.members = tx[t].members
    BY DEF Inv, TypeOK, Transaction
  <2> HIDE DEF r
  <2> QED
    BY <2>2, <2>3, SameGroupKeeps
<1>6. CASE Claim(t)
  <2> DEFINE left == tx[t].due \ Earliest(tx[t].due)
             claimed == IF StillDue(t, tx[t].at)
                        THEN Append(tx[t].claimed, tx[t].at) ELSE tx[t].claimed
  <2>1. PICK e \in NextDue(left) :
          Moves(t, [tx[t] EXCEPT !.pc = IF e = None THEN "commit" ELSE "claim",
                                 !.due = left, !.at = e,
                                 !.claimed = IF StillDue(t, tx[t].at)
                                             THEN Append(@, tx[t].at) ELSE @])
    BY <1>6 DEF Claim
  <2> DEFINE step == IF e = None THEN "commit" ELSE "claim"
             r == [tx[t] EXCEPT !.pc = step, !.due = left, !.at = e, !.claimed = claimed]
  <2>2. tx' = [tx EXCEPT ![t] = r] /\ tx[t].pc = "claim" /\ UNCHANGED <<db, groupLock>>
    BY <1>6, <2>1 DEF Claim, Moves
  <2>3. /\ r.op = tx[t].op /\ r.doc = tx[t].doc
        /\ r.group = tx[t].group /\ r.members = tx[t].members
    BY DEF Inv, TypeOK, Transaction
  <2> HIDE DEF r
  <2> QED
    BY <2>2, <2>3, SameGroupKeeps
<1>7. CASE Announce(t)
  <2> DEFINE r == IF Len(tx[t].outbox) <= 1 THEN Idle
                  ELSE [tx[t] EXCEPT !.outbox = Tail(tx[t].outbox)]
  <2>1. tx' = [tx EXCEPT ![t] = r] /\ tx[t].pc = "announce" /\ UNCHANGED <<db, locks>>
    BY <1>7 DEF Announce, Moves
  <2>2. tx[t].op = "none"
    BY <2>1 DEF Inv, Shape
  <2>3. r.op = "none"
    BY <2>2 DEF Inv, TypeOK, Transaction, Idle
  <2> HIDE DEF r
  <2>4. JoinHeld(t)' /\ RemovalHeld(t)'
    BY <2>1, <2>3, MovesTo DEF JoinHeld, RemovalHeld
  <2>5. UNCHANGED db /\ GroupLocksMove(t)
    BY <2>1 DEF locks, GroupLocksMove
  <2> QED
    BY <2>1, <2>4, <2>5, NoWriteKeepsGroups
<1> QED
  BY <1>1, <1>2, <1>3, <1>4, <1>5, <1>6, <1>7

LEMMA CommitKeepsGroups ==
  ASSUME Inv, GroupsHeld, NEW t \in Connections, NEW events, Commits(t, events),
         MembersMove(t), GroupsLive', GroupsBorn'
  PROVE  GroupsHeld'
<1> DEFINE r == [Idle EXCEPT !.pc = "announce", !.outbox = events]
<1>1. tx' = [tx EXCEPT ![t] = r] /\ GroupLocksMove(t)
  BY DEF Commits, Moves, GroupLocksMove
<1>2. r.op = "none"
  BY DEF Idle
<1> HIDE DEF r
<1>3. tx'[t] = r /\ \A s \in Connections \ {t} : tx'[s] = tx[s]
  BY <1>1, MovesTo
<1>4. JoinHeld(t)' /\ RemovalHeld(t)'
  BY <1>2, <1>3 DEF JoinHeld, RemovalHeld
<1>5. \A s \in Connections \ {t} : JoinHeld(s)' /\ RemovalHeld(s)'
  BY <1>1, <1>3, OthersKeepGroups
<1> QED
  BY <1>4, <1>5 DEF GroupsHeld

(* A commit that rewrites rows in their groups, and nothing about groups.  *)
LEMMA RewriteKeepsGroups ==
  ASSUME Inv, GroupsHeld, NEW t \in Connections, NEW events, Commits(t, events),
         UNCHANGED <<groups, born>>,
         \A d \in Docs :
           \/ rows'[d] = rows[d]
           \/ /\ rows[d] \in Row /\ rows'[d] \in Row
              /\ rows'[d].group = rows[d].group /\ rows'[d].type = rows[d].type
  PROVE  GroupsHeld'
<1>1. \A d \in Docs : /\ Exists(d)' <=> Exists(d)
                      /\ Exists(d) => /\ rows'[d].group = rows[d].group
                                      /\ rows'[d].type = rows[d].type
  BY NoValues DEF Exists
<1>2. \A g \in Groups : MembersOf(g)' = MembersOf(g)
  BY <1>1 DEF MembersOf
<1>3. MembersMove(t)
  BY <1>1, <1>2 DEF MembersMove, Exists
<1>4. GroupsLive' /\ GroupsBorn'
  <2>1. \A g \in Groups : \A d \in MembersOf(g) :
          d \in Docs /\ rows'[d].type = rows[d].type
    BY <1>1 DEF MembersOf
  <2>2. GroupsLive'
    BY <1>2, <2>1 DEF GroupsHeld, GroupsLive
  <2>3. GroupsBorn'
    BY <1>1 DEF GroupsHeld, GroupsBorn
  <2> QED
    BY <2>2, <2>3
<1> QED
  BY <1>3, <1>4, CommitKeepsGroups

LEMMA CreateKeepsGroups ==
  ASSUME Inv, GroupsHeld, NEW t \in Connections, NEW d \in Docs, NEW g \in Groups,
         Creates(t, d, g)
  PROVE  GroupsHeld'
<1> DEFINE row == [type |-> tx[t].type, locale |-> tx[t].locale, group |-> g,
                   author |-> tx[t].user, version |-> 1, state |-> tx[t].next]
<1>1. /\ tx[t].pc = "commit" /\ tx[t].op = "create"
      /\ d \notin born /\ (tx[t].group = None => g \notin born)
      /\ (tx[t].group # None => g = tx[t].group)
      /\ ConstraintsHold(d, row)
      /\ rows' = [rows EXCEPT ![d] = row]
      /\ groups' = [groups EXCEPT ![g] = tx[t].type]
      /\ born' = born \cup {d, g}
      /\ Commits(t, About(d, <<"content:created">>))
  BY DEF Creates
<1>2. row \in Row /\ row.group = g /\ row.type = tx[t].type /\ tx[t].type \in Types
  BY <1>1 DEF Inv, TypeOK, Shape, Transaction, Row
<1> HIDE DEF row
<1>3. rows[d] = Absent /\ rows'[d] = row /\ rows'[d] # Absent
  BY <1>1, <1>2, NoValues DEF Inv, TypeOK, Known, Exists
<1>4. \A e \in Docs \ {d} : rows'[e] = rows[e]
  BY <1>1 DEF Inv, TypeOK
<1>5. MembersOf(g)' = MembersOf(g) \cup {d}
  BY <1>2, <1>3, <1>4 DEF MembersOf, Exists
<1>6. \A h \in Groups \ {g} : MembersOf(h)' = MembersOf(h)
  BY <1>2, <1>3, <1>4 DEF MembersOf, Exists
<1>7. MembersOf(g) # {} => g \in born
  BY DEF GroupsHeld, GroupsBorn, MembersOf
<1>8. groups'[g] = tx[t].type /\ \A h \in Groups \ {g} : groups'[h] = groups[h]
  BY <1>1 DEF Inv, TypeOK
<1>9. MembersMove(t)
  <2>1. MembersOf(g) # {} => groupLock[g] = t
    BY <1>1, <1>7 DEF GroupsHeld, JoinHeld
  <2>2. \A e \in Docs : e \in born /\ rows'[e] # Absent =>
          rows[e] # Absent /\ rows'[e].group = rows[e].group
    BY <1>1, <1>4
  <2> QED
    BY <1>6, <2>1, <2>2 DEF MembersMove
<1>10. ASSUME NEW h \in Groups
       PROVE  /\ groups'[h] # Absent <=> MembersOf(h)' # {}
              /\ \A e \in MembersOf(h)' : rows'[e].type = groups'[h]
  <2>1. CASE h # g
    <3>1. \A e \in MembersOf(h) : e # d /\ e \in Docs
      BY <1>3 DEF MembersOf, Exists
    <3> QED
      BY <1>4, <1>6, <1>8, <2>1, <3>1 DEF GroupsHeld, GroupsLive
  <2>2. CASE h = g
    <3>1. \A e \in MembersOf(g) : /\ e # d /\ e \in Docs
                                  /\ rows[e].type = tx[t].type
      <4>1. MembersOf(g) # {} => groups[g] = tx[t].type
        BY <1>1, <1>2, <1>7 DEF ConstraintsHold
      <4> QED
        BY <4>1, <1>3 DEF MembersOf, Exists, GroupsHeld, GroupsLive
    <3>2. groups'[g] # Absent
      BY <1>2, <1>8, NoValues
    <3> QED
      BY <1>2, <1>3, <1>4, <1>5, <1>8, <2>2, <3>1, <3>2
  <2> QED
    BY <2>1, <2>2
<1>11. GroupsLive'
  BY <1>10 DEF GroupsLive
<1>12. GroupsBorn'
  BY <1>1, <1>2, <1>3, <1>4 DEF GroupsHeld, GroupsBorn, Exists
<1> QED
  BY <1>1, <1>9, <1>11, <1>12, CommitKeepsGroups

LEMMA RemoveKeepsGroups ==
  ASSUME Inv, GroupsHeld, NEW t \in Connections, Removes(t)
  PROVE  GroupsHeld'
<1> DEFINE d == tx[t].doc
           g == tx[t].group
<1>1. /\ d \in Docs /\ rows'[d] = Absent
      /\ groups' = IF Emptied(d, g) THEN [groups EXCEPT ![g] = Absent] ELSE groups
      /\ Commits(t, About(d, <<"content:deleted">>))
      /\ born' = born
  BY RemoveFacts
<1>2. \A e \in Docs \ {d} :
        \/ rows'[e] = rows[e]
        \/ /\ rows[e] \in Row /\ rows'[e] \in Row
           /\ rows'[e].group = rows[e].group /\ rows'[e].type = rows[e].type
  <2>1. \A e \in Docs \ {d} :
          \/ rows'[e] = rows[e]
          \/ rows[e] \in Row /\ rows'[e] = [rows[e] EXCEPT !.state.parent = None]
    BY RemoveFacts
  <2> QED
    BY ZenonT(60), <2>1, OrphanedRow
<1>3. \A e \in Docs \ {d} : /\ Exists(e)' <=> Exists(e)
                            /\ Exists(e) => /\ rows'[e].group = rows[e].group
                                            /\ rows'[e].type = rows[e].type
  BY <1>2, NoValues DEF Exists
<1>4. \A h \in Groups : MembersOf(h)' = MembersOf(h) \ {d}
  BY <1>1, <1>3 DEF MembersOf, Exists
<1>5. Exists(d) => rows[d].group = g /\ groupLock[g] = t
  BY DEF Removes, CommitDelete, GroupsHeld, RemovalHeld
<1>6. \A h \in Groups : d \in MembersOf(h) => h = g /\ groupLock[g] = t
  BY <1>5 DEF MembersOf
<1>7. \A h \in Groups :
        groups'[h] = IF h = g /\ Emptied(d, g) THEN Absent ELSE groups[h]
  BY <1>1 DEF Inv, TypeOK
<1>8. MembersMove(t)
  <2>1. \A h \in Groups : groupLock[h] \notin {None, t} => MembersOf(h)' = MembersOf(h)
    BY <1>4, <1>6
  <2>2. \A e \in Docs : rows'[e] # Absent =>
          rows[e] # Absent /\ rows'[e].group = rows[e].group
    BY <1>1, <1>3 DEF Exists
  <2> QED
    BY <2>1, <2>2 DEF MembersMove
<1>9. ASSUME NEW h \in Groups
      PROVE  /\ groups'[h] # Absent <=> MembersOf(h)' # {}
             /\ \A e \in MembersOf(h)' : rows'[e].type = groups'[h]
  <2>1. groups[h] # Absent <=> MembersOf(h) # {}
    BY DEF GroupsHeld, GroupsLive
  <2>2. \A e \in MembersOf(h)' : /\ e \in Docs \ {d} /\ e \in MembersOf(h)
                                 /\ rows'[e].type = rows[e].type
    BY <1>3, <1>4 DEF MembersOf
  <2>3. \A e \in MembersOf(h) : rows[e].type = groups[h]
    BY DEF GroupsHeld, GroupsLive
  <2>4. CASE h = g
    BY <1>4, <1>7, <2>1, <2>2, <2>3, <2>4 DEF Emptied
  <2>5. CASE h # g
    BY <1>4, <1>6, <1>7, <2>1, <2>2, <2>3, <2>5
  <2> QED
    BY <2>4, <2>5
<1>10. GroupsLive'
  BY <1>9 DEF GroupsLive
<1>11. GroupsBorn'
  BY <1>1, <1>3 DEF GroupsHeld, GroupsBorn, Exists
<1> QED
  BY <1>1, <1>8, <1>10, <1>11, CommitKeepsGroups

LEMMA GroupsKept == Inv /\ GroupsHeld /\ [Next]_vars => GroupsHeld'
<1> SUFFICES ASSUME Inv, GroupsHeld, [Next]_vars PROVE GroupsHeld'
  OBVIOUS
<1>1. ASSUME NEW t \in Connections, Writes(t) PROVE GroupsHeld'
  <2>1. CASE Updates(t)
    <3> DEFINE d   == tx[t].doc
               row == [tx[t].cur EXCEPT !.state = tx[t].next, !.version = @ + 1]
    <3>1. /\ d \in Docs /\ rows[d] \in Row /\ row \in Row
          /\ row.type = rows[d].type /\ row.group = rows[d].group
          /\ rows' = [rows EXCEPT ![d] = row]
          /\ Commits(t, About(d, TransitionsFor(rows[d].state.status,
                                                tx[t].next.status)))
          /\ UNCHANGED <<groups, media, born>>
      BY <2>1, UpdateFacts
    <3> HIDE DEF row
    <3>2. rows'[d] = row /\ \A e \in Docs \ {d} : rows'[e] = rows[e]
      BY <3>1 DEF Inv, TypeOK
    <3> QED
      BY <3>1, <3>2, RewriteKeepsGroups
  <2>2. CASE CommitPublishDue(t)
    <3>1. /\ \A d \in Claimed(t) : rows[d] \in Row /\ rows'[d] = Publish(rows[d])
          /\ \A d \in Docs \ Claimed(t) : rows'[d] = rows[d]
          /\ Commits(t, PublicationEvents(t))
          /\ UNCHANGED <<groups, born>>
      BY <2>2, PublishFacts
    <3>2. ASSUME NEW d \in Docs
          PROVE  \/ rows'[d] = rows[d]
                 \/ /\ rows[d] \in Row /\ rows'[d] \in Row
                    /\ rows'[d].group = rows[d].group /\ rows'[d].type = rows[d].type
      <4>1. CASE d \in Claimed(t)
        <5>1. rows[d] \in Row /\ rows'[d] = Publish(rows[d])
          BY <3>1, <4>1
        <5>2. /\ Publish(rows[d]) \in Row /\ Publish(rows[d]).group = rows[d].group
              /\ Publish(rows[d]).type = rows[d].type
          BY <5>1, PublishedRow
        <5> QED
          BY <5>1, <5>2
      <4>2. CASE d \notin Claimed(t)
        BY <3>1, <4>2
      <4> QED
        BY <4>1, <4>2
    <3> QED
      BY <3>1, <3>2, RewriteKeepsGroups
  <2> QED
    BY <1>1, <2>1, <2>2, CreateKeepsGroups, RemoveKeepsGroups DEF Writes
<1>2. ASSUME NEW t \in Connections, Request(t) PROVE GroupsHeld'
  BY <1>2, RequestKeepsGroups
<1>3. ASSUME NEW t \in Connections, Proceed(t) PROVE GroupsHeld'
  <2>1. CASE Refuse(t)
    BY <2>1, RefuseKeepsGroups
  <2>2. CASE ~Refuse(t) /\ (CommitCreate(t) \/ CommitUpdate(t) \/ CommitDelete(t)
                             \/ CommitPublishDue(t))
    BY <1>1, <2>2, CreatesAtCommit DEF Writes, Updates, Removes
  <2>3. CASE RefuseParent(t) \/ BreakDeadlock(t)
    BY <2>3, RefuseKeepsGroups DEF RefuseParent, BreakDeadlock
  <2> QED
    BY <1>3, <2>1, <2>2, <2>3, JoinKeepsGroups, LockGroupOfDeletedKeepsGroups,
       StatementKeepsGroups
    DEF Proceed
<1>4. ASSUME NEW t \in Connections, Abort(t) PROVE GroupsHeld'
  BY <1>4, RefuseKeepsGroups DEF Abort
<1>5. CASE UNCHANGED <<rows, groups, born, tx, groupLock>>
  BY <1>5 DEF GroupsHeld, GroupsLive, GroupsBorn, JoinHeld, RemovalHeld, MembersOf, Exists
<1> QED
  BY <1>2, <1>3, <1>4, <1>5
  DEF Next, DeleteMedia, Tick, Quiet, vars, db, locks

LEMMA GroupsInit == Init => GroupsHeld
<1> SUFFICES ASSUME Init PROVE GroupsHeld
  OBVIOUS
<1>1. rows \in Seeds /\ rows \in [Docs -> MaybeRow]
  BY InitEstablishes DEF Inv, TypeOK, Init
<1>2. \A d \in Docs : Exists(d) => rows[d].type \in Types /\ rows[d].group \in Groups
  BY <1>1 DEF Exists, MaybeRow, Row
<1>3. ASSUME NEW g \in Groups
      PROVE  /\ groups[g] # Absent <=> MembersOf(g) # {}
             /\ \A d \in MembersOf(g) : rows[d].type = groups[g]
  <2>1. groups[g] = IF MembersOf(g) = {} THEN Absent
                    ELSE rows[CHOOSE d \in MembersOf(g) : TRUE].type
    BY DEF Init
  <2>2. CASE MembersOf(g) = {}
    BY <2>1, <2>2
  <2>3. CASE MembersOf(g) # {}
    <3> DEFINE c == CHOOSE d \in MembersOf(g) : TRUE
    <3>1. c \in MembersOf(g)
      BY <2>3
    <3> HIDE DEF c
    <3>2. c \in Docs /\ Exists(c) /\ rows[c].group = g
      BY <3>1 DEF MembersOf
    <3>3. groups[g] = rows[c].type
      BY <2>1, <2>3 DEF c
    <3>4. \A d \in MembersOf(g) : rows[d].type = rows[c].type
      BY <1>1, <3>2, SeedsAssumption DEF SeedsAssumption, Apart, MembersOf, Exists
    <3> QED
      BY <1>2, <2>3, <3>2, <3>3, <3>4, NoValues
  <2> QED
    BY <2>2, <2>3
<1>4. GroupsLive
  BY <1>3 DEF GroupsLive
<1>5. GroupsBorn
  BY <1>2 DEF GroupsBorn, Init, MembersOf
<1>6. \A t \in Connections : JoinHeld(t) /\ RemovalHeld(t)
  BY DEF Init, JoinHeld, RemovalHeld, Idle
<1> QED
  BY <1>4, <1>5, <1>6 DEF GroupsHeld

(* A translation group exists exactly while it has members, and they share *)
(* its type, whatever joins and deletions interleave: both take its lock   *)
(* before they look (joinGroup, deleteContent).                            *)
THEOREM GroupsLiveWithTheirMembers == Spec => []GroupsLive
<1>1. GroupsHeld => GroupsLive
  BY DEF GroupsHeld
<1> QED
  BY <1>1, GroupsInit, GroupsKept, Invariance, PTL DEF Spec

(* The members a join was authorized against are the group's members when  *)
(* it commits, and there is at least one (joinGroup under the group lock). *)
THEOREM JoinsSeeTheirGroup == Spec => JoinSeesItsGroup
<1>1. GroupsHeld /\ [Next]_vars =>
        [\A t \in Connections :
           /\ tx[t].pc = "commit" /\ tx[t].op = "create" /\ tx[t].group # None
           /\ tx'[t].pc = "announce"
           => /\ MembersOf(tx[t].group) = tx[t].members
              /\ tx[t].members # {}]_vars
  BY DEF GroupsHeld, JoinHeld
<1>2. Spec => []GroupsHeld
  BY GroupsInit, GroupsKept, Invariance, PTL DEF Spec
<1> QED
  BY <1>1, <1>2, PTL DEF Spec, JoinSeesItsGroup

-----------------------------------------------------------------------------
(* Histories.                                                              *)

Numbered(history) == \A r, s \in history : r.version = s.version => r = s

LEMMA VersionsCount ==
  ASSUME NEW history, IsFiniteSet(history), Numbered(history)
  PROVE  Cardinality({r.version : r \in history}) = Cardinality(history)
<1> DEFINE versions == {r.version : r \in history}
           f == [r \in history |-> r.version]
<1>1. f \in [history -> versions]
  OBVIOUS
<1>2. \A r, s \in history : f[r] = f[s] => r = s
  BY DEF Numbered
<1>3. \A v \in versions : \E r \in history : f[r] = v
  OBVIOUS
<1> HIDE DEF f, versions
<1>4. f \in Bijection(history, versions)
  BY <1>1, <1>2, <1>3, Fun_IsBij
<1>5. ExistsBijection(history, versions)
  BY <1>4 DEF ExistsBijection
<1>6. Cardinality(versions) = Cardinality(history)
  BY <1>5, FS_Bijection
<1> QED
  BY <1>6 DEF versions

(* Revisions of different versions are ordered by age.                     *)
LEMMA NewerOrders ==
  /\ \A r \in Revision : ~Newer(r, r)
  /\ \A r, s, q \in Revision : Newer(r, s) /\ Newer(s, q) => Newer(r, q)
  /\ \A r, s \in Revision : r.version # s.version => Newer(r, s) \/ Newer(s, r)
BY DEF Newer, Revision

LEMMA OldestExists ==
  ASSUME NEW history \in SUBSET Revision, IsFiniteSet(history), Numbered(history),
         history # {}
  PROVE  \E oldest \in history : \A r \in history \ {oldest} : Newer(r, oldest)
<1> DEFINE Older(r) == {s \in history : Newer(r, s)}
           T == {Older(r) : r \in history}
           R == StrictSubsetOrdering(history)
<1>1. T \subseteq FiniteSubsetsOf(history) /\ T # {}
  <2>1. \A r \in history : Older(r) \in SUBSET history
    OBVIOUS
  <2>2. \A U \in SUBSET history : IsFiniteSet(U)
    BY FS_Subset
  <2> HIDE DEF Older
  <2>3. \A r \in history : Older(r) \in FiniteSubsetsOf(history)
    BY <2>1, <2>2 DEF FiniteSubsetsOf
  <2> QED
    BY <2>3
<1>2. IsWellFoundedOn(R, FiniteSubsetsOf(history))
  BY FS_StrictSubsetOrderingWellFounded
<1> HIDE DEF T, R
<1>3. \E X \in T : \A Y \in T : ~(<<Y, X>> \in R)
  BY <1>1, <1>2, WFMin
<1>4. PICK m \in history : \A Y \in T : ~(<<Y, Older(m)>> \in R)
  BY <1>3 DEF T
<1>5. ASSUME NEW s \in Older(m) PROVE FALSE
  <2>1. s \in history /\ s \in Revision /\ m \in Revision /\ Newer(m, s)
    OBVIOUS
  <2>2. Older(s) \subseteq Older(m) /\ s \notin Older(s)
    BY <2>1, NewerOrders
  <2>3. Older(s) \in SUBSET history /\ Older(m) \in SUBSET history
    OBVIOUS
  <2>4. Older(s) \in T
    BY <2>1 DEF T
  <2> HIDE DEF Older
  <2>5. <<Older(s), Older(m)>> \in R
    BY <1>5, <2>2, <2>3 DEF R, StrictSubsetOrdering
  <2> QED
    BY <1>4, <2>4, <2>5
<1>6. \A r \in history \ {m} : Newer(r, m)
  BY <1>5, NewerOrders DEF Numbered
<1> QED
  BY <1>6

(* The prune removes exactly the excess, the oldest first.                 *)
LEMMA PruneFacts ==
  ASSUME NEW history \in SUBSET Revision, IsFiniteSet(history), Numbered(history),
         Cardinality(history) <= REVISION_LIMIT + 1
  PROVE  /\ Prune(history) \subseteq history /\ IsFiniteSet(Prune(history))
         /\ Cardinality(Prune(history)) =
              IF Cardinality(history) <= REVISION_LIMIT THEN Cardinality(history)
              ELSE REVISION_LIMIT
<1> DEFINE Ahead(r) == {s \in history : Newer(s, r)}
           n == Cardinality(history)
<1>1. n \in Nat /\ REVISION_LIMIT \in Nat \ {0}
  BY FS_CardinalityType, ContentAssumption DEF ContentAssumption
<1>2. Prune(history) = {r \in history : Cardinality(Ahead(r)) < REVISION_LIMIT}
  BY DEF Prune
<1>3. \A r \in history : /\ Ahead(r) \subseteq history \ {r}
                         /\ Ahead(r) \subseteq history
  BY NewerOrders
<1>4. \A r \in history : IsFiniteSet(history \ {r}) /\ Cardinality(history \ {r}) = n - 1
  BY FS_RemoveElement
<1> HIDE DEF Ahead, n
<1>5. ASSUME NEW r \in history
      PROVE  /\ IsFiniteSet(Ahead(r)) /\ Cardinality(Ahead(r)) \in Nat
             /\ Cardinality(Ahead(r)) <= n - 1
  <2>1. /\ Ahead(r) \in SUBSET (history \ {r})
        /\ IsFiniteSet(history \ {r}) /\ Cardinality(history \ {r}) = n - 1
    BY <1>3, <1>4
  <2>2. IsFiniteSet(Ahead(r)) /\ Cardinality(Ahead(r)) <= Cardinality(history \ {r})
    BY <2>1, FS_Subset
  <2> QED
    BY <2>1, <2>2, FS_CardinalityType
<1>6. CASE n <= REVISION_LIMIT
  <2>1. Prune(history) = history
    BY <1>1, <1>2, <1>5, <1>6
  <2> QED
    BY <1>6, <2>1 DEF n
<1>7. CASE n = REVISION_LIMIT + 1
  <2>1. history # {}
    BY <1>1, <1>7, FS_EmptySet DEF n
  <2>2. PICK oldest \in history : \A r \in history \ {oldest} : Newer(r, oldest)
    BY <2>1, OldestExists
  <2>3. Cardinality(Ahead(oldest)) = REVISION_LIMIT
    <3>1. Ahead(oldest) = history \ {oldest}
      BY <1>3, <2>2 DEF Ahead
    <3> QED
      BY <1>1, <1>4, <1>7, <3>1
  <2>4. ASSUME NEW r \in history \ {oldest} PROVE Cardinality(Ahead(r)) < REVISION_LIMIT
    <3>1. ~Newer(oldest, r)
      BY <2>2, NewerOrders
    <3>2. Ahead(r) \subseteq (history \ {oldest}) \ {r}
      BY <1>3, <3>1 DEF Ahead
    <3>3. /\ IsFiniteSet((history \ {oldest}) \ {r})
          /\ Cardinality((history \ {oldest}) \ {r}) = n - 2
      <4> DEFINE others == history \ {oldest}
      <4>1. IsFiniteSet(others) /\ Cardinality(others) = n - 1 /\ r \in others
        BY <1>4
      <4> HIDE DEF others
      <4>2. IsFiniteSet(others \ {r}) /\ Cardinality(others \ {r}) = Cardinality(others) - 1
        BY <4>1, FS_RemoveElement
      <4> QED
        BY <1>1, <4>1, <4>2 DEF others
    <3>4. Cardinality(Ahead(r)) <= n - 2
      BY <3>2, <3>3, FS_Subset
    <3> QED
      BY <1>1, <1>5, <1>7, <3>4
  <2>5. Prune(history) = history \ {oldest}
    BY <1>1, <1>2, <2>3, <2>4
  <2> QED
    BY <1>1, <1>4, <1>7, <2>5 DEF n
<1> QED
  BY <1>1, <1>6, <1>7 DEF n

(* The history of a document at a version: one revision of each version    *)
(* before it, as many as are kept.                                         *)
Records(history, version) ==
  /\ IsFiniteSet(history) /\ Numbered(history)
  /\ \A r \in history : r.version < version
  /\ Cardinality(history) = IF version - 1 < REVISION_LIMIT THEN version - 1
                                                            ELSE REVISION_LIMIT

HistoryHeld ==
  \A d \in Docs : /\ Exists(d) => Records(revisions[d], rows[d].version)
                  /\ ~Exists(d) => revisions[d] = {}

(* The history with the state a write supersedes, before the prune.        *)
Grown(t, d) ==
  revisions[d] \cup
    {[version |-> rows[d].version, state |-> rows[d].state, at |-> tx[t].started]}

LEMMA GrownFacts ==
  ASSUME Inv, HistoryHeld, NEW t \in Connections, NEW d \in Docs, rows[d] \in Row
  PROVE  /\ Grown(t, d) \in SUBSET Revision
         /\ IsFiniteSet(Grown(t, d)) /\ Numbered(Grown(t, d))
         /\ \A r \in Grown(t, d) : r.version < rows[d].version + 1
         /\ Cardinality(Grown(t, d)) = Cardinality(revisions[d]) + 1
         /\ Cardinality(Grown(t, d)) <= REVISION_LIMIT + 1
<1> DEFINE v       == rows[d].version
           newest  == [version |-> v, state |-> rows[d].state, at |-> tx[t].started]
           old     == revisions[d]
           history == old \cup {newest}
<1>1. /\ v \in Nat \ {0} /\ REVISION_LIMIT \in Nat \ {0}
      /\ newest \in Revision /\ newest.version = v
      /\ old \in SUBSET Revision
  BY ContentAssumption DEF ContentAssumption, Inv, TypeOK, Transaction, Row, Revision
<1>2. Records(old, v)
  BY NoValues DEF HistoryHeld, Exists
<1> HIDE DEF newest, v, old
<1>3. newest \notin old /\ Numbered(history)
  BY <1>1, <1>2 DEF Records, Numbered, Revision
<1>4. IsFiniteSet(history) /\ Cardinality(history) = Cardinality(old) + 1
  BY <1>2, <1>3, FS_AddElement DEF Records
<1>5. history \in SUBSET Revision /\ \A r \in history : r.version < v + 1
  BY <1>1, <1>2 DEF Records, Revision
<1> HIDE DEF history
<1>6. Cardinality(history) <= REVISION_LIMIT + 1
  BY <1>1, <1>2, <1>4 DEF Records
<1>7. history = Grown(t, d)
  BY DEF history, newest, v, old, Grown
<1> QED
  BY <1>3, <1>4, <1>5, <1>6, <1>7 DEF v, old

LEMMA SupersededRecords ==
  ASSUME Inv, HistoryHeld, NEW t \in Connections, NEW d \in Docs, rows[d] \in Row
  PROVE  Records(Superseded(t, d, rows[d]), rows[d].version + 1)
<1> DEFINE v       == rows[d].version
           history == Grown(t, d)
<1>1. v \in Nat \ {0} /\ REVISION_LIMIT \in Nat \ {0}
  BY ContentAssumption DEF ContentAssumption, Row
<1>2. Superseded(t, d, rows[d]) = Prune(history)
  BY DEF Superseded, Grown
<1>3. Records(revisions[d], v)
  BY NoValues DEF HistoryHeld, Exists
<1>4. /\ history \in SUBSET Revision /\ IsFiniteSet(history) /\ Numbered(history)
      /\ \A r \in history : r.version < v + 1
      /\ Cardinality(history) = Cardinality(revisions[d]) + 1
      /\ Cardinality(history) <= REVISION_LIMIT + 1
  BY GrownFacts
<1> HIDE DEF v, history
<1>5. /\ Prune(history) \subseteq history /\ IsFiniteSet(Prune(history))
      /\ Cardinality(Prune(history)) =
           IF Cardinality(history) <= REVISION_LIMIT THEN Cardinality(history)
           ELSE REVISION_LIMIT
  BY <1>4, PruneFacts
<1>6. Numbered(Prune(history)) /\ \A r \in Prune(history) : r.version < v + 1
  BY <1>4, <1>5 DEF Numbered
<1>7. Cardinality(Prune(history)) =
         IF (v + 1) - 1 < REVISION_LIMIT THEN (v + 1) - 1 ELSE REVISION_LIMIT
  BY <1>1, <1>3, <1>4, <1>5 DEF Records
<1> QED
  BY <1>2, <1>5, <1>6, <1>7 DEF Records, v

LEMMA HistoryInit == Init => HistoryHeld
<1> SUFFICES ASSUME Init, NEW d \in Docs
             PROVE  Exists(d) => Records({}, rows[d].version)
  BY DEF HistoryHeld, Init
<1>1. Exists(d) => rows[d].version = 1
  BY SeedsAssumption DEF SeedsAssumption, Init, Exists
<1>2. REVISION_LIMIT \in Nat \ {0}
  BY ContentAssumption DEF ContentAssumption
<1> QED
  BY <1>1, <1>2, FS_EmptySet DEF Records, Numbered

LEMMA HistoryKept == Inv /\ HistoryHeld /\ [Next]_vars => HistoryHeld'
<1> SUFFICES ASSUME Inv, HistoryHeld, [Next]_vars PROVE HistoryHeld'
  OBVIOUS
<1> DEFINE Held(d) == /\ Exists(d) => Records(revisions[d], rows[d].version)
                      /\ ~Exists(d) => revisions[d] = {}
<1>1. \A d \in Docs : Held(d)
  BY DEF HistoryHeld
<1>2. \A d \in Docs : rows'[d] = rows[d] /\ revisions'[d] = revisions[d] => Held(d)'
  BY <1>1 DEF Exists, Records, Numbered
<1>3. \A d \in Docs : rows'[d] = Absent /\ revisions'[d] = {} => Held(d)'
  BY DEF Exists
<1>4. ASSUME NEW t \in Connections, NEW d \in Docs, rows[d] \in Row, rows'[d] \in Row,
             rows'[d].version = rows[d].version + 1,
             revisions'[d] = Superseded(t, d, rows[d])
      PROVE  Held(d)'
  <2>1. Records(revisions'[d], rows'[d].version)
    BY <1>4, SupersededRecords
  <2> QED
    BY <1>4, <2>1, NoValues DEF Exists, Records, Numbered
<1>5. ASSUME WritesNothing, NEW d \in Docs PROVE Held(d)'
  BY <1>2, <1>5 DEF WritesNothing
<1>6. ASSUME NEW t \in Connections, NEW e \in Docs, NEW g \in Groups, Creates(t, e, g),
             NEW d \in Docs
      PROVE  Held(d)'
  <2> DEFINE row == [type |-> tx[t].type, locale |-> tx[t].locale, group |-> g,
                     author |-> tx[t].user, version |-> 1, state |-> tx[t].next]
  <2>1. /\ e \notin born /\ rows' = [rows EXCEPT ![e] = row] /\ revisions' = revisions
    BY <1>6 DEF Creates
  <2>2. row.version = 1
    OBVIOUS
  <2> HIDE DEF row
  <2>3. CASE d # e
    BY <1>2, <2>1, <2>3 DEF Inv, TypeOK
  <2>4. CASE d = e
    <3>1. revisions'[d] = {} /\ rows'[d] = row
      BY <1>1, <2>1, <2>4 DEF Inv, TypeOK, Known
    <3>2. REVISION_LIMIT \in Nat \ {0}
      BY ContentAssumption DEF ContentAssumption
    <3>3. Records({}, 1)
      BY <3>2, FS_EmptySet DEF Records, Numbered
    <3> QED
      BY <2>2, <3>1, <3>3 DEF Exists, Records, Numbered
  <2> QED
    BY <2>3, <2>4
<1>7. ASSUME NEW t \in Connections, Updates(t), NEW d \in Docs PROVE Held(d)'
  <2> DEFINE row == [tx[t].cur EXCEPT !.state = tx[t].next, !.version = @ + 1]
  <2>1. /\ tx[t].doc \in Docs /\ rows[tx[t].doc] = tx[t].cur /\ rows[tx[t].doc] \in Row
        /\ row \in Row /\ row.version = rows[tx[t].doc].version + 1
        /\ rows' = [rows EXCEPT ![tx[t].doc] = row] /\ rows'[tx[t].doc] = row
        /\ revisions' = [revisions EXCEPT ![tx[t].doc] =
                           Superseded(t, tx[t].doc, tx[t].cur)]
    BY <1>7, UpdateFacts
  <2> HIDE DEF row
  <2>2. CASE d # tx[t].doc
    BY <1>2, <2>1, <2>2 DEF Inv, TypeOK
  <2>3. CASE d = tx[t].doc
    <3>1. revisions'[d] = Superseded(t, d, rows[d])
      BY <2>1, <2>3 DEF Inv, TypeOK
    <3> QED
      BY <1>4, <2>1, <2>3, <3>1
  <2> QED
    BY <2>2, <2>3
<1>8. ASSUME NEW t \in Connections, Removes(t), NEW d \in Docs PROVE Held(d)'
  <2>1. /\ tx[t].doc \in Docs /\ rows'[tx[t].doc] = Absent
        /\ \A e \in Docs \ {tx[t].doc} :
             \/ rows'[e] = rows[e]
             \/ rows[e] \in Row /\ rows'[e] = [rows[e] EXCEPT !.state.parent = None]
        /\ revisions' = [revisions EXCEPT ![tx[t].doc] = {}]
    BY <1>8, RemoveFacts
  <2>2. CASE d # tx[t].doc
    <3>1. revisions'[d] = revisions[d]
      BY <2>1, <2>2 DEF Inv, TypeOK
    <3>2. CASE rows'[d] = rows[d]
      BY <1>2, <3>1, <3>2
    <3>3. CASE rows[d] \in Row /\ rows'[d] = [rows[d] EXCEPT !.state.parent = None]
      <4>1. rows'[d] \in Row /\ rows'[d].version = rows[d].version
        BY <3>3, OrphanedRow
      <4> QED
        BY <1>1, <3>1, <3>3, <4>1, NoValues DEF Exists, Records, Numbered
    <3> QED
      BY <2>1, <2>2, <3>2, <3>3
  <2>3. CASE d = tx[t].doc
    BY <1>3, <2>1, <2>3 DEF Inv, TypeOK
  <2> QED
    BY <2>2, <2>3
<1>9. ASSUME NEW t \in Connections, CommitPublishDue(t), NEW d \in Docs PROVE Held(d)'
  <2>1. CASE d \in Claimed(t)
    <3>1. /\ rows[d] \in Row /\ rows'[d] = Publish(rows[d])
          /\ revisions'[d] = Superseded(t, d, rows[d])
      BY <1>9, <2>1, PublishFacts
    <3>2. rows'[d] \in Row /\ rows'[d].version = rows[d].version + 1
      BY <3>1, PublishedRow
    <3> QED
      BY <1>4, <3>1, <3>2
  <2>2. CASE d \notin Claimed(t)
    BY <1>2, <1>9, <2>2, PublishFacts
  <2> QED
    BY <2>1, <2>2
<1>10. \A d \in Docs : Held(d)'
  BY <1>5, <1>6, <1>7, <1>8, <1>9, WritesOrNot DEF Writes
<1> QED
  BY <1>10 DEF HistoryHeld

(* A document at version n has min(n - 1, REVISION_LIMIT) revisions, all   *)
(* different and below n: every save, restore and publish pass adds one,   *)
(* and the prune removes one when there is one too many, the oldest by its *)
(* moment (insertContentRevision, pruneRevisions), which need not be the   *)
(* one of the lowest version.                                              *)
THEOREM HistoriesAreCounted == Spec => []RevisionsCounted
<1>1. Inv /\ HistoryHeld => RevisionsCounted
  <2> SUFFICES ASSUME Inv, HistoryHeld, NEW d \in Docs, Exists(d)
      PROVE  LET versions == {r.version : r \in revisions[d]}
                 behind   == rows[d].version - 1
             IN /\ versions \subseteq 1..behind
                /\ Cardinality(versions) = Cardinality(revisions[d])
                /\ Cardinality(versions) = IF behind < REVISION_LIMIT THEN behind
                                                                     ELSE REVISION_LIMIT
    BY DEF RevisionsCounted
  <2>1. Records(revisions[d], rows[d].version)
    BY DEF HistoryHeld
  <2>2. rows[d].version \in Nat \ {0} /\ revisions[d] \in SUBSET Revision
    BY DEF Inv, TypeOK, MaybeRow, Exists, Row
  <2>3. \A r \in revisions[d] : r.version \in 1..(rows[d].version - 1)
    BY <2>1, <2>2 DEF Records, Revision
  <2>4. Cardinality({r.version : r \in revisions[d]}) = Cardinality(revisions[d])
    BY <2>1, VersionsCount DEF Records
  <2> QED
    BY <2>1, <2>3, <2>4 DEF Records
<1>2. Spec => []HistoryHeld
  BY HistoryInit, HistoryKept, Invariance, PTL DEF Spec
<1> QED
  BY <1>1, <1>2, Invariance, PTL

-----------------------------------------------------------------------------
(* The history a save leaves.                                              *)

Saving(t) == tx[t].op \in {"update", "restore"}

(* A step of one connection: it goes on with what it began or comes to     *)
(* rest, or it begins, later than whatever has begun so far.               *)
GoesOn(t) ==
  \/ /\ tx'[t].started \in {0, tx[t].started}
     /\ Saving(t)' => /\ Saving(t) /\ tx'[t].started = tx[t].started
                      /\ tx'[t].doc = tx[t].doc /\ tx'[t].form = tx[t].form
  \/ tx'[t].started = ticks + 1 /\ ticks' = ticks + 1 /\ UNCHANGED db

LEMMA GoesOnStep ==
  ASSUME Inv, NEW t \in Connections, NEW r, tx' = [tx EXCEPT ![t] = r],
         tx'[t] = r => GoesOn(t), NEW s \in Connections
  PROVE  GoesOn(s)
BY MovesTo DEF GoesOn, Saving

LEMMA EachGoesOn ==
  ASSUME Inv, [Next]_vars
  PROVE  (ticks' = ticks \/ ticks' = ticks + 1) /\ \A s \in Connections : GoesOn(s)
<1> DEFINE All == (ticks' = ticks \/ ticks' = ticks + 1) /\ \A s \in Connections : GoesOn(s)
<1>1. CASE UNCHANGED <<tx, ticks>>
  BY <1>1 DEF GoesOn, Saving
<1>2. ASSUME NEW t \in Connections, Refuse(t) PROVE All
  BY <1>2, GoesOnStep DEF Refuse, Ends, Moves, Idle, GoesOn, Saving
<1>3. ASSUME NEW t \in Connections, NEW events, Commits(t, events) PROVE All
  <2> DEFINE r == [Idle EXCEPT !.pc = "announce", !.outbox = events]
  <2>1. tx' = [tx EXCEPT ![t] = r] /\ r.op = "none" /\ r.started = 0 /\ ticks' = ticks
    BY <1>3 DEF Commits, Moves, Idle
  <2> HIDE DEF r
  <2> QED
    BY <2>1, GoesOnStep DEF GoesOn, Saving
<1>4. \A t \in Connections : DOMAIN tx[t] = DOMAIN Idle
  BY DEF Inv, TypeOK, Transaction, Idle
<1>5. ASSUME NEW t \in Connections, Request(t) PROVE All
  <2>1. ASSUME NEW changes, DOMAIN changes = DOMAIN Idle, Begins(t, changes)
        PROVE  All
    <3> DEFINE r == [changes EXCEPT !.started = ticks + 1, !.clock = now]
    <3>1. tx' = [tx EXCEPT ![t] = r] /\ ticks' = ticks + 1 /\ UNCHANGED db
      BY <2>1 DEF Begins, Moves
    <3>2. r.started = ticks + 1
      BY <2>1 DEF Idle
    <3> HIDE DEF r
    <3> QED
      BY <3>1, <3>2, GoesOnStep DEF GoesOn
  <2>2. ASSUME NEW u \in UserIds, NEW d \in Docs, OpenForm(t, u, d) PROVE All
    <3> DEFINE r == [Idle EXCEPT !.pc = "composing", !.user = u, !.doc = d,
                                 !.form = rows[d]]
    <3>1. tx' = [tx EXCEPT ![t] = r] /\ ticks' = ticks
      BY <2>2 DEF OpenForm, Moves
    <3>2. r.op = "none" /\ r.started = 0
      BY DEF Idle
    <3> HIDE DEF r
    <3> QED
      BY <3>1, <3>2, GoesOnStep DEF GoesOn, Saving
  <2>3. ASSUME NEW u \in UserIds, NEW d \in Docs, BeginDelete(t, u, d) PROVE All
    <3> DEFINE c == [Idle EXCEPT !.pc = "lockGroup", !.op = "delete", !.user = u,
                            !.doc = d, !.group = rows[d].group, !.at = d]
    <3>1. Begins(t, c) /\ DOMAIN c = DOMAIN Idle
      BY <2>3 DEF BeginDelete
    <3> HIDE DEF c
    <3> QED
      BY <3>1, <2>1
  <2>4. ASSUME NEW u \in UserIds, BeginCreate(t, u) PROVE All
    <3>1. PICK type \in Types, locale \in Locales, sent \in Creations,
               group \in Groups \cup {None} :
            LET state == StampPublication(Parse(type, sent), now)
                next  == IF group # None THEN "lockGroup"
                         ELSE IF state.parent # None THEN "walk" ELSE "commit"
            IN Begins(t, [Idle EXCEPT !.pc = next, !.op = "create", !.user = u,
                            !.type = type, !.locale = locale, !.group = group,
                            !.next = state, !.at = state.parent])
      BY <2>4, ZenonT(60) DEF BeginCreate
    <3> DEFINE state == StampPublication(Parse(type, sent), now)
               next  == IF group # None THEN "lockGroup"
                        ELSE IF state.parent # None THEN "walk" ELSE "commit"
               c == [Idle EXCEPT !.pc = next, !.op = "create", !.user = u,
                       !.type = type, !.locale = locale, !.group = group,
                       !.next = state, !.at = state.parent]
    <3>2. Begins(t, c)
      BY <3>1
    <3> HIDE DEF state, next
    <3>3. DOMAIN c = DOMAIN Idle
      OBVIOUS
    <3> HIDE DEF c
    <3> QED
      BY <3>2, <3>3, <2>1
  <2>5. ASSUME NEW op, NEW patch, NEW d,
               Begins(t, [tx[t] EXCEPT !.pc = "lockRow", !.op = op, !.at = d,
                                       !.patch = patch])
        PROVE  All
    <3> DEFINE c == [tx[t] EXCEPT !.pc = "lockRow", !.op = op, !.at = d,
                                  !.patch = patch]
    <3>1. Begins(t, c) /\ DOMAIN c = DOMAIN Idle
      BY <1>4, <2>5
    <3> HIDE DEF c
    <3> QED
      BY <3>1, <2>1
  <2>6. CASE BeginUpdate(t) \/ BeginRestore(t)
    BY <2>5, <2>6 DEF BeginUpdate, BeginRestore
  <2>7. CASE BeginPublishDue(t)
    <3> DEFINE due == {<<rows[d].state.date, d>> : d \in {e \in Docs : IsDue(e, now)}}
    <3>1. PICK d \in NextDue(due) :
            Begins(t, [Idle EXCEPT !.pc = "claim", !.op = "publishDue",
                                   !.due = due, !.at = d])
      BY <2>7 DEF BeginPublishDue
    <3> DEFINE c == [Idle EXCEPT !.pc = "claim", !.op = "publishDue",
                                 !.due = due, !.at = d]
    <3> HIDE DEF due
    <3>2. Begins(t, c) /\ DOMAIN c = DOMAIN Idle
      BY <3>1
    <3> HIDE DEF c
    <3> QED
      BY <3>2, <2>1
  <2> QED
    BY <1>5, <2>2, <2>3, <2>4, <2>6, <2>7 DEF Request
<1>6. ASSUME NEW t \in Connections, Proceed(t) PROVE All
  <2>1. ASSUME NEW r, tx' = [tx EXCEPT ![t] = r], ticks' = ticks,
               r.started = tx[t].started, r.op = tx[t].op, r.doc = tx[t].doc,
               r.form = tx[t].form
        PROVE  All
    BY <2>1, GoesOnStep DEF GoesOn, Saving
  <2>2. CASE JoinGroup(t) \/ MeasureHeight(t)
    BY <1>2, <1>4, <2>1, <2>2 DEF JoinGroup, MeasureHeight, Moves, Idle
  <2>3. CASE LockForUpdate(t)
    BY <1>2, <1>4, <2>1, <2>3 DEF LockForUpdate, Moves, Idle
  <2>4. CASE LockAncestor(t)
    BY <1>4, <2>1, <2>4 DEF LockAncestor, Moves, Idle
  <2>5. CASE LockGroupOfDeleted(t)
    BY <1>4, <2>1, <2>5 DEF LockGroupOfDeleted, Moves, Idle
  <2>6. CASE LockForDelete(t)
    BY <1>2, <1>4, <2>1, <2>6 DEF LockForDelete, Moves, Idle
  <2>7. CASE LockChild(t)
    BY <1>4, <2>1, <2>7 DEF LockChild, Moves, Idle
  <2>8. CASE Claim(t)
    BY <1>4, <2>1, <2>8 DEF Claim, Moves, Idle
  <2>9. CASE Announce(t)
    <3>1. CASE tx' = [tx EXCEPT ![t] = Idle]
      BY <2>9, <3>1, GoesOnStep DEF Announce, Idle, GoesOn, Saving
    <3>2. CASE tx' = [tx EXCEPT ![t] = [tx[t] EXCEPT !.outbox = Tail(@)]]
      BY <1>4, <2>1, <2>9, <3>2 DEF Announce, Idle
    <3> QED
      BY <2>9, <3>1, <3>2 DEF Announce, Moves
  <2>10. CASE CommitCreate(t) \/ CommitUpdate(t) \/ CommitDelete(t) \/ CommitPublishDue(t)
    BY <1>2, <1>3, <2>10 DEF CommitCreate, CommitUpdate, CommitDelete, CommitPublishDue
  <2>11. CASE RefuseParent(t) \/ BreakDeadlock(t)
    BY <1>2, <2>11 DEF RefuseParent, BreakDeadlock
  <2> QED
    BY <1>6, <2>2, <2>3, <2>4, <2>5, <2>6, <2>7, <2>8, <2>9, <2>10, <2>11 DEF Proceed
<1> QED
  BY <1>1, <1>2, <1>5, <1>6 DEF Next, Abort, DeleteMedia, Tick, Quiet, vars

(* A save that has not been overtaken began after every write recorded of  *)
(* its document: it answers a form that shows what the last one left.      *)
Begun(d) == \A r \in revisions[d] : r.at <= ticks

AfterAll(t) ==
  /\ tx[t].started <= ticks
  /\ Saving(t) /\ rows[tx[t].doc] # Absent /\ rows[tx[t].doc].version = tx[t].form.version
       => \A r \in revisions[tx[t].doc] : r.at < tx[t].started

InTurn == (\A d \in Docs : Begun(d)) /\ (\A t \in Connections : AfterAll(t))

(* Each document keeps its revisions while it keeps its version.           *)
LEMMA HistoryMoves ==
  ASSUME Inv, InTurn, [Next]_vars, NEW d \in Docs
  PROVE  /\ Begun(d)'
         /\ rows'[d] # Absent /\ d \in born =>
              \/ /\ rows[d] # Absent /\ rows'[d].version = rows[d].version
                 /\ revisions'[d] = revisions[d]
              \/ rows[d] \in Row /\ rows'[d].version = rows[d].version + 1
<1>1. /\ ticks \in Nat /\ ticks' \in Nat /\ ticks <= ticks'
      /\ \A r \in revisions[d] : r.at \in Nat /\ r.at <= ticks
      /\ \A t \in Connections : tx[t].started \in Nat /\ tx[t].started <= ticks
      /\ revisions \in [Docs -> SUBSET Revision] /\ rows \in [Docs -> MaybeRow]
  BY EachGoesOn DEF Inv, TypeOK, InTurn, Begun, AfterAll, Revision, Transaction
<1>2. ASSUME NEW t \in Connections, NEW current, revisions'[d] = Superseded(t, d, current)
      PROVE  Begun(d)'
  BY <1>1, <1>2 DEF Begun, Superseded, Prune
<1>3. ASSUME revisions'[d] \subseteq revisions[d] PROVE Begun(d)'
  BY <1>1, <1>3 DEF Begun
<1>4. ASSUME WritesNothing PROVE rows' = rows /\ revisions' = revisions
  BY <1>4 DEF WritesNothing
<1>5. ASSUME NEW t \in Connections, NEW e \in Docs, NEW g \in Groups, Creates(t, e, g)
      PROVE  revisions' = revisions /\ (d \in born => rows'[d] = rows[d])
  BY <1>1, <1>5 DEF Creates
<1>6. ASSUME NEW t \in Connections, Updates(t)
      PROVE  \/ rows'[d] = rows[d] /\ revisions'[d] = revisions[d]
             \/ /\ rows[d] \in Row /\ rows'[d].version = rows[d].version + 1
                /\ \E current : revisions'[d] = Superseded(t, d, current)
  <2> DEFINE row == [tx[t].cur EXCEPT !.state = tx[t].next, !.version = @ + 1]
  <2>1. /\ rows[tx[t].doc] \in Row /\ row.version = rows[tx[t].doc].version + 1
        /\ rows' = [rows EXCEPT ![tx[t].doc] = row]
        /\ revisions' = [revisions EXCEPT ![tx[t].doc] =
                           Superseded(t, tx[t].doc, tx[t].cur)]
    BY <1>6, UpdateFacts, Zenon
  <2> HIDE DEF row
  <2>2. CASE d = tx[t].doc
    <3>1. rows'[d] = row
      BY <1>1, <2>1, <2>2
    <3>2. revisions'[d] = Superseded(t, d, tx[t].cur)
      BY <1>1, <2>1, <2>2
    <3> QED
      BY <2>1, <2>2, <3>1, <3>2
  <2>3. CASE d # tx[t].doc
    BY <1>1, <2>1, <2>3
  <2> QED
    BY <2>2, <2>3
<1>7. ASSUME NEW t \in Connections, Removes(t)
      PROVE  \/ rows'[d] = Absent /\ revisions'[d] = {}
             \/ rows'[d] = rows[d] /\ revisions'[d] = revisions[d]
             \/ /\ rows[d] \in Row /\ rows'[d].version = rows[d].version
                /\ revisions'[d] = revisions[d]
  <2>1. /\ tx[t].doc \in Docs /\ rows'[tx[t].doc] = Absent
        /\ \A e \in Docs \ {tx[t].doc} :
             \/ rows'[e] = rows[e]
             \/ rows[e] \in Row /\ rows'[e] = [rows[e] EXCEPT !.state.parent = None]
        /\ revisions' = [revisions EXCEPT ![tx[t].doc] = {}]
    BY <1>7, RemoveFacts
  <2>2. \A row \in Row : [row EXCEPT !.state.parent = None].version = row.version
    BY DEF Row
  <2> QED
    BY <1>1, <2>1, <2>2
<1>8. ASSUME NEW t \in Connections, CommitPublishDue(t)
      PROVE  \/ rows'[d] = rows[d] /\ revisions'[d] = revisions[d]
             \/ /\ rows[d] \in Row /\ rows'[d].version = rows[d].version + 1
                /\ \E current : revisions'[d] = Superseded(t, d, current)
  <2>1. \/ /\ rows[d] \in Row /\ rows'[d] = Publish(rows[d])
           /\ revisions'[d] = Superseded(t, d, rows[d])
        \/ rows'[d] = rows[d] /\ revisions'[d] = revisions[d]
    BY <1>8, PublishFacts
  <2>2. rows[d] \in Row => Publish(rows[d]).version = rows[d].version + 1
    BY PublishedRow
  <2> QED
    BY <2>1, <2>2
<1> QED
  BY <1>2, <1>3, <1>4, <1>5, <1>6, <1>7, <1>8, WritesOrNot, NoValues DEF Writes

LEMMA InTurnKept == Inv /\ InTurn /\ [Next]_vars => InTurn'
<1> SUFFICES ASSUME Inv, InTurn, [Next]_vars, NEW t \in Connections PROVE AfterAll(t)'
  BY HistoryMoves DEF InTurn
<1>1. /\ ticks \in Nat /\ (ticks' = ticks \/ ticks' = ticks + 1) /\ tx[t].started \in Nat
      /\ tx[t].started <= ticks /\ GoesOn(t)
  BY EachGoesOn DEF Inv, TypeOK, InTurn, AfterAll, Transaction
<1>2. tx'[t].started <= ticks'
  BY <1>1 DEF GoesOn
<1>3. ASSUME Saving(t)', rows'[tx'[t].doc] # Absent,
             rows'[tx'[t].doc].version = tx'[t].form.version, NEW r \in revisions'[tx'[t].doc]
      PROVE  r.at < tx'[t].started
  <2>1. CASE tx'[t].started = ticks + 1 /\ UNCHANGED db
    <3>1. Inv'
      BY NextPreserves
    <3>2. tx'[t].doc \in Docs
      BY <1>3, <3>1 DEF Inv, Shape, Saving
    <3>3. r \in revisions[tx'[t].doc] /\ r.at \in Nat
      BY <1>3, <2>1, <3>2 DEF db, Inv, TypeOK, Revision
    <3> QED
      BY <1>1, <2>1, <3>2, <3>3 DEF InTurn, Begun
  <2>2. CASE /\ Saving(t) /\ tx'[t].started = tx[t].started
             /\ tx'[t].doc = tx[t].doc /\ tx'[t].form = tx[t].form
    <3> DEFINE d == tx[t].doc
    <3>1. d \in Docs /\ d \in born /\ tx[t].form \in Row /\ Current(rows[d], tx[t].form)
      BY <2>2, NoValues DEF Inv, Known, Shape, Honest, Saving
    <3>2. CASE /\ rows[d] # Absent /\ rows'[d].version = rows[d].version
               /\ revisions'[d] = revisions[d]
      BY <1>3, <2>2, <3>2 DEF InTurn, AfterAll
    <3>3. CASE rows[d] \in Row /\ rows'[d].version = rows[d].version + 1
      BY <1>3, <2>2, <3>1, <3>3, NoValues DEF Current, Row
    <3> QED
      BY <1>3, <2>2, <3>1, <3>2, <3>3, HistoryMoves
  <2> QED
    BY <1>1, <1>3, <2>1, <2>2 DEF GoesOn
<1> QED
  BY <1>2, <1>3 DEF AfterAll

(* What a save or a restore replaces is in the history it leaves: what it   *)
(* records is newer than all that was recorded before, so the prune, which  *)
(* goes by the start of transactions, keeps it (updateContent,              *)
(* pruneRevisions).                                                         *)
THEOREM SavesKeepWhatTheyReplace == Spec => ReplacedIsKept
<1>1. ASSUME Inv, InTurn, [Next]_vars, NEW t \in Connections, Commits_Update(t)
      PROVE  \E r \in revisions'[tx[t].doc] :
               r.version = rows[tx[t].doc].version /\ r.state = rows[tx[t].doc].state
  <2> DEFINE d   == tx[t].doc
             new == [version |-> tx[t].cur.version, state |-> tx[t].cur.state,
                     at |-> tx[t].started]
             history == revisions[d] \cup {new}
  <2>1. Updates(t)
    <3>1. /\ TypeOK /\ tx[t].pc = "commit" /\ tx'[t].pc = "announce"
          /\ tx[t].op \in {"update", "restore"}
      BY <1>1 DEF Inv, Commits_Update
    <3>2. /\ ~Refuse(t)
          /\ CommitCreate(t) \/ CommitUpdate(t) \/ CommitDelete(t) \/ CommitPublishDue(t)
      BY <1>1, <3>1, CommitStep
    <3>3. ~CommitCreate(t) /\ ~CommitDelete(t) /\ ~CommitPublishDue(t)
      BY <3>1 DEF CommitCreate, CommitDelete, CommitPublishDue
    <3> QED
      BY <3>2, <3>3 DEF Updates
  <2>2. /\ d \in Docs /\ rows[d] = tx[t].cur /\ rows[d] \in Row
        /\ revisions' = [revisions EXCEPT ![d] = Superseded(t, d, tx[t].cur)]
    BY <1>1, <2>1, UpdateFacts, Zenon
  <2>3. rows[d].version = tx[t].form.version
    BY <1>1, <2>1, <2>2 DEF Inv, Protected, Writing, Updates, CommitUpdate
  <2>4. \A r \in revisions[d] : r.at < tx[t].started
    BY <1>1, <2>2, <2>3, NoValues DEF InTurn, AfterAll, Saving, Commits_Update
  <2>5. \A s \in history : ~Newer(s, new)
    <3>1. /\ \A r \in revisions[d] : r.at \in Nat
          /\ tx[t].started \in Nat /\ tx[t].cur.version \in Nat
      BY <1>1, <2>2 DEF Inv, TypeOK, Revision, Transaction, Row
    <3> QED
      BY <2>4, <3>1 DEF Newer
  <2>6. {s \in history : Newer(s, new)} = {}
    BY <2>5
  <2>7. new \in Prune(history)
    <3>1. Cardinality({s \in history : Newer(s, new)}) < REVISION_LIMIT
      <4>1. REVISION_LIMIT \in Nat \ {0}
        BY ContentAssumption DEF ContentAssumption
      <4>2. Cardinality({s \in history : Newer(s, new)}) = 0
        <5> HIDE DEF new, history
        <5> QED
          BY <2>6, FS_EmptySet, Zenon
      <4> HIDE DEF new, history
      <4> QED
        BY <4>1, <4>2
    <3>2. new \in history
      OBVIOUS
    <3> HIDE DEF new, history
    <3> QED
      BY <3>1, <3>2 DEF Prune
  <2>8. revisions'[d] = Prune(history)
    BY <1>1, <2>2 DEF Superseded, Inv, TypeOK
  <2> QED
    BY <2>2, <2>7, <2>8
<1>2. Init => InTurn
  BY DEF Init, InTurn, Begun, AfterAll, Saving, Idle
<1>3. Spec => []InTurn
  BY <1>2, InTurnKept, Invariance, PTL DEF Spec
<1>4. Inv /\ InTurn /\ [Next]_vars =>
        [\A t \in Connections : Commits_Update(t) =>
           \E r \in revisions'[tx[t].doc] :
             r.version = rows[tx[t].doc].version /\ r.state = rows[tx[t].doc].state]_vars
  BY <1>1
<1> QED
  BY <1>3, <1>4, Invariance, PTL DEF Spec, ReplacedIsKept

(* What is recorded is what was replaced, and what a save replaces is      *)
(* recorded and not pruned at once (HistoriesHold).                        *)
THEOREM HistoriesAlwaysHold == Spec => HistoriesHold
  BY RevisionsAreOfTheRowSuperseded, SavesKeepWhatTheyReplace DEF HistoriesHold

-----------------------------------------------------------------------------
(* Recursive functions over an initial segment of the naturals.            *)

LEMMA LeastNatural ==
  ASSUME NEW S \in SUBSET Nat, S # {}
  PROVE  \E n \in S : \A m \in S : n <= m
<1> DEFINE Less == {ss \in Nat \X Nat : ss[1] < ss[2]}
<1>1. IsWellFoundedOn(Less, Nat)
  BY NatLessThanWellFounded DEF OpToRel
<1>2. \A m, n \in Nat : m < n => <<m, n>> \in Less
  OBVIOUS
<1> HIDE DEF Less
<1>3. PICK n \in S : \A m \in S : ~(<<m, n>> \in Less)
  BY <1>1, WFMin
<1>4. ASSUME NEW m \in S PROVE n <= m
  <2>1. ~(m < n)
    BY <1>2, <1>3
  <2> QED
    BY <2>1
<1> QED
  BY <1>4

(* Applying a function n times to a starting point can be tabulated.       *)
LEMMA IterationExists ==
  ASSUME NEW A, NEW a \in A, NEW up \in [A -> A], NEW N \in Nat
  PROVE  \E f \in [0..N -> A] : f = [k \in 0..N |-> IF k = 0 THEN a ELSE up[f[k - 1]]]
<1> DEFINE Tabulates(n, f) == f = [k \in 0..n |-> IF k = 0 THEN a ELSE up[f[k - 1]]]
           Bad == {n \in Nat : ~ \E f \in [0..n -> A] : Tabulates(n, f)}
<1>1. ASSUME Bad # {} PROVE FALSE
  <2>1. PICK n \in Bad : \A m \in Bad : n <= m
    BY <1>1, LeastNatural
  <2>2. n # 0
    <3>1. [k \in 0..0 |-> a] \in [0..0 -> A] /\ Tabulates(0, [k \in 0..0 |-> a])
      OBVIOUS
    <3> QED
      BY <2>1, <3>1
  <2>3. n \in Nat /\ n - 1 \in Nat /\ n - 1 \notin Bad
    BY <2>1, <2>2
  <2>4. PICK f \in [0..(n - 1) -> A] : Tabulates(n - 1, f)
    BY <2>3
  <2> DEFINE g == [k \in 0..n |-> IF k = n THEN up[f[n - 1]] ELSE f[k]]
  <2>5. g \in [0..n -> A]
    BY <2>3
  <2>6. \A k \in 0..n : g[k] = IF k = 0 THEN a ELSE up[g[k - 1]]
    BY <2>2, <2>3, <2>4
  <2>7. Tabulates(n, g)
    BY <2>5, <2>6
  <2> QED
    BY <2>1, <2>5, <2>7
<1> QED
  BY <1>1

-----------------------------------------------------------------------------
(* Trees.  f gives each document its parent, or None.  A set closed under  *)
(* parents holds whole paths; the documents under d are those that no such *)
(* set holds without d.                                                    *)

Forest(f) == DOMAIN f \subseteq Docs

Closed(f, U) == U \subseteq DOMAIN f /\ \A x \in U : f[x] = None \/ f[x] \in U

Outside(f, d) == UNION {U \in SUBSET (DOMAIN f) : Closed(f, U) /\ d \notin U}

Under(f, d) == (DOMAIN f) \ Outside(f, d)

(* How far down each document is: the length of its path.                  *)
Levels(f, level) ==
  \A x \in DOMAIN f :
    /\ level[x] \in 1..MAX_HIERARCHY_DEPTH
    /\ f[x] = None => level[x] = 1
    /\ f[x] # None => f[x] \in DOMAIN f /\ level[x] = level[f[x]] + 1

LEMMA OutsideFacts ==
  ASSUME NEW f, NEW d
  PROVE  /\ Closed(f, Outside(f, d)) /\ d \notin Outside(f, d)
         /\ \A U : Closed(f, U) /\ d \notin U => U \subseteq Outside(f, d)
BY DEF Outside, Closed

LEMMA UnderFacts ==
  ASSUME NEW f, Forest(f), NEW level, Levels(f, level), NEW d
  PROVE  /\ d \in DOMAIN f => d \in Under(f, d)
         /\ d \notin DOMAIN f => Under(f, d) = {}
         /\ \A x \in Under(f, d) : x # d => f[x] \in Under(f, d)
         /\ \A x \in DOMAIN f : f[x] \in Under(f, d) => x \in Under(f, d)
         /\ \A x \in Under(f, d) : x # d => d \in DOMAIN f /\ level[x] > level[d]
<1> DEFINE U == Outside(f, d)
<1>1. Closed(f, U) /\ d \notin U /\ Under(f, d) = (DOMAIN f) \ U
  BY OutsideFacts DEF Under
<1>2. \A V : Closed(f, V) /\ d \notin V => V \subseteq U
  BY OutsideFacts
<1> HIDE DEF U
<1>3. MAX_HIERARCHY_DEPTH \in Nat /\ None \notin DOMAIN f
  BY ContentAssumption, NoValues DEF ContentAssumption, Forest
<1>4. d \notin DOMAIN f => Under(f, d) = {}
  <2>1. Closed(f, DOMAIN f)
    BY DEF Levels, Closed
  <2> QED
    BY <1>1, <1>2, <2>1
<1>5. ASSUME NEW x \in Under(f, d), x # d PROVE f[x] \in Under(f, d)
  <2>1. x \in DOMAIN f /\ x \notin U
    BY <1>1, <1>5
  <2>2. CASE f[x] = None \/ f[x] \in U
    <3>1. Closed(f, U \cup {x})
      BY <1>1, <2>1, <2>2 DEF Closed
    <3> QED
      BY <1>1, <1>2, <1>5, <2>1, <3>1
  <2>3. CASE f[x] # None /\ f[x] \notin U
    BY <1>1, <2>1, <2>3 DEF Levels
  <2> QED
    BY <2>2, <2>3
<1>6. \A x \in DOMAIN f : f[x] \in Under(f, d) => x \in Under(f, d)
  BY <1>1, <1>3 DEF Closed
<1>7. ASSUME NEW x \in Under(f, d), x # d PROVE d \in DOMAIN f /\ level[x] > level[d]
  <2>1. d \in DOMAIN f
    BY <1>4
  <2> DEFINE V == {y \in DOMAIN f : y # d /\ level[y] <= level[d]}
  <2>2. Closed(f, V)
    <3>1. ASSUME NEW y \in V, f[y] # None PROVE f[y] \in V
      <4>1. f[y] \in DOMAIN f /\ level[y] = level[f[y]] + 1
        BY <3>1 DEF Levels
      <4>2. level[y] \in Nat /\ level[f[y]] \in Nat /\ level[d] \in Nat
        BY <1>3, <2>1, <4>1 DEF Levels
      <4> QED
        BY <4>1, <4>2
    <3> QED
      BY <3>1 DEF Closed
  <2>3. x \notin V /\ x \in DOMAIN f
    BY <1>1, <1>2, <1>7, <2>2
  <2>4. level[x] \in Nat /\ level[d] \in Nat
    BY <1>3, <2>1, <2>3 DEF Levels
  <2> QED
    BY <1>7, <2>1, <2>3, <2>4
<1> QED
  BY <1>1, <1>4, <1>5, <1>6, <1>7

(* d is put under parent, with all that is under it: a document that moves *)
(* or one that is created.  path holds what is above its new place.        *)
Grafts(f, g, d, parent, path) ==
  /\ DOMAIN g = (DOMAIN f) \cup {d}
  /\ g[d] = parent
  /\ \A x \in (DOMAIN f) \ {d} : g[x] = f[x]
  /\ Closed(f, path) /\ d \notin path
  /\ parent = None \/ parent \in path

Relevel(f, level, d, top) ==
  [x \in Docs |-> IF x = d THEN top
                  ELSE IF x \in Under(f, d) THEN (level[x] - level[d]) + top
                  ELSE level[x]]

LEMMA GraftLevels ==
  ASSUME NEW f, Forest(f), NEW level, Levels(f, level), NEW d \in Docs, NEW parent,
         NEW path, NEW g, Grafts(f, g, d, parent, path),
         NEW top \in 1..MAX_HIERARCHY_DEPTH,
         top = IF parent = None THEN 1 ELSE level[parent] + 1,
         \A x \in Under(f, d) : (level[x] - level[d]) + top <= MAX_HIERARCHY_DEPTH
  PROVE  Levels(g, Relevel(f, level, d, top))
<1> DEFINE new == Relevel(f, level, d, top)
<1>1. MAX_HIERARCHY_DEPTH \in Nat /\ None \notin DOMAIN f /\ DOMAIN f \subseteq Docs
  BY ContentAssumption, NoValues DEF ContentAssumption, Forest
<1>2. /\ \A x \in Under(f, d) : x # d => f[x] \in Under(f, d)
      /\ \A x \in DOMAIN f : f[x] \in Under(f, d) => x \in Under(f, d)
      /\ \A x \in Under(f, d) : x # d => d \in DOMAIN f /\ level[x] > level[d]
      /\ Under(f, d) \subseteq DOMAIN f
  BY UnderFacts DEF Under
<1>3. /\ new[d] = top
      /\ \A x \in Under(f, d) : x # d => new[x] = (level[x] - level[d]) + top
      /\ \A x \in (DOMAIN f) \ Under(f, d) : x # d => new[x] = level[x]
  BY <1>1, <1>2 DEF Relevel
<1> HIDE DEF new
<1>4. \A x \in DOMAIN f : level[x] \in 1..MAX_HIERARCHY_DEPTH
  BY DEF Levels
<1>5. parent # None => /\ parent \in DOMAIN f /\ parent # d
                      /\ parent \notin Under(f, d)
  BY OutsideFacts DEF Grafts, Under, Closed
<1>6. ASSUME NEW x \in DOMAIN g
      PROVE  /\ new[x] \in 1..MAX_HIERARCHY_DEPTH
             /\ g[x] = None => new[x] = 1
             /\ g[x] # None => g[x] \in DOMAIN g /\ new[x] = new[g[x]] + 1
  <2>1. CASE x = d
    BY <1>3, <1>5, <2>1 DEF Grafts
  <2>2. CASE x # d /\ x \in Under(f, d)
    <3>1. /\ x \in DOMAIN f /\ d \in DOMAIN f /\ g[x] = f[x]
          /\ f[x] \in Under(f, d) /\ f[x] \in DOMAIN f
          /\ level[x] > level[d] /\ f[x] # None
      BY <1>1, <1>2, <2>2 DEF Grafts
    <3>2. level[x] = level[f[x]] + 1
      BY <3>1 DEF Levels
    <3>3. new[x] = (level[x] - level[d]) + top
      BY <1>3, <2>2
    <3>4. new[f[x]] = (level[f[x]] - level[d]) + top
      BY <1>1, <1>3, <1>4, <3>1
    <3>5. level[x] \in Nat /\ level[d] \in Nat /\ level[f[x]] \in Nat
      BY <1>1, <1>4, <3>1
    <3>6. (level[x] - level[d]) + top <= MAX_HIERARCHY_DEPTH
      BY <2>2
    <3>7. g[x] \in DOMAIN g
      BY <3>1 DEF Grafts
    <3> QED
      BY <1>1, <3>1, <3>2, <3>3, <3>4, <3>5, <3>6, <3>7
  <2>3. CASE x # d /\ x \notin Under(f, d)
    <3>1. x \in DOMAIN f /\ g[x] = f[x] /\ new[x] = level[x]
      BY <1>3, <2>3 DEF Grafts
    <3>2. f[x] # None => /\ f[x] \in DOMAIN f /\ f[x] \notin Under(f, d) /\ f[x] # d
                        /\ level[x] = level[f[x]] + 1
      <4>1. f[x] # None => f[x] \in DOMAIN f /\ level[x] = level[f[x]] + 1
        BY <3>1 DEF Levels
      <4>2. d \in DOMAIN f => d \in Under(f, d)
        BY UnderFacts
      <4> QED
        BY <1>2, <2>3, <3>1, <4>1, <4>2
    <3> QED
      BY <1>3, <1>4, <3>1, <3>2 DEF Levels, Grafts
  <2> QED
    BY <2>1, <2>2, <2>3
<1> QED
  BY <1>6 DEF Levels, new

(* What is under another document e stays at the same distance below it,   *)
(* and nothing comes under e, if e is not above the place d is put at.     *)
LEMMA GraftElsewhere ==
  ASSUME NEW f, Forest(f), NEW level, Levels(f, level), NEW d \in Docs, NEW parent,
         NEW path, NEW g, Grafts(f, g, d, parent, path),
         NEW top \in 1..MAX_HIERARCHY_DEPTH,
         NEW e \in DOMAIN f, e # d, e \notin path
  PROVE  LET new == Relevel(f, level, d, top)
         IN /\ Under(g, e) \subseteq Under(f, e)
            /\ \A x \in Under(g, e) : new[x] - new[e] = level[x] - level[e]
<1> DEFINE new == Relevel(f, level, d, top)
           U   == Outside(f, e)
<1>1. MAX_HIERARCHY_DEPTH \in Nat /\ None \notin DOMAIN f /\ DOMAIN f \subseteq Docs
  BY ContentAssumption, NoValues DEF ContentAssumption, Forest
<1>2. Closed(f, U) /\ e \notin U /\ path \subseteq U
  BY OutsideFacts DEF Grafts
<1>3. Closed(g, U \cup (IF d \in DOMAIN f THEN {} ELSE {d}))
  BY <1>1, <1>2 DEF Closed, Grafts
<1> HIDE DEF U
<1>4. U \subseteq Outside(g, e) /\ (d \notin DOMAIN f => d \in Outside(g, e))
  BY <1>2, <1>3, OutsideFacts
<1>5. Under(g, e) \subseteq Under(f, e)
  BY <1>4 DEF Under, Grafts, U
<1>6. \A x \in DOMAIN f : level[x] \in Nat
  BY <1>1 DEF Levels
<1>7. /\ \A x \in Under(f, d) : x # d => f[x] \in Under(f, d)
      /\ d \in DOMAIN f => d \in Under(f, d)
  BY UnderFacts
<1>8. ASSUME NEW x \in Under(g, e) PROVE x \in Under(f, d) <=> e \in Under(f, d)
  <2>1. CASE e \in Under(f, d) /\ x \notin Under(f, d)
    <3>1. x \in Outside(f, d)
      BY <1>5, <2>1 DEF Under
    <3>2. Closed(f, Outside(f, d)) /\ e \notin Outside(f, d)
      BY <2>1, OutsideFacts DEF Under
    <3>3. x \in U
      BY <3>1, <3>2, OutsideFacts DEF U
    <3> QED
      BY <1>5, <3>3 DEF Under, U
  <2>2. CASE e \notin Under(f, d) /\ x \in Under(f, d)
    <3> DEFINE V == Under(f, d) \cup path
    <3>1. Closed(g, V)
      <4>1. Under(f, d) \subseteq DOMAIN f /\ path \subseteq DOMAIN f
        BY DEF Under, Grafts, Closed
      <4>2. \A y \in Under(f, d) : g[y] = None \/ g[y] \in V
        BY <1>7, <4>1 DEF Grafts
      <4>3. \A y \in path : g[y] = None \/ g[y] \in V
        BY <4>1 DEF Grafts, Closed
      <4> QED
        BY <4>1, <4>2, <4>3 DEF Closed, Grafts
    <3>2. e \notin V
      BY <2>2
    <3>3. x \in Outside(g, e)
      BY <2>2, <3>1, <3>2, OutsideFacts
    <3> QED
      BY <3>3 DEF Under
  <2> QED
    BY <2>1, <2>2
<1>9. ASSUME NEW x \in Under(g, e) PROVE new[x] - new[e] = level[x] - level[e]
  <2>1. x \in DOMAIN f /\ x \in Docs /\ e \in Docs /\ d \in Docs
    BY <1>1, <1>5 DEF Under
  <2>2. level[x] \in Nat /\ level[e] \in Nat /\ top \in Nat /\ (d \in DOMAIN f => level[d] \in Nat)
    BY <1>1, <1>6, <2>1
  <2>3. new[e] = IF e \in Under(f, d) THEN (level[e] - level[d]) + top ELSE level[e]
    BY <2>1 DEF Relevel
  <2>4. CASE x = d
    <3>1. d \in Under(f, d) /\ new[x] = top
      BY <1>7, <2>1, <2>4 DEF Relevel
    <3>2. e \in Under(f, d)
      BY <1>8, <2>4, <3>1
    <3> HIDE DEF new
    <3> QED
      BY <2>1, <2>2, <2>3, <2>4, <3>1, <3>2
  <2>5. CASE x # d
    <3>1. new[x] = IF x \in Under(f, d) THEN (level[x] - level[d]) + top ELSE level[x]
      BY <2>1, <2>5 DEF Relevel
    <3>2. x \in Under(f, d) => d \in DOMAIN f
      BY UnderFacts
    <3> HIDE DEF new
    <3> QED
      BY <1>8, <2>2, <2>3, <3>1, <3>2
  <2> QED
    BY <2>4, <2>5
<1> QED
  BY <1>5, <1>9

(* d is taken away and its children become roots.                          *)
Uproots(f, g, d) ==
  /\ DOMAIN g = (DOMAIN f) \ {d}
  /\ \A x \in DOMAIN g : g[x] = IF f[x] = d THEN None ELSE f[x]

Raised(f, level, d) ==
  [x \in Docs |-> IF x \in Under(f, d) THEN level[x] - level[d] ELSE level[x]]

LEMMA UprootLevels ==
  ASSUME NEW f, Forest(f), NEW level, Levels(f, level), NEW d \in Docs,
         NEW g, Uproots(f, g, d)
  PROVE  Levels(g, Raised(f, level, d))
<1> DEFINE new == Raised(f, level, d)
<1>1. MAX_HIERARCHY_DEPTH \in Nat /\ None \notin DOMAIN f /\ DOMAIN f \subseteq Docs
  BY ContentAssumption, NoValues DEF ContentAssumption, Forest
<1>2. /\ \A x \in Under(f, d) : x # d => f[x] \in Under(f, d)
      /\ \A x \in DOMAIN f : f[x] \in Under(f, d) => x \in Under(f, d)
      /\ \A x \in Under(f, d) : x # d => d \in DOMAIN f /\ level[x] > level[d]
      /\ Under(f, d) \subseteq DOMAIN f /\ (d \in DOMAIN f => d \in Under(f, d))
  BY UnderFacts DEF Under
<1>3. \A x \in DOMAIN f :
        new[x] = IF x \in Under(f, d) THEN level[x] - level[d] ELSE level[x]
  BY <1>1 DEF Raised
<1> HIDE DEF new
<1>4. \A x \in DOMAIN f : /\ level[x] \in 1..MAX_HIERARCHY_DEPTH
                          /\ f[x] = None => level[x] = 1
                          /\ f[x] # None => f[x] \in DOMAIN f /\ level[x] = level[f[x]] + 1
  BY DEF Levels
<1>5. ASSUME NEW x \in DOMAIN g
      PROVE  /\ new[x] \in 1..MAX_HIERARCHY_DEPTH
             /\ g[x] = None => new[x] = 1
             /\ g[x] # None => g[x] \in DOMAIN g /\ new[x] = new[g[x]] + 1
  <2>1. x \in DOMAIN f /\ x # d /\ g[x] = IF f[x] = d THEN None ELSE f[x]
    BY DEF Uproots
  <2>2. CASE f[x] = d
    <3>1. x \in Under(f, d) /\ d \in DOMAIN f /\ level[x] = level[d] + 1
      BY <1>1, <1>2, <1>4, <2>1, <2>2, NoValues
    <3> QED
      BY <1>1, <1>3, <1>4, <2>1, <2>2, <3>1
  <2>3. CASE f[x] # d /\ x \in Under(f, d)
    <3>1. /\ f[x] \in Under(f, d) /\ f[x] \in DOMAIN f /\ f[x] # None
          /\ d \in DOMAIN f /\ level[x] > level[d] /\ level[f[x]] > level[d]
          /\ level[x] = level[f[x]] + 1
      BY <1>1, <1>2, <1>4, <2>1, <2>3
    <3>2. new[x] = level[x] - level[d] /\ new[f[x]] = level[f[x]] - level[d]
      BY <1>3, <2>1, <2>3, <3>1
    <3>3. /\ level[x] \in 1..MAX_HIERARCHY_DEPTH /\ level[d] \in 1..MAX_HIERARCHY_DEPTH
          /\ level[f[x]] \in 1..MAX_HIERARCHY_DEPTH
      BY <1>4, <2>1, <3>1
    <3>4. g[x] = f[x] /\ g[x] \in DOMAIN g
      BY <2>1, <2>3, <3>1 DEF Uproots
    <3> QED
      BY <1>1, <3>1, <3>2, <3>3, <3>4
  <2>4. CASE f[x] # d /\ x \notin Under(f, d)
    <3>1. f[x] # None => f[x] \notin Under(f, d)
      BY <1>2, <2>1, <2>4
    <3>2. f[x] # None => f[x] \in DOMAIN g
      BY <1>4, <2>1, <2>4 DEF Uproots
    <3> QED
      BY <1>3, <1>4, <2>1, <2>4, <3>1, <3>2
  <2> QED
    BY <2>2, <2>3, <2>4
<1> QED
  BY <1>5 DEF Levels, new

LEMMA UprootElsewhere ==
  ASSUME NEW f, Forest(f), NEW level, Levels(f, level), NEW d \in Docs,
         NEW g, Uproots(f, g, d), NEW e \in DOMAIN f, e # d
  PROVE  LET new == Raised(f, level, d)
         IN /\ Under(g, e) \subseteq Under(f, e)
            /\ \A x \in Under(g, e) : new[x] - new[e] = level[x] - level[e]
<1> DEFINE new == Raised(f, level, d)
           U   == Outside(f, e)
<1>1. MAX_HIERARCHY_DEPTH \in Nat /\ None \notin DOMAIN f /\ DOMAIN f \subseteq Docs
  BY ContentAssumption, NoValues DEF ContentAssumption, Forest
<1>2. Closed(f, U) /\ e \notin U
  BY OutsideFacts
<1>3. Closed(g, U \ {d})
  BY <1>2 DEF Closed, Uproots
<1> HIDE DEF U
<1>4. U \ {d} \subseteq Outside(g, e)
  BY <1>2, <1>3, OutsideFacts
<1>5. Under(g, e) \subseteq Under(f, e)
  BY <1>4 DEF Under, Uproots, U
<1>6. \A x \in DOMAIN f : level[x] \in Nat
  BY <1>1 DEF Levels
<1>7. /\ \A x \in Under(f, d) : x # d => f[x] \in Under(f, d)
      /\ Under(f, d) # {} => d \in DOMAIN f
      /\ Under(f, d) \subseteq DOMAIN f
  BY UnderFacts DEF Under
<1>8. ASSUME NEW x \in Under(g, e) PROVE x \in Under(f, d) <=> e \in Under(f, d)
  <2>1. CASE e \in Under(f, d) /\ x \notin Under(f, d)
    <3>1. x \in Outside(f, d)
      BY <1>5, <2>1 DEF Under
    <3>2. Closed(f, Outside(f, d)) /\ e \notin Outside(f, d)
      BY <2>1, OutsideFacts DEF Under
    <3>3. x \in U
      BY <3>1, <3>2, OutsideFacts DEF U
    <3> QED
      BY <1>5, <3>3 DEF Under, U
  <2>2. CASE e \notin Under(f, d) /\ x \in Under(f, d)
    <3> DEFINE V == Under(f, d) \ {d}
    <3>1. Closed(g, V)
      BY <1>7 DEF Closed, Uproots
    <3>2. e \notin V /\ x \in V
      BY <2>2 DEF Under, Uproots
    <3> HIDE DEF V
    <3>3. x \in Outside(g, e)
      BY <3>1, <3>2, OutsideFacts
    <3> QED
      BY <3>3 DEF Under
  <2> QED
    BY <2>1, <2>2
<1>9. ASSUME NEW x \in Under(g, e) PROVE new[x] - new[e] = level[x] - level[e]
  <2>1. x \in DOMAIN f /\ x \in Docs /\ e \in Docs
    BY <1>1, <1>5 DEF Under
  <2>2. /\ level[x] \in Nat /\ level[e] \in Nat
        /\ x \in Under(f, d) => level[d] \in Nat
    BY <1>6, <1>7, <2>1
  <2>3. /\ new[x] = IF x \in Under(f, d) THEN level[x] - level[d] ELSE level[x]
        /\ new[e] = IF e \in Under(f, d) THEN level[e] - level[d] ELSE level[e]
    BY <2>1 DEF Raised
  <2> HIDE DEF new
  <2> QED
    BY <1>8, <2>2, <2>3
<1> QED
  BY <1>5, <1>9

-----------------------------------------------------------------------------
LEMMA PathSteps ==
  ASSUME Inv, NEW d \in Docs
  PROVE  /\ PathOf(d)[0] = d
         /\ \A k \in 1..MAX_HIERARCHY_DEPTH :
              PathOf(d)[k] =
                IF PathOf(d)[k - 1] = None THEN None
                ELSE IF Exists(PathOf(d)[k - 1])
                     THEN rows[PathOf(d)[k - 1]].state.parent ELSE None
<1> DEFINE A  == Docs \cup {None}
           up == [x \in A |-> IF x = None THEN None
                              ELSE IF Exists(x) THEN rows[x].state.parent ELSE None]
           N == MAX_HIERARCHY_DEPTH
<1>1. up \in [A -> A]
  BY DEF Inv, TypeOK, Exists, MaybeRow, Row, State
<1>2. N \in Nat
  BY ContentAssumption DEF ContentAssumption
<1>3. PICK f \in [0..N -> A] : f = [k \in 0..N |-> IF k = 0 THEN d ELSE up[f[k - 1]]]
  <2> HIDE DEF A, up, N
  <2>1. d \in A
    BY DEF A
  <2> QED
    BY SMTT(60), <1>1, <1>2, <2>1, IterationExists
<1>4. f = [k \in 0..N |-> IF k = 0 THEN d
         ELSE IF f[k - 1] = None THEN None
             ELSE IF Exists(f[k - 1]) THEN rows[f[k - 1]].state.parent ELSE None]
  <2>1. \A x \in A : up[x] = IF x = None THEN None
                             ELSE IF Exists(x) THEN rows[x].state.parent ELSE None
    OBVIOUS
  <2> HIDE DEF up, A
  <2>2. \A k \in 0..N : k # 0 => f[k - 1] \in A
    BY <1>2, <1>3
  <2>3. \A k \in 0..N : f[k] = IF k = 0 THEN d ELSE up[f[k - 1]]
    BY <1>2, <1>3
  <2>4. \A k \in 0..N : f[k] =
          IF k = 0 THEN d
          ELSE IF f[k - 1] = None THEN None
               ELSE IF Exists(f[k - 1]) THEN rows[f[k - 1]].state.parent ELSE None
    BY <2>1, <2>2, <2>3
  <2> QED
    BY <1>3, <2>4
<1>5. PICK P : P = PathOf(d) OBVIOUS
<1>6. P = [k \in 0..N |-> IF k = 0 THEN d
         ELSE IF P[k - 1] = None THEN None
             ELSE IF Exists(P[k - 1]) THEN rows[P[k - 1]].state.parent ELSE None]
  BY <1>4, <1>5 DEF PathOf
<1>7. \A k \in 0..N : P[k] = IF k = 0 THEN d
         ELSE IF P[k - 1] = None THEN None
             ELSE IF Exists(P[k - 1]) THEN rows[P[k - 1]].state.parent ELSE None
  BY <1>6
<1>8. 0 \in 0..N /\ \A k \in 1..N : k \in 0..N /\ k # 0 BY <1>2
<1> QED
  BY <1>5, <1>7, <1>8

-----------------------------------------------------------------------------
(* The committed tree.                                                     *)

Tree == [d \in {e \in Docs : Exists(e)} |-> rows[d].state.parent]

LEMMA TreeFacts ==
  ASSUME TypeOK
  PROVE  /\ Forest(Tree) /\ DOMAIN Tree = {d \in Docs : Exists(d)}
         /\ \A d \in DOMAIN Tree :
              /\ rows[d] \in Row /\ Tree[d] = rows[d].state.parent
              /\ Tree[d] \in Docs \cup {None}
         /\ \A c \in Docs : ChildrenOf(c) = {x \in DOMAIN Tree : Tree[x] = c}
<1>1. DOMAIN Tree = {d \in Docs : Exists(d)}
  BY DEF Tree
<1>2. \A d \in DOMAIN Tree :
        /\ rows[d] \in Row /\ Tree[d] = rows[d].state.parent
        /\ Tree[d] \in Docs \cup {None}
  BY DEF Tree, TypeOK, MaybeRow, Exists, Row, State
<1> QED
  BY <1>1, <1>2 DEF Forest, ChildrenOf

(* Where every document has a level, every path ends in time.              *)
LEMMA LevelsResolve ==
  ASSUME Inv, NEW level, Levels(Tree, level)
  PROVE  PathsResolve
<1> SUFFICES ASSUME NEW d \in Docs, Exists(d), PathOf(d)[MAX_HIERARCHY_DEPTH] # None
             PROVE  FALSE
  BY DEF PathsResolve
<1> DEFINE N == MAX_HIERARCHY_DEPTH
           P == PathOf(d)
           On(k) == \/ P[k] = None
                    \/ P[k] \in DOMAIN Tree /\ level[P[k]] + k = level[d]
           Bad == {k \in 0..N : ~On(k)}
<1>1. N \in Nat \ {0}
  BY ContentAssumption DEF ContentAssumption
<1>2. /\ P[0] = d
      /\ \A k \in 1..N : P[k] = IF P[k - 1] = None THEN None
                                ELSE IF Exists(P[k - 1])
                                     THEN rows[P[k - 1]].state.parent ELSE None
  BY PathSteps
<1>3. /\ d \in DOMAIN Tree
      /\ \A x \in DOMAIN Tree : /\ x \in Docs /\ Exists(x)
                                /\ Tree[x] = rows[x].state.parent
  BY TreeFacts DEF Inv
<1> HIDE DEF P, N
<1>4. \A x \in DOMAIN Tree : level[x] \in 1..N
  BY DEF Levels, N
<1>5. ASSUME NEW k \in 1..N, On(k - 1) PROVE On(k)
  <2>1. CASE P[k - 1] = None
    BY <1>2, <2>1
  <2>2. CASE P[k - 1] # None
    <3>1. /\ P[k - 1] \in DOMAIN Tree /\ level[P[k - 1]] + (k - 1) = level[d]
          /\ P[k] = Tree[P[k - 1]]
      BY <1>2, <1>3, <1>5, <2>2
    <3>2. P[k] # None => P[k] \in DOMAIN Tree /\ level[P[k - 1]] = level[P[k]] + 1
      BY <3>1 DEF Levels
    <3> QED
      BY <1>1, <1>3, <1>4, <3>1, <3>2
  <2> QED
    BY <2>1, <2>2
<1>6. On(0)
  BY <1>1, <1>2, <1>3, <1>4
<1> HIDE DEF On
<1>7. ASSUME Bad # {} PROVE FALSE
  <2>1. Bad \in SUBSET Nat
    BY <1>1
  <2>2. PICK k \in Bad : \A m \in Bad : k <= m
    BY <1>7, <2>1, LeastNatural
  <2>3. k \in 1..N /\ k - 1 \in 0..N /\ k - 1 \notin Bad
    BY <1>1, <1>6, <2>2
  <2> QED
    BY <1>5, <2>2, <2>3
<1>8. On(N)
  BY <1>1, <1>7
<1> QED
  BY <1>1, <1>3, <1>4, <1>8 DEF On, P, N

-----------------------------------------------------------------------------
(* What subtreeHeight measures.                                            *)

LEMMA GenerationsExist ==
  ASSUME NEW d \in Docs, NEW N \in Nat
  PROVE  \E g : g = [i \in 0..N |->
           IF i = 0 THEN {d} ELSE UNION {ChildrenOf(c) : c \in g[i - 1]}]
<1> DEFINE A   == SUBSET Docs
           up  == [S \in A |-> UNION {ChildrenOf(c) : c \in S}]
           top == {d}
<1>1. up \in [A -> A] /\ top \in A
  BY DEF ChildrenOf
<1>2. \A S \in A : up[S] = UNION {ChildrenOf(c) : c \in S}
  OBVIOUS
<1> HIDE DEF up, A, top
<1>3. PICK g \in [0..N -> A] : g = [i \in 0..N |-> IF i = 0 THEN top ELSE up[g[i - 1]]]
  <2>1. N \in Nat /\ up \in [A -> A] /\ top \in A
    BY <1>1
  <2> QED
    BY SMTT(60), <2>1, IterationExists
<1>4. \A i \in 0..N : g[i] =
        IF i = 0 THEN top ELSE UNION {ChildrenOf(c) : c \in g[i - 1]}
  <2>1. \A i \in 0..N : i # 0 => i - 1 \in 0..N
    OBVIOUS
  <2>2. \A i \in 0..N : g[i] = IF i = 0 THEN top ELSE up[g[i - 1]]
    BY <1>3
  <2> QED
    BY <1>2, <1>3, <2>1, <2>2
<1>5. g = [i \in 0..N |-> IF i = 0 THEN top ELSE UNION {ChildrenOf(c) : c \in g[i - 1]}]
  BY <1>3, <1>4
<1> QED
  BY <1>5 DEF top

LEMMA HeightTyped ==
  ASSUME NEW d \in Docs
  PROVE  SubtreeHeight(d) \in Nat
<1> DEFINE N   == MAX_HIERARCHY_DEPTH
           gen == CHOOSE g : g = [i \in 0..N |->
                    IF i = 0 THEN {d} ELSE UNION {ChildrenOf(c) : c \in g[i - 1]}]
           H   == {i \in 0..N : gen[i] # {}}
<1>1. SubtreeHeight(d) = Cardinality(H)
  BY DEF SubtreeHeight
<1> HIDE DEF gen
<1>2. IsFiniteSet(0..N) /\ H \in SUBSET (0..N)
  BY ContentAssumption, FS_Interval DEF ContentAssumption
<1>3. IsFiniteSet(H)
  BY <1>2, FS_Subset
<1> HIDE DEF H
<1> QED
  BY <1>1, <1>3, FS_CardinalityType

LEMMA HeightFacts ==
  ASSUME Inv, NEW level, Levels(Tree, level), NEW d \in Docs, Exists(d),
         NEW k \in Nat, k + SubtreeHeight(d) <= MAX_HIERARCHY_DEPTH
  PROVE  \A x \in Under(Tree, d) : (level[x] - level[d]) + (k + 1) <= MAX_HIERARCHY_DEPTH
<1> DEFINE N  == MAX_HIERARCHY_DEPTH
           A  == SUBSET Docs
           up == [S \in A |-> UNION {ChildrenOf(c) : c \in S}]
           gen == CHOOSE g : g = [i \in 0..N |->
                    IF i = 0 THEN {d} ELSE UNION {ChildrenOf(c) : c \in g[i - 1]}]
           H == {i \in 0..N : gen[i] # {}}
<1>1. N \in Nat \ {0}
  BY ContentAssumption DEF ContentAssumption
<1>2. gen = [i \in 0..N |->
               IF i = 0 THEN {d} ELSE UNION {ChildrenOf(c) : c \in gen[i - 1]}]
  BY <1>1, GenerationsExist
<1>3. SubtreeHeight(d) = Cardinality(H)
  BY DEF SubtreeHeight
<1> HIDE DEF gen
<1>4. /\ gen[0] = {d}
      /\ \A i \in 1..N : gen[i] = UNION {ChildrenOf(c) : c \in gen[i - 1]}
  BY <1>1, <1>2
<1>5. /\ Forest(Tree) /\ d \in DOMAIN Tree /\ None \notin DOMAIN Tree
      /\ \A c \in Docs : ChildrenOf(c) = {x \in DOMAIN Tree : Tree[x] = c}
      /\ DOMAIN Tree \subseteq Docs
  BY TreeFacts, NoValues DEF Inv
<1>6. /\ \A x \in Under(Tree, d) : x # d => Tree[x] \in Under(Tree, d)
      /\ \A x \in Under(Tree, d) : x # d => level[x] > level[d]
      /\ Under(Tree, d) \subseteq DOMAIN Tree
  BY <1>5, UnderFacts DEF Under
<1>7. \A x \in DOMAIN Tree :
        /\ level[x] \in 1..N
        /\ Tree[x] # None => Tree[x] \in DOMAIN Tree /\ level[x] = level[Tree[x]] + 1
  BY DEF Levels
<1> HIDE DEF N
<1>8. \A x \in Under(Tree, d) : x \in gen[level[x] - level[d]]
  <2> DEFINE Bad == {n \in Nat : \E x \in Under(Tree, d) :
                       n = level[x] - level[d] /\ x \notin gen[n]}
  <2>1. ASSUME Bad # {} PROVE FALSE
    <3>1. PICK n \in Bad : \A m \in Bad : n <= m
      BY <2>1, LeastNatural
    <3>2. PICK x \in Under(Tree, d) : n = level[x] - level[d] /\ x \notin gen[n]
      BY <3>1
    <3>3. x # d
      BY <1>1, <1>4, <1>5, <1>7, <3>2
    <3>4. /\ Tree[x] \in Under(Tree, d) /\ level[x] > level[d]
          /\ x \in DOMAIN Tree /\ Tree[x] \in DOMAIN Tree /\ Tree[x] # None
      BY <1>5, <1>6, <3>3
    <3>5. level[x] = level[Tree[x]] + 1 /\ level[x] \in 1..N /\ level[Tree[x]] \in 1..N
          /\ level[d] \in 1..N
      BY <1>5, <1>7, <3>4
    <3>6. n \in 1..N /\ n - 1 = level[Tree[x]] - level[d] /\ n - 1 \in Nat
      BY <1>1, <3>2, <3>4, <3>5
    <3>7. n - 1 \notin Bad
      BY <3>1, <3>6
    <3>8. Tree[x] \in gen[n - 1]
      BY <3>4, <3>6, <3>7
    <3>9. x \in ChildrenOf(Tree[x])
      BY <1>5, <3>4
    <3>10. x \in gen[n]
      BY <1>4, <3>6, <3>8, <3>9
    <3> QED
      BY <3>2, <3>10
  <2>2. \A x \in Under(Tree, d) : level[x] - level[d] \in Nat
    BY <1>1, <1>5, <1>6, <1>7
  <2> QED
    BY <2>1, <2>2
<1>9. ASSUME NEW x \in Under(Tree, d)
      PROVE  (level[x] - level[d]) + (k + 1) <= N
  <2> DEFINE j == level[x] - level[d]
  <2>1. j \in Nat /\ j <= N /\ gen[j] # {}
    BY <1>1, <1>5, <1>6, <1>7, <1>8
  <2> HIDE DEF j
  <2>2. \A i \in 0..j : gen[i] # {}
    <3>1. ASSUME NEW i \in 0..j, gen[i] = {} PROVE FALSE
      <4> DEFINE Later == {m \in i..j : gen[m] # {}}
      <4>1. Later \in SUBSET Nat /\ Later # {}
        BY <2>1, <3>1
      <4>2. PICK m \in Later : \A l \in Later : m <= l
        BY <4>1, LeastNatural
      <4>3. m # i
        BY <3>1, <4>2
      <4>4. m \in 1..N /\ m - 1 \in i..j /\ m - 1 \notin Later
        BY <1>1, <2>1, <3>1, <4>2, <4>3
      <4>5. gen[m - 1] = {}
        BY <4>4
      <4>6. gen[m] = {}
        BY <1>4, <4>4, <4>5
      <4> QED
        BY <4>2, <4>6
    <3> QED
      BY <3>1
  <2>3. 0..j \subseteq H
    BY <1>1, <2>1, <2>2
  <2>4. IsFiniteSet(H) /\ Cardinality(0..j) = j + 1 /\ IsFiniteSet(0..j)
    <3>1. IsFiniteSet(0..N) /\ H \in SUBSET (0..N)
      BY <1>1, FS_Interval
    <3>2. IsFiniteSet(H)
      BY <3>1, FS_Subset
    <3>3. 0 \in Int /\ j \in Int /\ ~(0 > j) /\ j - 0 + 1 = j + 1
      BY <2>1
    <3>4. IsFiniteSet(0..j) /\ Cardinality(0..j) = j + 1
      BY <3>3, FS_Interval
    <3> QED
      BY <3>2, <3>4
  <2> HIDE DEF H
  <2>5. Cardinality(0..j) <= Cardinality(H) /\ Cardinality(H) \in Nat
    BY <2>3, <2>4, FS_Subset, FS_CardinalityType
  <2>6. k + Cardinality(H) <= N
    BY <1>3 DEF N
  <2> QED
    BY <1>1, <2>1, <2>4, <2>5, <2>6 DEF j
<1> QED
  BY <1>9 DEF N

-----------------------------------------------------------------------------
(* What a transaction knows of the tree while it moves a document.         *)

(* t puts a document under another parent than the one it has.             *)
Climbs(t) ==
  /\ tx[t].op \in {"create", "update", "restore"}
  /\ tx[t].pc \in {"walk", "measure", "commit"}
  /\ tx[t].next.parent # None
  /\ tx[t].op # "create" => tx[t].next.parent # tx[t].cur.state.parent

(* c is what t has walked: the new parent, its parent, the parent of that, *)
(* each locked by t, up to the one it must lock next.                      *)
Chain(t, c) ==
  /\ c[0] = tx[t].next.parent
  /\ c[tx[t].depth] = tx[t].at
  /\ \A i \in 0..(tx[t].depth - 1) :
       /\ c[i] \in Docs /\ Exists(c[i]) /\ rowLock[c[i]] = t
       /\ c[i] # tx[t].doc
       /\ rows[c[i]].state.parent = c[i + 1]

Climbed(t) ==
  Climbs(t) =>
    /\ \E c : Chain(t, c)
    /\ tx[t].pc # "walk" => tx[t].at = None
    /\ tx[t].pc = "commit" /\ tx[t].op = "create" =>
         tx[t].depth + 1 <= MAX_HIERARCHY_DEPTH

Unclimbed(t) ==
  /\ tx[t].pc \in {"composing", "lockGroup", "lockRow"} => tx[t].depth = 0
  /\ tx[t].pc = "lockGroup" /\ tx[t].op = "create" => tx[t].at = tx[t].next.parent

(* Once its height is measured, what moves still fits under its new place: *)
(* nobody else can make it grow.                                           *)
Fits(t, level) ==
  Climbs(t) /\ tx[t].pc = "commit" /\ tx[t].op \in {"update", "restore"} =>
    \A x \in Under(Tree, tx[t].doc) :
      (level[x] - level[tx[t].doc]) + (tx[t].depth + 1) <= MAX_HIERARCHY_DEPTH

TreesHeld ==
  /\ \A t \in Connections : Climbed(t) /\ Unclimbed(t)
  /\ \E level : Levels(Tree, level) /\ \A t \in Connections : Fits(t, level)

-----------------------------------------------------------------------------
(* A step of t leaves alone the locks and the locked rows of others.       *)

LocksStay(t) ==
  \A d \in Docs : rowLock[d] \notin {None, t} => rowLock'[d] = rowLock[d]

RowsStay(t) ==
  \A d \in Docs : d \in born /\ rowLock[d] # t => rows'[d] = rows[d]

LEMMA OthersStayClimbed ==
  ASSUME Inv, TreesHeld, NEW t \in Connections, LocksStay(t), RowsStay(t),
         NEW s \in Connections, s # t, tx'[s] = tx[s]
  PROVE  Climbed(s)' /\ Unclimbed(s)'
<1>1. Unclimbed(s)'
  BY DEF TreesHeld, Unclimbed
<1>2. ASSUME Climbs(s) PROVE (\E c : Chain(s, c))'
  <2>1. PICK c : Chain(s, c)
    BY <1>2 DEF TreesHeld, Climbed
  <2>2. \A i \in 0..(tx[s].depth - 1) :
          rowLock'[c[i]] = rowLock[c[i]] /\ rows'[c[i]] = rows[c[i]]
    BY <2>1, NoValues DEF Chain, LocksStay, RowsStay, Inv, Known
  <2>3. Chain(s, c)'
    BY <2>1, <2>2 DEF Chain, Exists
  <2> QED
    BY <2>3
<1>3. Climbs(s)' = Climbs(s)
  BY DEF Climbs
<1>4. Climbed(s)'
  BY <1>2, <1>3 DEF TreesHeld, Climbed
<1> QED
  BY <1>1, <1>4

(* A step that writes nothing.                                             *)
LEMMA NoWriteKeepsTrees ==
  ASSUME Inv, TreesHeld, NEW t \in Connections, NEW r, tx' = [tx EXCEPT ![t] = r],
         UNCHANGED db, LocksStay(t), Climbed(t)', Unclimbed(t)',
         \A level : Levels(Tree, level) /\ Fits(t, level) => Fits(t, level)'
  PROVE  TreesHeld'
<1>1. RowsStay(t) /\ rows' = rows
  BY DEF RowsStay, db
<1>2. \A s \in Connections \ {t} : tx'[s] = tx[s]
  BY MovesTo
<1>3. \A s \in Connections \ {t} : Climbed(s)' /\ Unclimbed(s)'
  BY <1>1, <1>2, OthersStayClimbed
<1>4. Tree' = Tree
  BY <1>1 DEF Tree, Exists
<1>5. PICK level : Levels(Tree, level) /\ \A s \in Connections : Fits(s, level)
  BY DEF TreesHeld
<1>6. \A s \in Connections \ {t} : Fits(s, level)'
  BY <1>2, <1>4, <1>5 DEF Fits, Climbs
<1>7. Fits(t, level)' /\ Levels(Tree', level)
  BY <1>4, <1>5
<1>8. \E l : Levels(Tree', l) /\ \A s \in Connections : Fits(s, l)'
  BY <1>6, <1>7
<1> QED
  BY <1>3, <1>8 DEF TreesHeld

(* One after which t does not move a document, or not yet.                 *)
LEMMA NotClimbing ==
  ASSUME Inv, TreesHeld, NEW t \in Connections, NEW r, tx' = [tx EXCEPT ![t] = r],
         UNCHANGED db, LocksStay(t),
         \/ r.op \notin {"create", "update", "restore"}
         \/ r.pc \notin {"walk", "measure", "commit"}
         \/ r.next.parent = None
         \/ r.op # "create" /\ r.next.parent = r.cur.state.parent,
         r.pc \in {"composing", "lockGroup", "lockRow"} => r.depth = 0,
         r.pc = "lockGroup" /\ r.op = "create" => r.at = r.next.parent
  PROVE  TreesHeld'
<1>1. tx'[t] = r
  BY MovesTo
<1>2. ~Climbs(t)'
  BY <1>1 DEF Climbs
<1>3. Climbed(t)' /\ \A level : Fits(t, level)'
  BY <1>2 DEF Climbed, Fits
<1>4. Unclimbed(t)'
  BY <1>1 DEF Unclimbed
<1> QED
  BY <1>3, <1>4, NoWriteKeepsTrees

(* One with which t starts to walk.                                        *)
LEMMA StartsClimbing ==
  ASSUME Inv, TreesHeld, NEW t \in Connections, NEW r, tx' = [tx EXCEPT ![t] = r],
         UNCHANGED db, LocksStay(t), r.pc = "walk", r.depth = 0, r.at = r.next.parent
  PROVE  TreesHeld'
<1>1. tx'[t] = r
  BY MovesTo
<1> DEFINE c == [i \in {0} |-> r.at]
<1>2. c[0] = r.at
  OBVIOUS
<1> HIDE DEF c
<1>3. Chain(t, c)'
  BY <1>1, <1>2 DEF Chain
<1>4. Climbed(t)' /\ Unclimbed(t)' /\ \A level : Fits(t, level)'
  BY <1>1, <1>3 DEF Climbed, Unclimbed, Fits
<1> QED
  BY <1>4, NoWriteKeepsTrees

LEMMA LocksOfReleased ==
  ASSUME Inv, NEW t \in Connections, Release(t)
  PROVE  LocksStay(t)
BY ReleaseFacts DEF LocksStay, Inv

LEMMA LocksOfTaken ==
  ASSUME Inv, NEW t \in Connections, NEW d \in Docs, RowFree(t, d),
         TakeRow(t, d) \/ UNCHANGED rowLock
  PROVE  LocksStay(t)
BY TakeRowFacts DEF LocksStay

LEMMA RefuseKeepsTrees ==
  ASSUME Inv, TreesHeld, NEW t \in Connections, Refuse(t)
  PROVE  TreesHeld'
<1>1. tx' = [tx EXCEPT ![t] = Idle] /\ Release(t) /\ UNCHANGED db
  BY DEF Refuse, Ends, Moves
<1>2. Idle.op = "none" /\ Idle.pc = "idle"
  BY DEF Idle
<1> QED
  BY <1>1, <1>2, LocksOfReleased, NotClimbing

LEMMA RequestKeepsTrees ==
  ASSUME Inv, TreesHeld, NEW t \in Connections, Request(t)
  PROVE  TreesHeld'
<1>1. ASSUME NEW changes, Begins(t, changes)
      PROVE  /\ tx' = [tx EXCEPT ![t] = [changes EXCEPT !.started = ticks + 1, !.clock = now]]
             /\ UNCHANGED db /\ LocksStay(t)
  <2> DEFINE r == [changes EXCEPT !.started = ticks + 1, !.clock = now]
  <2>1. tx' = [tx EXCEPT ![t] = r] /\ UNCHANGED <<db, locks, now>>
    BY <1>1 DEF Begins, Moves
  <2> HIDE DEF r
  <2>2. UNCHANGED db /\ LocksStay(t)
    BY <2>1 DEF locks, LocksStay
  <2> QED
    BY <2>1, <2>2 DEF r
<1>2. ASSUME NEW u \in UserIds, NEW d \in Docs, OpenForm(t, u, d) PROVE TreesHeld'
  <2> DEFINE r == [Idle EXCEPT !.pc = "composing", !.user = u, !.doc = d, !.form = rows[d]]
  <2>1. tx' = [tx EXCEPT ![t] = r] /\ UNCHANGED db /\ LocksStay(t)
    BY <1>2 DEF OpenForm, Moves, locks, LocksStay
  <2>2. r.op = "none" /\ r.depth = 0 /\ r.pc = "composing"
    BY DEF Idle
  <2> HIDE DEF r
  <2> QED
    BY <2>1, <2>2, NotClimbing
<1>3. ASSUME NEW u \in UserIds, NEW d \in Docs, BeginDelete(t, u, d) PROVE TreesHeld'
  <2> DEFINE c == [Idle EXCEPT !.pc = "lockGroup", !.op = "delete", !.user = u,
                               !.doc = d, !.group = rows[d].group, !.at = d]
             r == [c EXCEPT !.started = ticks + 1, !.clock = now]
  <2>1. Begins(t, c)
    BY <1>3 DEF BeginDelete
  <2>2. tx' = [tx EXCEPT ![t] = r] /\ UNCHANGED db /\ LocksStay(t)
    BY <2>1, <1>1
  <2>3. r.op = "delete" /\ r.depth = 0
    BY DEF Idle
  <2> HIDE DEF r
  <2> QED
    BY <2>2, <2>3, NotClimbing
<1>4. ASSUME NEW u \in UserIds, BeginCreate(t, u) PROVE TreesHeld'
  <2>1. PICK type \in Types, locale \in Locales, sent \in Creations,
             group \in Groups \cup {None} :
          Begins(t, [Idle EXCEPT
            !.pc = IF group # None THEN "lockGroup"
                   ELSE IF StampPublication(Parse(type, sent), now).parent # None
                        THEN "walk" ELSE "commit",
            !.op = "create", !.user = u, !.type = type, !.locale = locale,
            !.group = group, !.next = StampPublication(Parse(type, sent), now),
            !.at = StampPublication(Parse(type, sent), now).parent])
    BY <1>4 DEF BeginCreate
  <2> DEFINE state == StampPublication(Parse(type, sent), now)
  <2> HIDE DEF state
  <2> DEFINE step == IF group # None THEN "lockGroup"
                     ELSE IF state.parent # None THEN "walk" ELSE "commit"
             c == [Idle EXCEPT !.pc = step, !.op = "create", !.user = u, !.type = type,
                     !.locale = locale, !.group = group, !.next = state,
                     !.at = state.parent]
             r == [c EXCEPT !.started = ticks + 1, !.clock = now]
  <2>2. Begins(t, c)
    BY <2>1 DEF state
  <2>3. tx' = [tx EXCEPT ![t] = r] /\ UNCHANGED db /\ LocksStay(t)
    BY <2>2, <1>1
  <2>4. /\ r.op = "create" /\ r.next = state /\ r.at = state.parent /\ r.depth = 0
        /\ r.pc = "lockGroup" \/ r.pc = "walk" \/ (r.pc = "commit" /\ state.parent = None)
    BY DEF Idle
  <2> HIDE DEF r
  <2> QED
    BY <2>3, <2>4, NotClimbing, StartsClimbing
<1>5. CASE BeginUpdate(t)
  <2>1. PICK p \in Patches :
          Begins(t, [tx[t] EXCEPT !.pc = "lockRow", !.op = "update",
                                  !.at = tx[t].doc, !.patch = p])
    BY <1>5 DEF BeginUpdate
  <2> DEFINE c == [tx[t] EXCEPT !.pc = "lockRow", !.op = "update",
                                !.at = tx[t].doc, !.patch = p]
             r == [c EXCEPT !.started = ticks + 1, !.clock = now]
  <2>2. tx' = [tx EXCEPT ![t] = r] /\ UNCHANGED db /\ LocksStay(t)
    BY <2>1, <1>1
  <2>3. tx[t].depth = 0
    BY <1>5 DEF BeginUpdate, TreesHeld, Unclimbed
  <2>4. r.op = "update" /\ r.pc = "lockRow" /\ r.depth = tx[t].depth
    BY DEF Inv, TypeOK, Transaction
  <2> HIDE DEF r
  <2> QED
    BY <2>2, <2>3, <2>4, NotClimbing
<1>6. CASE BeginRestore(t)
  <2>1. PICK p \in revisions[tx[t].doc] :
          Begins(t, [tx[t] EXCEPT !.pc = "lockRow", !.op = "restore",
                                  !.at = tx[t].doc, !.patch = p.state])
    BY <1>6 DEF BeginRestore
  <2> DEFINE c == [tx[t] EXCEPT !.pc = "lockRow", !.op = "restore",
                                !.at = tx[t].doc, !.patch = p.state]
             r == [c EXCEPT !.started = ticks + 1, !.clock = now]
  <2>2. tx' = [tx EXCEPT ![t] = r] /\ UNCHANGED db /\ LocksStay(t)
    BY <2>1, <1>1
  <2>3. tx[t].depth = 0
    BY <1>6 DEF BeginRestore, TreesHeld, Unclimbed
  <2>4. r.op = "restore" /\ r.pc = "lockRow" /\ r.depth = tx[t].depth
    BY DEF Inv, TypeOK, Transaction
  <2> HIDE DEF r
  <2> QED
    BY <2>2, <2>3, <2>4, NotClimbing
<1>7. CASE BeginPublishDue(t)
  <2> DEFINE due == {<<rows[d].state.date, d>> : d \in {e \in Docs : IsDue(e, now)}}
  <2>1. \E d \in NextDue(due) :
          Begins(t, [Idle EXCEPT !.pc = "claim", !.op = "publishDue",
                                 !.due = due, !.at = d])
    BY <1>7 DEF BeginPublishDue
  <2> HIDE DEF due
  <2>2. PICK d \in NextDue(due) :
          Begins(t, [Idle EXCEPT !.pc = "claim", !.op = "publishDue",
                                 !.due = due, !.at = d])
    BY <2>1
  <2> DEFINE c == [Idle EXCEPT !.pc = "claim", !.op = "publishDue",
                               !.due = due, !.at = d]
             r == [c EXCEPT !.started = ticks + 1, !.clock = now]
  <2>3. tx' = [tx EXCEPT ![t] = r] /\ UNCHANGED db /\ LocksStay(t)
    BY <2>2, <1>1
  <2>4. r.op = "publishDue" /\ r.pc = "claim"
    BY DEF Idle
  <2> HIDE DEF r
  <2> QED
    BY <2>3, <2>4, NotClimbing
<1> QED
  BY <1>2, <1>3, <1>4, <1>5, <1>6, <1>7 DEF Request

(* The walk itself: one more ancestor, locked and not the document.        *)
LEMMA LockAncestorKeepsTrees ==
  ASSUME Inv, TreesHeld, NEW t \in Connections, LockAncestor(t)
  PROVE  TreesHeld'
<1> DEFINE p     == tx[t].at
           n     == tx[t].depth
           above == rows[p].state.parent
           step  == IF above = None THEN "measure" ELSE "walk"
           r     == [tx[t] EXCEPT !.pc = step, !.at = above, !.depth = @ + 1]
<1>1. /\ tx[t].pc = "walk" /\ p # tx[t].doc /\ Exists(p)
      /\ RowFree(t, p) /\ TakeRow(t, p)
      /\ tx' = [tx EXCEPT ![t] = r] /\ UNCHANGED db
  BY DEF LockAncestor, Moves, ParentLoops, ParentUnusable
<1>2. /\ p \in Docs /\ n \in Nat
      /\ tx[t].op \in {"create", "update", "restore"}
  BY <1>1 DEF Inv, TypeOK, Transaction, Shape, RowSteps
<1>3. /\ r.op = tx[t].op /\ r.doc = tx[t].doc /\ r.next = tx[t].next /\ r.cur = tx[t].cur
      /\ r.at = above /\ r.depth = n + 1
      /\ r.pc = step
  BY DEF Inv, TypeOK, Transaction
<1> HIDE DEF r
<1>4. tx'[t] = r
  BY <1>1, MovesTo
<1>5. LocksStay(t) /\ rowLock'[p] = t /\ \A e \in Docs : rowLock[e] = t => rowLock'[e] = t
  BY <1>1, <1>2, LocksOfTaken, TakeRowFacts
<1>6. rows' = rows
  BY <1>1 DEF db
<1>7. ASSUME Climbs(t) PROVE (\E c : Chain(t, c))'
  <2>1. PICK c : Chain(t, c)
    BY <1>7 DEF TreesHeld, Climbed
  <2>2. \E longer : longer = [i \in 0..(n + 1) |-> IF i = n + 1 THEN above ELSE c[i]]
    OBVIOUS
  <2>3. PICK longer : longer = [i \in 0..(n + 1) |-> IF i = n + 1 THEN above ELSE c[i]]
    BY <2>2
  <2>4. longer[n + 1] = above /\ \A i \in 0..n : longer[i] = c[i]
    BY <1>2, <2>3
  <2>5. /\ c[0] = tx[t].next.parent /\ c[n] = p
        /\ \A i \in 0..(n - 1) :
             /\ c[i] \in Docs /\ Exists(c[i]) /\ rowLock[c[i]] = t
             /\ c[i] # tx[t].doc
             /\ rows[c[i]].state.parent = c[i + 1]
    BY <2>1 DEF Chain
  <2>6. longer[0] = tx[t].next.parent
    BY <1>2, <2>4, <2>5
  <2>7. ASSUME NEW i \in 0..n
        PROVE  /\ longer[i] \in Docs /\ Exists(longer[i]) /\ rowLock'[longer[i]] = t
               /\ longer[i] # tx[t].doc
               /\ rows[longer[i]].state.parent = longer[i + 1]
    <3>1. CASE i = n
      BY <1>1, <1>2, <1>5, <2>4, <2>5, <3>1
    <3>2. CASE i # n
      <4>1. i \in 0..(n - 1) /\ i + 1 \in 0..n
        BY <1>2, <3>2
      <4> QED
        BY <1>5, <2>4, <2>5, <4>1
    <3> QED
      BY <3>1, <3>2
  <2>8. (n + 1) - 1 = n
    BY <1>2
  <2>9. /\ tx'[t].next.parent = tx[t].next.parent /\ tx'[t].depth = n + 1
        /\ tx'[t].at = above /\ tx'[t].doc = tx[t].doc
    BY <1>3, <1>4
  <2>10. \A i \in 0..(tx'[t].depth - 1) :
          /\ longer[i] \in Docs /\ Exists(longer[i])' /\ rowLock'[longer[i]] = t
          /\ longer[i] # tx'[t].doc
          /\ rows'[longer[i]].state.parent = longer[i + 1]
    BY <1>6, <2>7, <2>8, <2>9 DEF Exists
  <2>11. longer[0] = tx'[t].next.parent /\ longer[tx'[t].depth] = tx'[t].at
    BY <2>4, <2>6, <2>9
  <2> HIDE DEF n, above, p
  <2>12. Chain(t, longer)'
    BY <2>10, <2>11 DEF Chain
  <2> QED
    BY <2>12
<1>8. Climbs(t)' => Climbs(t)
  BY <1>1, <1>2, <1>3, <1>4 DEF Climbs
<1>9. Climbed(t)' /\ Unclimbed(t)' /\ \A level : Fits(t, level)'
  BY <1>3, <1>4, <1>7, <1>8 DEF Climbed, Unclimbed, Fits
<1> QED
  BY <1>1, <1>5, <1>9, NoWriteKeepsTrees

(* The height is read once every ancestor is locked: what moves fits.      *)
LEMMA MeasureHeightKeepsTrees ==
  ASSUME Inv, TreesHeld, NEW t \in Connections, MeasureHeight(t)
  PROVE  TreesHeld'
<1>1. CASE Refuse(t)
  BY <1>1, RefuseKeepsTrees
<1>2. CASE ~Refuse(t)
  <2> DEFINE r == [tx[t] EXCEPT !.pc = "commit"]
  <2>1. /\ tx[t].pc = "measure" /\ ~TooDeep(t) /\ tx' = [tx EXCEPT ![t] = r]
        /\ UNCHANGED <<db, locks>>
    BY <1>2 DEF MeasureHeight, Moves
  <2>2. /\ r.op = tx[t].op /\ r.doc = tx[t].doc /\ r.next = tx[t].next
        /\ r.cur = tx[t].cur /\ r.at = tx[t].at /\ r.depth = tx[t].depth
        /\ r.pc = "commit"
    BY DEF Inv, TypeOK, Transaction
  <2> HIDE DEF r
  <2>3. tx'[t] = r
    BY <2>1, MovesTo
  <2>4. UNCHANGED db /\ rows' = rows /\ rowLock' = rowLock
    BY <2>1 DEF db, locks
  <2>5. LocksStay(t)
    BY <2>4 DEF LocksStay
  <2>6. tx[t].depth \in Nat /\ MAX_HIERARCHY_DEPTH \in Nat
    BY ContentAssumption DEF ContentAssumption, Inv, TypeOK, Transaction
  <2>7. Climbs(t)' = Climbs(t)
    BY <2>1, <2>2, <2>3 DEF Climbs
  <2>8. Climbed(t)' /\ Unclimbed(t)'
    <3>1. tx[t].op = "create" => tx[t].depth + 1 <= MAX_HIERARCHY_DEPTH
      BY <2>1, <2>6 DEF TooDeep
    <3>2. \A c : Chain(t, c) => Chain(t, c)'
      BY <2>2, <2>3, <2>4 DEF Chain, Exists
    <3>3. tx[t].pc # "walk"
      BY <2>1
    <3> QED
      BY <2>2, <2>3, <2>7, <3>1, <3>2, <3>3 DEF TreesHeld, Climbed, Unclimbed
  <2>9. ASSUME NEW level, Levels(Tree, level), tx[t].op \in {"update", "restore"}
        PROVE  \A x \in Under(Tree, tx[t].doc) :
                 (level[x] - level[tx[t].doc]) + (tx[t].depth + 1) <= MAX_HIERARCHY_DEPTH
    <3>1. tx[t].doc \in Docs /\ Exists(tx[t].doc)
      BY <2>1, <2>9, NoValues DEF Inv, Shape, Protected, Writing, Exists
    <3>2. tx[t].depth + SubtreeHeight(tx[t].doc) <= MAX_HIERARCHY_DEPTH
      <4>1. ~(tx[t].depth + SubtreeHeight(tx[t].doc) > MAX_HIERARCHY_DEPTH)
        BY <2>1, <2>9 DEF TooDeep
      <4>2. SubtreeHeight(tx[t].doc) \in Nat
        BY <3>1, HeightTyped
      <4> QED
        BY <2>6, <4>1, <4>2
    <3> QED
      BY <2>6, <2>9, <3>1, <3>2, HeightFacts
  <2>10. Tree' = Tree
    BY <2>4 DEF Tree, Exists
  <2>11. \A level : Levels(Tree, level) => Fits(t, level)'
    BY <2>2, <2>3, <2>9, <2>10 DEF Fits
  <2> QED
    BY <2>1, <2>4, <2>5, <2>8, <2>11, NoWriteKeepsTrees
<1> QED
  BY <1>1, <1>2

LEMMA JoinKeepsTrees ==
  ASSUME Inv, TreesHeld, NEW t \in Connections, JoinGroup(t)
  PROVE  TreesHeld'
<1>1. CASE Refuse(t)
  BY <1>1, RefuseKeepsTrees
<1>2. CASE ~Refuse(t)
  <2> DEFINE step == IF tx[t].at # None THEN "walk" ELSE "commit"
             r    == [tx[t] EXCEPT !.pc = step, !.members = MembersOf(tx[t].group)]
  <2>1. /\ tx[t].pc = "lockGroup" /\ tx[t].op = "create"
        /\ tx' = [tx EXCEPT ![t] = r] /\ UNCHANGED <<db, rowLock>>
    BY <1>2 DEF JoinGroup, Moves
  <2>2. /\ r.next = tx[t].next /\ r.at = tx[t].at
        /\ r.depth = tx[t].depth /\ r.pc = step
    BY DEF Inv, TypeOK, Transaction
  <2> HIDE DEF r
  <2>3. tx[t].depth = 0 /\ tx[t].at = tx[t].next.parent
    BY <2>1 DEF TreesHeld, Unclimbed
  <2>4. UNCHANGED db /\ LocksStay(t)
    BY <2>1 DEF LocksStay
  <2> QED
    BY <2>1, <2>2, <2>3, <2>4, NotClimbing, StartsClimbing
<1> QED
  BY <1>1, <1>2

LEMMA LockForUpdateKeepsTrees ==
  ASSUME Inv, TreesHeld, NEW t \in Connections, LockForUpdate(t)
  PROVE  TreesHeld'
<1>1. CASE Refuse(t)
  BY <1>1, RefuseKeepsTrees
<1>2. CASE ~Refuse(t)
  <2> DEFINE current == rows[tx[t].doc]
             next    == Derive(t, current)
             moves   == next.parent \notin {None, current.state.parent}
             step    == IF moves THEN "walk" ELSE "commit"
             at      == IF moves THEN next.parent ELSE None
             r == [tx[t] EXCEPT !.pc = step, !.at = at, !.cur = current,
                     !.next = next, !.type = current.type, !.locale = current.locale]
  <2>1. /\ tx' = [tx EXCEPT ![t] = r] /\ tx[t].pc = "lockRow"
        /\ tx[t].op \in {"update", "restore"}
        /\ RowFree(t, tx[t].doc) /\ TakeRow(t, tx[t].doc) /\ UNCHANGED db
    BY <1>2 DEF LockForUpdate, Moves
  <2>2. /\ r.op = tx[t].op /\ r.depth = tx[t].depth
        /\ r.next = next /\ r.cur = current /\ r.at = at /\ r.pc = step
    BY DEF Inv, TypeOK, Transaction
  <2> HIDE DEF r, next
  <2>3. tx[t].depth = 0 /\ tx[t].doc \in Docs
    BY <2>1 DEF TreesHeld, Unclimbed, Inv, Shape
  <2>4. LocksStay(t)
    BY <2>1, <2>3, LocksOfTaken
  <2>5. CASE moves
    BY <2>1, <2>2, <2>3, <2>4, <2>5, StartsClimbing
  <2>6. CASE ~moves
    BY <2>1, <2>2, <2>3, <2>4, <2>6, NotClimbing
  <2> QED
    BY <2>5, <2>6
<1> QED
  BY <1>1, <1>2

LEMMA StatementKeepsTrees ==
  ASSUME Inv, TreesHeld, NEW t \in Connections, ~Refuse(t),
         \/ LockGroupOfDeleted(t) \/ LockForDelete(t) \/ LockChild(t)
         \/ Claim(t) \/ Announce(t)
  PROVE  TreesHeld'
<1>1. CASE LockGroupOfDeleted(t)
  <2> DEFINE r == [tx[t] EXCEPT !.pc = "lockRow"]
  <2>1. /\ tx' = [tx EXCEPT ![t] = r] /\ tx[t].pc = "lockGroup" /\ tx[t].op = "delete"
        /\ UNCHANGED db /\ UNCHANGED rowLock
    BY <1>1 DEF LockGroupOfDeleted, Moves
  <2>2. r.op = tx[t].op /\ r.depth = tx[t].depth
    BY DEF Inv, TypeOK, Transaction
  <2> HIDE DEF r
  <2>3. tx[t].depth = 0 /\ LocksStay(t)
    BY <2>1 DEF TreesHeld, Unclimbed, LocksStay
  <2> QED
    BY <2>1, <2>2, <2>3, NotClimbing
<1>2. CASE LockForDelete(t)
  <2>1. PICK c \in SomeOf(ChildrenOf(tx[t].doc)) :
          Moves(t, [tx[t] EXCEPT
            !.pc = IF c = None THEN "commit" ELSE "lockChildren",
            !.at = c, !.cur = rows[tx[t].doc], !.children = ChildrenOf(tx[t].doc)])
    BY <1>2 DEF LockForDelete
  <2> DEFINE step == IF c = None THEN "commit" ELSE "lockChildren"
             r == [tx[t] EXCEPT !.pc = step, !.at = c, !.cur = rows[tx[t].doc],
                     !.children = ChildrenOf(tx[t].doc)]
  <2>2. /\ tx' = [tx EXCEPT ![t] = r] /\ tx[t].pc = "lockRow" /\ tx[t].op = "delete"
        /\ RowFree(t, tx[t].doc) /\ TakeRow(t, tx[t].doc) /\ UNCHANGED db
    BY <1>2, <2>1 DEF LockForDelete, Moves
  <2>3. r.op = tx[t].op /\ r.depth = tx[t].depth
    BY DEF Inv, TypeOK, Transaction
  <2> HIDE DEF r
  <2>4. tx[t].depth = 0 /\ tx[t].doc \in Docs
    BY <2>2 DEF TreesHeld, Unclimbed, Inv, Shape
  <2>5. LocksStay(t)
    BY <2>2, <2>4, LocksOfTaken
  <2> QED
    BY <2>2, <2>3, <2>4, <2>5, NotClimbing
<1>3. CASE LockChild(t)
  <2> DEFINE left == tx[t].children \ {tx[t].at}
             orphaned == IF tx[t].at \in ChildrenOf(tx[t].doc)
                         THEN tx[t].orphaned \cup {tx[t].at} ELSE tx[t].orphaned
  <2>1. PICK e \in SomeOf(left) :
          Moves(t, [tx[t] EXCEPT
            !.pc = IF e = None THEN "commit" ELSE "lockChildren",
            !.at = e, !.children = left,
            !.orphaned = IF tx[t].at \in ChildrenOf(tx[t].doc)
                         THEN @ \cup {tx[t].at} ELSE @])
    BY <1>3 DEF LockChild
  <2> DEFINE step == IF e = None THEN "commit" ELSE "lockChildren"
             r == [tx[t] EXCEPT !.pc = step, !.at = e, !.children = left,
                                !.orphaned = orphaned]
  <2>2. tx' = [tx EXCEPT ![t] = r] /\ tx[t].pc = "lockChildren" /\ UNCHANGED db
    BY <1>3, <2>1 DEF LockChild, Moves
  <2>3. r.op = tx[t].op /\ r.pc = step
    BY DEF Inv, TypeOK, Transaction
  <2> HIDE DEF r
  <2>4. tx[t].op = "delete" /\ tx[t].at \in Docs
    BY <2>2 DEF Inv, Shape, RowSteps
  <2>5. LocksStay(t)
    BY <1>3, <2>4, LocksOfTaken DEF LockChild
  <2>6. r.op \notin {"create", "update", "restore"}
        /\ r.pc \notin {"composing", "lockGroup", "lockRow"}
    BY <2>3, <2>4
  <2> QED
    BY <2>2, <2>5, <2>6, NotClimbing
<1>4. CASE Claim(t)
  <2> DEFINE left == tx[t].due \ Earliest(tx[t].due)
             claimed == IF StillDue(t, tx[t].at)
                        THEN Append(tx[t].claimed, tx[t].at) ELSE tx[t].claimed
  <2>1. PICK e \in NextDue(left) :
          Moves(t, [tx[t] EXCEPT !.pc = IF e = None THEN "commit" ELSE "claim",
                                 !.due = left, !.at = e,
                                 !.claimed = IF StillDue(t, tx[t].at)
                                             THEN Append(@, tx[t].at) ELSE @])
    BY <1>4 DEF Claim
  <2> DEFINE step == IF e = None THEN "commit" ELSE "claim"
             r == [tx[t] EXCEPT !.pc = step, !.due = left, !.at = e, !.claimed = claimed]
  <2>2. tx' = [tx EXCEPT ![t] = r] /\ tx[t].pc = "claim" /\ UNCHANGED db
    BY <1>4, <2>1 DEF Claim, Moves
  <2>3. r.op = tx[t].op /\ r.pc = step
    BY DEF Inv, TypeOK, Transaction
  <2> HIDE DEF r
  <2>4. tx[t].op = "publishDue" /\ tx[t].at \in Docs
    BY <2>2 DEF Inv, Shape, RowSteps
  <2>5. LocksStay(t)
    BY <1>4, <2>4, LocksOfTaken DEF Claim
  <2>6. r.op \notin {"create", "update", "restore"}
        /\ r.pc \notin {"composing", "lockGroup", "lockRow"}
    BY <2>3, <2>4
  <2> QED
    BY <2>2, <2>5, <2>6, NotClimbing
<1>5. CASE Announce(t)
  <2> DEFINE r == IF Len(tx[t].outbox) <= 1 THEN Idle
                  ELSE [tx[t] EXCEPT !.outbox = Tail(tx[t].outbox)]
  <2>1. tx' = [tx EXCEPT ![t] = r] /\ tx[t].pc = "announce" /\ UNCHANGED <<db, locks>>
    BY <1>5 DEF Announce, Moves
  <2>2. tx[t].op = "none"
    BY <2>1 DEF Inv, Shape
  <2>3. r.op = "none" /\ r.pc \in {"idle", "announce"}
    BY <2>1, <2>2 DEF Inv, TypeOK, Transaction, Idle
  <2> HIDE DEF r
  <2>4. UNCHANGED db /\ LocksStay(t)
    BY <2>1 DEF locks, LocksStay
  <2> QED
    BY <2>1, <2>3, <2>4, NotClimbing
<1> QED
  BY <1>1, <1>2, <1>3, <1>4, <1>5

-----------------------------------------------------------------------------
(* What a commit does to the tree.                                         *)

LEMMA CommitKeepsTrees ==
  ASSUME Inv, TreesHeld, NEW t \in Connections, NEW events, Commits(t, events),
         RowsStay(t), NEW level, Levels(Tree', level),
         \A s \in Connections \ {t} : tx'[s] = tx[s] => Fits(s, level)'
  PROVE  TreesHeld'
<1> DEFINE r == [Idle EXCEPT !.pc = "announce", !.outbox = events]
<1>1. tx' = [tx EXCEPT ![t] = r] /\ Release(t)
  BY DEF Commits, Moves
<1>2. r.op = "none" /\ r.pc = "announce"
  BY DEF Idle
<1> HIDE DEF r
<1>3. tx'[t] = r /\ \A s \in Connections \ {t} : tx'[s] = tx[s]
  BY <1>1, MovesTo
<1>4. Climbed(t)' /\ Unclimbed(t)' /\ Fits(t, level)'
  BY <1>2, <1>3 DEF Climbed, Unclimbed, Fits, Climbs
<1>5. LocksStay(t)
  BY <1>1, LocksOfReleased
<1>6. \A s \in Connections \ {t} : Climbed(s)' /\ Unclimbed(s)' /\ Fits(s, level)'
  BY <1>3, <1>5, OthersStayClimbed
<1> QED
  BY <1>4, <1>6 DEF TreesHeld

(* What another transaction moves is in the tree, and not what t changes.  *)
LEMMA MovedByAnother ==
  ASSUME Inv, NEW s \in Connections, tx[s].op \in {"update", "restore"},
         tx[s].pc = "commit"
  PROVE  /\ tx[s].doc \in DOMAIN Tree /\ tx[s].doc \in Docs
         /\ rowLock[tx[s].doc] = s
<1>1. tx[s].doc \in Docs /\ rowLock[tx[s].doc] = s /\ rows[tx[s].doc] \in Row
  BY DEF Inv, Shape, Protected, Writing
<1> QED
  BY <1>1, NoValues, TreeFacts DEF Inv, Exists

LEMMA StillFits ==
  ASSUME NEW s \in Connections, NEW level, NEW new, Fits(s, level), tx'[s] = tx[s],
         Climbs(s) /\ tx[s].pc = "commit" /\ tx[s].op \in {"update", "restore"} =>
           /\ Under(Tree', tx[s].doc) \subseteq Under(Tree, tx[s].doc)
           /\ \A x \in Under(Tree', tx[s].doc) :
                new[x] - new[tx[s].doc] = level[x] - level[tx[s].doc]
  PROVE  Fits(s, new)'
<1>1. Climbs(s)' = Climbs(s)
  BY DEF Climbs
<1>2. ASSUME Climbs(s), tx[s].pc = "commit", tx[s].op \in {"update", "restore"},
             NEW x \in Under(Tree', tx[s].doc)
      PROVE  (new[x] - new[tx[s].doc]) + (tx[s].depth + 1) <= MAX_HIERARCHY_DEPTH
  BY <1>2 DEF Fits
<1> QED
  BY <1>1, <1>2 DEF Fits

(* A graft of a document only t can write, on a path t has locked.         *)
LEMMA GraftKeepsTrees ==
  ASSUME Inv, TreesHeld, NEW t \in Connections, NEW events, Commits(t, events),
         RowsStay(t), NEW level, Levels(Tree, level),
         \A s \in Connections : Fits(s, level),
         NEW d \in Docs, NEW parent, NEW path, NEW top \in 1..MAX_HIERARCHY_DEPTH,
         Grafts(Tree, Tree', d, parent, path),
         top = IF parent = None THEN 1 ELSE level[parent] + 1,
         \A x \in Under(Tree, d) : (level[x] - level[d]) + top <= MAX_HIERARCHY_DEPTH,
         d \in DOMAIN Tree => rowLock[d] = t, \A x \in path : rowLock[x] = t
  PROVE  TreesHeld'
<1> DEFINE f   == Tree
           g   == Tree'
<1>1. Forest(f)
  BY TreeFacts DEF Inv
<1>2. \A s \in Connections \ {t} :
        tx[s].op \in {"update", "restore"} /\ tx[s].pc = "commit" =>
          tx[s].doc \in DOMAIN f /\ tx[s].doc # d /\ tx[s].doc \notin path
  BY MovedByAnother, NoValues
<1>3. Grafts(f, g, d, parent, path) /\ Levels(f, level)
  OBVIOUS
<1>4. \A x \in Under(f, d) : (level[x] - level[d]) + top <= MAX_HIERARCHY_DEPTH
  OBVIOUS
<1> HIDE DEF f, g
<1>5. PICK new : new = Relevel(f, level, d, top)
  OBVIOUS
<1>6. Levels(g, new)
  BY <1>5, <1>1, <1>3, <1>4, GraftLevels
<1>7. \A e \in DOMAIN f : e # d /\ e \notin path =>
        /\ Under(g, e) \subseteq Under(f, e)
        /\ \A x \in Under(g, e) : new[x] - new[e] = level[x] - level[e]
  BY <1>5, <1>1, <1>3, GraftElsewhere
<1>8. ASSUME NEW s \in Connections \ {t}, tx'[s] = tx[s] PROVE Fits(s, new)'
  <2>1. Climbs(s) /\ tx[s].pc = "commit" /\ tx[s].op \in {"update", "restore"} =>
          /\ Under(Tree', tx[s].doc) \subseteq Under(Tree, tx[s].doc)
          /\ \A x \in Under(Tree', tx[s].doc) :
               new[x] - new[tx[s].doc] = level[x] - level[tx[s].doc]
    BY <1>2, <1>7 DEF f, g
  <2> QED
    BY <1>8, <2>1, StillFits
<1>9. Levels(Tree', new)
  BY <1>6 DEF g
<1> QED
  BY <1>8, <1>9, CommitKeepsTrees

(* The tree stays what it was.                                             *)
LEMMA SameTreeKeepsTrees ==
  ASSUME Inv, TreesHeld, NEW t \in Connections, NEW events, Commits(t, events),
         RowsStay(t), Tree' = Tree
  PROVE  TreesHeld'
<1>1. PICK level : Levels(Tree, level) /\ \A s \in Connections : Fits(s, level)
  BY DEF TreesHeld
<1>2. \A s \in Connections \ {t} : tx'[s] = tx[s] => Fits(s, level)'
  BY <1>1 DEF Fits, Climbs
<1> QED
  BY <1>1, <1>2, CommitKeepsTrees

(* What a transaction has walked to the root is a whole path, as long as   *)
(* it has counted.                                                         *)
LEMMA ChainLevels ==
  ASSUME Inv, NEW level, Levels(Tree, level), NEW t \in Connections,
         NEW c, Chain(t, c), tx[t].at = None, tx[t].next.parent # None
  PROVE  LET path == {c[i] : i \in 0..(tx[t].depth - 1)}
         IN /\ Closed(Tree, path) /\ tx[t].next.parent \in path
            /\ \A x \in path : rowLock[x] = t /\ x # tx[t].doc /\ x \in born
            /\ level[tx[t].next.parent] = tx[t].depth
<1> DEFINE n    == tx[t].depth
           path == {c[i] : i \in 0..(n - 1)}
           p    == tx[t].next.parent
<1>1. n \in Nat /\ MAX_HIERARCHY_DEPTH \in Nat
  BY ContentAssumption DEF ContentAssumption, Inv, TypeOK, Transaction
<1>2. /\ c[0] = p /\ c[n] = None
      /\ \A i \in 0..(n - 1) :
           /\ c[i] \in Docs /\ Exists(c[i]) /\ rowLock[c[i]] = t /\ c[i] # tx[t].doc
           /\ rows[c[i]].state.parent = c[i + 1]
  BY DEF Chain
<1>3. n # 0
  BY <1>2
<1>4. \A i \in 0..(n - 1) : c[i] \in DOMAIN Tree /\ Tree[c[i]] = c[i + 1] /\ c[i] # None
  BY <1>2, TreeFacts, NoValues DEF Inv
<1>5. Closed(Tree, path)
  <2>1. ASSUME NEW i \in 0..(n - 1) PROVE Tree[c[i]] = None \/ Tree[c[i]] \in path
    <3>1. CASE i = n - 1
      BY <1>1, <1>2, <1>4, <3>1
    <3>2. CASE i # n - 1
      <4>1. i + 1 \in 0..(n - 1)
        BY <1>1, <3>2
      <4> QED
        BY <1>4, <4>1
    <3> QED
      BY <3>1, <3>2
  <2> QED
    BY <1>4, <2>1 DEF Closed
<1>6. p \in path
  BY <1>1, <1>2, <1>3
<1>7. \A x \in path : rowLock[x] = t /\ x # tx[t].doc /\ x \in born
  BY <1>2 DEF Inv, Known
<1>8. \A x \in DOMAIN Tree :
        /\ level[x] \in Nat
        /\ Tree[x] = None => level[x] = 1
        /\ Tree[x] # None => level[x] = level[Tree[x]] + 1
  BY <1>1 DEF Levels
<1> DEFINE Bad == {j \in 1..n : level[c[n - j]] # j}
<1> HIDE DEF n, path, p
<1>9. ASSUME Bad # {} PROVE FALSE
  <2>1. Bad \in SUBSET Nat
    BY <1>1
  <2>2. PICK j \in Bad : \A m \in Bad : j <= m
    BY <1>9, <2>1, LeastNatural
  <2>3. j \in 1..n /\ n - j \in 0..(n - 1) /\ level[c[n - j]] # j
    BY <1>1, <2>2
  <2>4. CASE j = 1
    <3>1. Tree[c[n - 1]] = None
      <4>1. n - 1 \in 0..(n - 1) /\ (n - 1) + 1 = n
        BY <1>1, <1>3
      <4> QED
        BY <1>2, <1>4, <4>1
    <3> QED
      BY <1>4, <1>8, <2>3, <2>4, <3>1
  <2>5. CASE j # 1
    <3>1. /\ j - 1 \in 1..n /\ j - 1 \notin Bad /\ n - (j - 1) = (n - j) + 1
          /\ (n - j) + 1 \in 0..(n - 1)
      BY <1>1, <2>2, <2>3, <2>5
    <3>2. level[c[(n - j) + 1]] = j - 1
      BY <3>1
    <3>3. Tree[c[n - j]] = c[(n - j) + 1] /\ c[(n - j) + 1] # None
      BY <1>4, <2>3, <3>1
    <3> QED
      BY <1>1, <1>4, <1>8, <2>3, <3>2, <3>3
  <2> QED
    BY <2>4, <2>5
<1>10. level[p] = n
  <2>1. n \in 1..n /\ n - n = 0
    BY <1>1, <1>3
  <2>2. level[c[n - n]] = n
    <3>1. \A j \in 1..n : level[c[n - j]] = j
      BY <1>9
    <3> QED
      BY <2>1, <3>1
  <2> QED
    BY <1>2, <2>1, <2>2
<1> QED
  BY <1>5, <1>6, <1>7, <1>10 DEF n, path, p

LEMMA CreateKeepsTrees ==
  ASSUME Inv, TreesHeld, NEW t \in Connections, NEW d \in Docs, NEW g \in Groups,
         Creates(t, d, g)
  PROVE  TreesHeld'
<1> DEFINE row == [type |-> tx[t].type, locale |-> tx[t].locale, group |-> g,
                   author |-> tx[t].user, version |-> 1, state |-> tx[t].next]
           p   == tx[t].next.parent
<1>1. /\ tx[t].pc = "commit" /\ tx[t].op = "create" /\ d \notin born
      /\ rows' = [rows EXCEPT ![d] = row]
      /\ Commits(t, About(d, <<"content:created">>))
  BY DEF Creates
<1>2. row \in Row /\ row.state.parent = p
  BY <1>1 DEF Inv, TypeOK, Shape, Transaction, Row
<1> HIDE DEF row
<1>3. rows'[d] = row /\ row # Absent /\ \A e \in Docs \ {d} : rows'[e] = rows[e]
  BY <1>1, <1>2, NoValues DEF Inv, TypeOK
<1>4. RowsStay(t)
  BY <1>1, <1>3 DEF RowsStay
<1>5. d \notin DOMAIN Tree /\ Under(Tree, d) = {}
  <2>1. d \notin DOMAIN Tree
    BY <1>1, TreeFacts DEF Inv, Known
  <2>2. PICK level : Levels(Tree, level)
    BY DEF TreesHeld
  <2> QED
    BY <2>1, <2>2, TreeFacts, UnderFacts DEF Inv
<1>6. /\ DOMAIN Tree' = (DOMAIN Tree) \cup {d}
      /\ Tree'[d] = p
      /\ \A x \in (DOMAIN Tree) \ {d} : Tree'[x] = Tree[x]
  BY <1>2, <1>3 DEF Tree, Exists
<1>7. PICK level : Levels(Tree, level) /\ \A s \in Connections : Fits(s, level)
  BY DEF TreesHeld
<1>8. MAX_HIERARCHY_DEPTH \in Nat \ {0}
  BY ContentAssumption DEF ContentAssumption
<1>9. CASE p = None
  <2> DEFINE path == {}
  <2>1. path = {} /\ 1 \in 1..MAX_HIERARCHY_DEPTH
    BY <1>8
  <2> HIDE DEF path
  <2>2. Grafts(Tree, Tree', d, p, path)
    BY <1>6, <1>9, <2>1 DEF Grafts, Closed
  <2> QED
    BY <1>1, <1>4, <1>5, <1>7, <1>9, <2>1, <2>2, GraftKeepsTrees
<1>10. CASE p # None
  <2>1. Climbs(t)
    BY <1>1, <1>10 DEF Climbs
  <2>2. /\ tx[t].at = None /\ tx[t].depth + 1 <= MAX_HIERARCHY_DEPTH
        /\ \E c : Chain(t, c)
    BY <1>1, <2>1 DEF TreesHeld, Climbed
  <2>3. PICK c : Chain(t, c)
    BY <2>2
  <2> DEFINE path == {c[i] : i \in 0..(tx[t].depth - 1)}
             top  == tx[t].depth + 1
  <2>4. /\ Closed(Tree, path) /\ p \in path
        /\ \A x \in path : rowLock[x] = t /\ x \in born
        /\ level[p] = tx[t].depth
    BY <1>7, <1>10, <2>2, <2>3, ChainLevels
  <2> HIDE DEF path
  <2>5. tx[t].depth \in Nat
    BY DEF Inv, TypeOK, Transaction
  <2>6. top \in 1..MAX_HIERARCHY_DEPTH /\ top = IF p = None THEN 1 ELSE level[p] + 1
    BY <1>8, <1>10, <2>2, <2>4, <2>5
  <2> HIDE DEF top
  <2>7. Grafts(Tree, Tree', d, p, path)
    BY <1>1, <1>6, <2>4 DEF Grafts
  <2> QED
    BY <1>1, <1>4, <1>5, <1>7, <2>4, <2>6, <2>7, GraftKeepsTrees
<1> QED
  BY <1>9, <1>10

LEMMA UpdateKeepsTrees ==
  ASSUME Inv, TreesHeld, NEW t \in Connections, Updates(t)
  PROVE  TreesHeld'
<1> DEFINE d   == tx[t].doc
           row == [tx[t].cur EXCEPT !.state = tx[t].next, !.version = @ + 1]
           p   == tx[t].next.parent
<1>1. /\ d \in Docs /\ rows[d] = tx[t].cur /\ rows[d] \in Row /\ row \in Row
      /\ row.state = tx[t].next
      /\ rows' = [rows EXCEPT ![d] = row] /\ rows'[d] = row
      /\ Commits(t, About(d, TransitionsFor(rows[d].state.status, tx[t].next.status)))
  BY UpdateFacts
<1> HIDE DEF row
<1>2. /\ tx[t].pc = "commit" /\ tx[t].op \in {"update", "restore"} /\ rowLock[d] = t
  BY DEF Updates, CommitUpdate, Inv, Protected, Writing
<1>3. \A e \in Docs \ {d} : rows'[e] = rows[e]
  BY <1>1 DEF Inv, TypeOK
<1>4. RowsStay(t)
  BY <1>2, <1>3 DEF RowsStay
<1>5. /\ d \in DOMAIN Tree /\ DOMAIN Tree' = DOMAIN Tree
      /\ Tree'[d] = p /\ Tree[d] = rows[d].state.parent
      /\ \A x \in (DOMAIN Tree) \ {d} : Tree'[x] = Tree[x]
  BY <1>1, <1>3, NoValues DEF Tree, Exists
<1>6. PICK level : Levels(Tree, level) /\ \A s \in Connections : Fits(s, level)
  BY DEF TreesHeld
<1>7. MAX_HIERARCHY_DEPTH \in Nat \ {0}
  BY ContentAssumption DEF ContentAssumption
<1>8. \A x \in DOMAIN Tree : level[x] \in 1..MAX_HIERARCHY_DEPTH
  BY <1>6 DEF Levels
<1>9. CASE p = rows[d].state.parent
  <2>1. \A x \in DOMAIN Tree : Tree'[x] = Tree[x]
    BY <1>5, <1>9
  <2>2. Tree' = Tree
    BY <1>5, <2>1 DEF Tree
  <2> QED
    BY <1>1, <1>4, <2>2, SameTreeKeepsTrees
<1>10. CASE p = None
  <2> DEFINE path == {}
  <2>1. path = {} /\ 1 \in 1..MAX_HIERARCHY_DEPTH
    BY <1>7
  <2> HIDE DEF path
  <2>2. Grafts(Tree, Tree', d, p, path)
    BY <1>5, <1>10, <2>1 DEF Grafts, Closed
  <2>3. \A x \in Under(Tree, d) : (level[x] - level[d]) + 1 <= MAX_HIERARCHY_DEPTH
    BY <1>5, <1>7, <1>8 DEF Under
  <2> QED
    BY <1>1, <1>2, <1>4, <1>6, <1>10, <2>1, <2>2, <2>3, GraftKeepsTrees
<1>11. CASE p # None /\ p # rows[d].state.parent
  <2>1. Climbs(t)
    BY <1>1, <1>2, <1>11 DEF Climbs
  <2>2. /\ tx[t].at = None
        /\ \E c : Chain(t, c)
    BY <1>2, <2>1 DEF TreesHeld, Climbed
  <2>3. PICK c : Chain(t, c)
    BY <2>2
  <2> DEFINE path == {c[i] : i \in 0..(tx[t].depth - 1)}
             top  == tx[t].depth + 1
  <2>4. /\ Closed(Tree, path) /\ p \in path
        /\ \A x \in path : rowLock[x] = t /\ x # d
        /\ level[p] = tx[t].depth
    <3>1. /\ Closed(Tree, path) /\ p \in path
          /\ \A x \in path : rowLock[x] = t /\ x # d /\ x \in born
          /\ level[p] = tx[t].depth
      BY <1>6, <1>11, <2>2, <2>3, ChainLevels
    <3> QED
      BY <3>1
  <2> HIDE DEF path
  <2>5. tx[t].depth \in Nat
    BY DEF Inv, TypeOK, Transaction
  <2>6. \A x \in Under(Tree, d) : (level[x] - level[d]) + top <= MAX_HIERARCHY_DEPTH
    BY <1>2, <1>6, <2>1 DEF Fits
  <2>7. d \in Under(Tree, d)
    BY <1>5, <1>6, TreeFacts, UnderFacts DEF Inv
  <2>8. top \in 1..MAX_HIERARCHY_DEPTH /\ top = IF p = None THEN 1 ELSE level[p] + 1
    <3>1. level[d] \in Nat /\ (level[d] - level[d]) + top <= MAX_HIERARCHY_DEPTH
      BY <1>5, <1>7, <1>8, <2>6, <2>7
    <3> QED
      BY <1>7, <1>11, <2>4, <2>5, <3>1
  <2> HIDE DEF top
  <2>9. Grafts(Tree, Tree', d, p, path)
    BY <1>5, <2>4 DEF Grafts
  <2> QED
    BY <1>1, <1>2, <1>4, <1>6, <2>4, <2>6, <2>8, <2>9, GraftKeepsTrees
<1> QED
  BY <1>9, <1>10, <1>11

LEMMA RemoveKeepsTrees ==
  ASSUME Inv, TreesHeld, NEW t \in Connections, Removes(t)
  PROVE  TreesHeld'
<1> DEFINE d == tx[t].doc
<1>1. /\ d \in Docs /\ rows'[d] = Absent
      /\ ChildrenOf(d) \subseteq tx[t].orphaned
      /\ \A e \in Docs \ {d} :
           \/ rows'[e] = rows[e]
           \/ /\ e \in tx[t].orphaned /\ rows[e] \in Row
              /\ rows'[e] = [rows[e] EXCEPT !.state.parent = None]
      /\ rows' = [e \in Docs |->
                    IF e = d THEN Absent
                    ELSE IF e \in tx[t].orphaned
                         THEN [rows[e] EXCEPT !.state.parent = None]
                         ELSE rows[e]]
      /\ Commits(t, About(d, <<"content:deleted">>))
  BY RemoveFacts DEF Removes, CommitDelete
<1>2. rowLock[d] = t /\ \A c \in tx[t].orphaned : rowLock[c] = t /\ c \in ChildrenOf(d)
  BY DEF Removes, CommitDelete, Inv, Protected, Deleting
<1>3. RowsStay(t)
  BY <1>1, <1>2 DEF RowsStay
<1>4. \A e \in Docs \ {d} : Exists(e)' <=> Exists(e)
  <2>1. ASSUME NEW e \in Docs \ {d}, rows[e] \in Row,
               rows'[e] = [rows[e] EXCEPT !.state.parent = None]
        PROVE  rows[e] # Absent /\ rows'[e] # Absent
    <3>1. rows'[e] \in Row
      BY <2>1, OrphanedRow
    <3> QED
      BY <2>1, <3>1, NoValues
  <2> QED
    BY <1>1, <2>1 DEF Exists
<1>5. Uproots(Tree, Tree', d)
  <2>1. DOMAIN Tree' = (DOMAIN Tree) \ {d}
    BY <1>1, <1>4 DEF Tree, Exists
  <2>2. ASSUME NEW x \in DOMAIN Tree'
        PROVE  Tree'[x] = IF Tree[x] = d THEN None ELSE Tree[x]
    <3>1. /\ x \in Docs /\ x # d /\ Exists(x) /\ x \in DOMAIN Tree /\ rows[x] \in Row
          /\ Tree[x] = rows[x].state.parent
      BY <2>1, TreeFacts DEF Inv
    <3>2. Tree'[x] = rows'[x].state.parent
      BY <2>2 DEF Tree
    <3>3. x \in ChildrenOf(d) <=> Tree[x] = d
      BY <3>1 DEF ChildrenOf
    <3>4. CASE x \in tx[t].orphaned
      <4>1. rows'[x] = [rows[x] EXCEPT !.state.parent = None]
        BY <1>1, <3>1, <3>4
      <4>2. rows'[x].state.parent = None
        BY <3>1, <4>1, OrphanedRow
      <4> QED
        BY <1>2, <3>2, <3>3, <3>4, <4>2
    <3>5. CASE x \notin tx[t].orphaned
      <4>1. rows'[x] = rows[x]
        BY <1>1, <3>1, <3>5
      <4> QED
        BY <1>1, <3>1, <3>2, <3>3, <3>5, <4>1
    <3> QED
      BY <3>4, <3>5
  <2> QED
    BY <2>1, <2>2 DEF Uproots
<1>6. PICK level : Levels(Tree, level) /\ \A s \in Connections : Fits(s, level)
  BY DEF TreesHeld
<1> DEFINE f   == Tree
           g   == Tree'
<1>7. Forest(f) /\ Levels(f, level) /\ Uproots(f, g, d)
  BY <1>5, <1>6, TreeFacts DEF Inv
<1>8. \A s \in Connections \ {t} :
        tx[s].op \in {"update", "restore"} /\ tx[s].pc = "commit" =>
          tx[s].doc \in DOMAIN f /\ tx[s].doc # d
  BY <1>2, MovedByAnother, NoValues
<1> HIDE DEF f, g
<1>9. PICK new : new = Raised(f, level, d)
  OBVIOUS
<1>10. Levels(g, new)
  BY <1>1, <1>7, <1>9, UprootLevels
<1>11. \A e \in DOMAIN f : e # d =>
         /\ Under(g, e) \subseteq Under(f, e)
         /\ \A x \in Under(g, e) : new[x] - new[e] = level[x] - level[e]
  BY <1>1, <1>7, <1>9, UprootElsewhere
<1>12. ASSUME NEW s \in Connections \ {t}, tx'[s] = tx[s] PROVE Fits(s, new)'
  <2>1. Climbs(s) /\ tx[s].pc = "commit" /\ tx[s].op \in {"update", "restore"} =>
          /\ Under(Tree', tx[s].doc) \subseteq Under(Tree, tx[s].doc)
          /\ \A x \in Under(Tree', tx[s].doc) :
               new[x] - new[tx[s].doc] = level[x] - level[tx[s].doc]
    BY <1>8, <1>11 DEF f, g
  <2> QED
    BY <1>6, <1>12, <2>1, StillFits
<1>13. Levels(Tree', new)
  BY <1>10 DEF g
<1> QED
  BY <1>1, <1>3, <1>12, <1>13, CommitKeepsTrees

LEMMA PublishKeepsTrees ==
  ASSUME Inv, TreesHeld, NEW t \in Connections, CommitPublishDue(t)
  PROVE  TreesHeld'
<1>1. /\ tx[t].claimed \in Seq(Docs)
      /\ \A d \in Claimed(t) : rows[d] \in Row /\ rows'[d] = Publish(rows[d])
      /\ \A d \in Docs \ Claimed(t) : rows'[d] = rows[d]
      /\ Commits(t, PublicationEvents(t))
  BY PublishFacts
<1>2. \A d \in Claimed(t) : rowLock[d] = t
  BY DEF Inv, Protected, Claimed
<1>3. RowsStay(t)
  BY <1>1, <1>2 DEF RowsStay
<1>4. \A d \in Docs : /\ Exists(d)' <=> Exists(d)
                      /\ Exists(d) => rows'[d].state.parent = rows[d].state.parent
  <2>1. ASSUME NEW d \in Claimed(t)
        PROVE  /\ rows[d] # Absent /\ rows'[d] # Absent
               /\ rows'[d].state.parent = rows[d].state.parent
    <3>1. rows[d] \in Row /\ rows'[d] = Publish(rows[d])
      BY <1>1
    <3>2. Publish(rows[d]) \in Row /\ Publish(rows[d]).state.parent = rows[d].state.parent
      BY <3>1, PublishedRow
    <3> QED
      BY <3>1, <3>2, NoValues
  <2> QED
    BY <1>1, <2>1 DEF Exists
<1>5. DOMAIN Tree' = DOMAIN Tree /\ \A d \in DOMAIN Tree : Tree'[d] = Tree[d]
  BY <1>4 DEF Tree
<1>6. Tree' = Tree
  BY <1>5 DEF Tree
<1> QED
  BY <1>1, <1>3, <1>6, SameTreeKeepsTrees

-----------------------------------------------------------------------------
LEMMA TreesKept == Inv /\ TreesHeld /\ [Next]_vars => TreesHeld'
<1> SUFFICES ASSUME Inv, TreesHeld, [Next]_vars PROVE TreesHeld'
  OBVIOUS
<1>1. ASSUME NEW t \in Connections, Writes(t) PROVE TreesHeld'
  BY <1>1, CreateKeepsTrees, UpdateKeepsTrees, RemoveKeepsTrees, PublishKeepsTrees
  DEF Writes
<1>2. ASSUME NEW t \in Connections, Request(t) PROVE TreesHeld'
  BY <1>2, RequestKeepsTrees
<1>3. ASSUME NEW t \in Connections, Proceed(t) PROVE TreesHeld'
  <2>1. CASE Refuse(t)
    BY <2>1, RefuseKeepsTrees
  <2>2. CASE ~Refuse(t) /\ (CommitCreate(t) \/ CommitUpdate(t) \/ CommitDelete(t)
                             \/ CommitPublishDue(t))
    BY <1>1, <2>2, CreatesAtCommit DEF Writes, Updates, Removes
  <2>3. CASE RefuseParent(t) \/ BreakDeadlock(t)
    BY <2>3, RefuseKeepsTrees DEF RefuseParent, BreakDeadlock
  <2> QED
    BY <1>3, <2>1, <2>2, <2>3, JoinKeepsTrees, LockAncestorKeepsTrees,
       MeasureHeightKeepsTrees, LockForUpdateKeepsTrees, StatementKeepsTrees
    DEF Proceed
<1>4. ASSUME NEW t \in Connections, Abort(t) PROVE TreesHeld'
  BY <1>4, RefuseKeepsTrees DEF Abort
<1>5. CASE UNCHANGED <<rows, tx, rowLock>>
  <2>1. Tree' = Tree
    BY <1>5 DEF Tree, Exists
  <2>2. \A t \in Connections : Climbed(t)' /\ Unclimbed(t)'
    BY <1>5 DEF TreesHeld, Climbed, Unclimbed, Climbs, Chain, Exists
  <2>3. \A level : \A t \in Connections : Fits(t, level) => Fits(t, level)'
    BY <1>5, <2>1 DEF Fits, Climbs
  <2> QED
    BY <2>1, <2>2, <2>3 DEF TreesHeld
<1> QED
  BY <1>2, <1>3, <1>4, <1>5
  DEF Next, DeleteMedia, Tick, Quiet, vars, db, locks

LEMMA TreesInit == Init => TreesHeld
<1> SUFFICES ASSUME Init PROVE TreesHeld
  OBVIOUS
<1>1. Idle.op = "none" /\ Idle.pc = "idle"
  BY DEF Idle
<1>2. \A t \in Connections : tx[t] = Idle
  BY DEF Init
<1>3. \A t \in Connections : Climbed(t) /\ Unclimbed(t) /\ \A level : Fits(t, level)
  BY <1>1, <1>2 DEF Climbed, Unclimbed, Climbs, Fits
<1>4. PICK level \in [Docs -> 1..MAX_HIERARCHY_DEPTH] :
        \A d \in Docs : rows[d] # Absent =>
          LET above == rows[d].state.parent
          IN IF above = None THEN level[d] = 1
             ELSE rows[above] # Absent /\ level[d] = level[above] + 1
  BY SeedsAssumption DEF Init, SeedsAssumption, Rooted
<1>5. TypeOK
  BY InitEstablishes DEF Inv
<1>6. Levels(Tree, level)
  BY <1>4, <1>5, TreeFacts DEF Levels, Exists
<1> QED
  BY <1>3, <1>6 DEF TreesHeld

(* Every page has a path of at most MAX_HIERARCHY_DEPTH segments, whatever *)
(* moves, creations and deletions interleave: assertUsableParent locks the *)
(* ancestors before subtreeHeight is read, so no two transactions can      *)
(* close a cycle or lengthen a chain between them.                         *)
THEOREM PathsAlwaysResolve == Spec => []PathsResolve
<1>1. Inv /\ TreesHeld => PathsResolve
  BY LevelsResolve DEF TreesHeld
<1>2. Spec => []TreesHeld
  BY TreesInit, TreesKept, Invariance, PTL DEF Spec
<1> QED
  BY <1>1, <1>2, Invariance, PTL

(* The committed documents are always whole: every page has its path,      *)
(* every group its members, every history its length (contents.ts).        *)
THEOREM StoreAlwaysHolds == Spec => []StoreHolds
<1>1. PathsResolve /\ GroupsLive /\ RevisionsCounted => StoreHolds
  BY DEF StoreHolds
<1> QED
  BY <1>1, PathsAlwaysResolve, GroupsLiveWithTheirMembers, HistoriesAreCounted, PTL

-----------------------------------------------------------------------------
(* What the unique indexes and the foreign key to the parent keep true.    *)

(* The parent of a document is a document of its type and language.        *)
Kin(d) ==
  rows[d].state.parent # None =>
    /\ rows[d].state.parent \in Docs /\ Exists(rows[d].state.parent)
    /\ rows[rows[d].state.parent].type = rows[d].type
    /\ rows[rows[d].state.parent].locale = rows[d].locale

SchemaHeld ==
  /\ \A d \in Docs : Exists(d) => Kin(d)
  /\ \A d, e \in Docs : d # e /\ Exists(d) /\ Exists(e) => Apart(rows[e], rows[d])

LEMMA SchemaInit == Init => SchemaHeld
<1> SUFFICES ASSUME Init PROVE SchemaHeld
  OBVIOUS
<1>1. rows \in Seeds /\ rows \in [Docs -> MaybeRow] /\ Rooted(rows)
  BY InitEstablishes, SeedsAssumption DEF Inv, TypeOK, Init, SeedsAssumption
<1>2. ASSUME NEW d \in Docs, Exists(d) PROVE Kin(d)
  <2>1. rows[d].state.parent \in Docs \cup {None}
    BY <1>1, <1>2 DEF MaybeRow, Row, State, Exists
  <2>2. rows[d].state.parent # None => Exists(rows[d].state.parent)
    BY <1>1, <1>2 DEF Rooted, Exists
  <2> QED
    BY <1>1, <1>2, <2>1, <2>2, SeedsAssumption DEF SeedsAssumption, Kin, Exists
<1>3. ASSUME NEW d \in Docs, NEW e \in Docs, d # e, Exists(d), Exists(e)
      PROVE  Apart(rows[e], rows[d])
  BY <1>1, <1>3, SeedsAssumption DEF SeedsAssumption, Exists
<1> QED
  BY <1>2, <1>3 DEF SchemaHeld

(* A document created, or changed but for its type, language and group.    *)
LEMMA RowReplaced ==
  ASSUME Inv, GroupsHeld, SchemaHeld, NEW d \in Docs, NEW row \in Row,
         rows' = [rows EXCEPT ![d] = row], ConstraintsHold(d, row),
         Exists(d) => row.type = rows[d].type /\ row.locale = rows[d].locale
  PROVE  SchemaHeld'
<1>1. /\ rows'[d] = row /\ \A e \in Docs \ {d} : rows'[e] = rows[e]
      /\ row # Absent /\ rows \in [Docs -> MaybeRow]
  BY NoValues DEF Inv, TypeOK
<1>2. Exists(d)' /\ \A e \in Docs \ {d} : Exists(e)' <=> Exists(e)
  BY <1>1 DEF Exists
<1>3. ASSUME NEW e \in Docs, Exists(e)' PROVE Kin(e)'
  <2>1. CASE e = d
    <3>1. row.state.parent \in Docs \cup {None}
      BY DEF Row, State
    <3> QED
      BY <1>1, <1>2, <2>1, <3>1 DEF ConstraintsHold, Kin
  <2>2. CASE e # d
    <3>1. Exists(e) /\ rows'[e] = rows[e] /\ Kin(e)
      BY <1>1, <1>2, <1>3, <2>2 DEF SchemaHeld
    <3>2. CASE rows[e].state.parent = d
      BY <1>1, <1>2, <3>1, <3>2 DEF Kin
    <3>3. CASE rows[e].state.parent # d
      BY <1>1, <1>2, <3>1, <3>3 DEF Kin
    <3> QED
      BY <3>2, <3>3
  <2> QED
    BY <2>1, <2>2
<1>4. ASSUME NEW e \in Docs \ {d}, Exists(e)
      PROVE  Apart(row, rows[e]) /\ Apart(rows[e], row)
  <2>1. rows[e].group \in Groups /\ rows[e].group \in born /\ e \in MembersOf(rows[e].group)
    BY <1>1, <1>4 DEF GroupsHeld, GroupsBorn, Exists, MaybeRow, Row, MembersOf
  <2>2. rows[e].type = groups[rows[e].group]
    BY <2>1 DEF GroupsHeld, GroupsLive
  <2>3. /\ row.group = rows[e].group => row.type = rows[e].type /\ row.locale # rows[e].locale
        /\ row.type = rows[e].type /\ row.locale = rows[e].locale =>
             row.state.slug # rows[e].state.slug
    BY <1>4, <2>1, <2>2 DEF ConstraintsHold
  <2> QED
    BY <2>3 DEF Apart
<1>5. ASSUME NEW a \in Docs, NEW b \in Docs, a # b, Exists(a)', Exists(b)'
      PROVE  Apart(rows'[b], rows'[a])
  <2>1. CASE a = d
    BY <1>1, <1>2, <1>4, <1>5, <2>1
  <2>2. CASE b = d
    BY <1>1, <1>2, <1>4, <1>5, <2>2
  <2>3. CASE a # d /\ b # d
    BY <1>1, <1>2, <1>5, <2>3 DEF SchemaHeld
  <2> QED
    BY <2>1, <2>2, <2>3
<1>6. \A e \in Docs : Exists(e)' => Kin(e)'
  BY <1>3
<1> QED
  BY <1>5, <1>6 DEF SchemaHeld

(* A document removed, or none, the others keeping all but a status or the *)
(* parent that goes.                                                       *)
LEMMA RowsKeepTheSchema ==
  ASSUME Inv, SchemaHeld,
         \A d \in Docs : Exists(d)' =>
           /\ Exists(d)
           /\ rows'[d].type = rows[d].type /\ rows'[d].locale = rows[d].locale
           /\ rows'[d].group = rows[d].group /\ rows'[d].state.slug = rows[d].state.slug
           /\ \/ rows'[d].state.parent = None
              \/ /\ rows'[d].state.parent = rows[d].state.parent
                 /\ rows[d].state.parent \in Docs /\ Exists(rows[d].state.parent) =>
                      Exists(rows[d].state.parent)'
  PROVE  SchemaHeld'
<1>1. \A d \in Docs : Exists(d)' => Kin(d)'
  BY DEF SchemaHeld, Kin
<1>2. \A d, e \in Docs : d # e /\ Exists(d)' /\ Exists(e)' => Apart(rows'[e], rows'[d])
  BY DEF SchemaHeld, Apart
<1> QED
  BY <1>1, <1>2 DEF SchemaHeld

LEMMA SchemaKept == Inv /\ GroupsHeld /\ SchemaHeld /\ [Next]_vars => SchemaHeld'
<1> SUFFICES ASSUME Inv, GroupsHeld, SchemaHeld, [Next]_vars PROVE SchemaHeld'
  OBVIOUS
<1>1. CASE WritesNothing
  BY <1>1 DEF WritesNothing, SchemaHeld, Kin, Exists
<1>2. ASSUME NEW t \in Connections, NEW d \in Docs, NEW g \in Groups, Creates(t, d, g)
      PROVE  SchemaHeld'
  <2> DEFINE row == [type |-> tx[t].type, locale |-> tx[t].locale, group |-> g,
                     author |-> tx[t].user, version |-> 1, state |-> tx[t].next]
  <2>1. row \in Row
    BY <1>2 DEF Creates, Inv, Shape, Row
  <2>2. rows' = [rows EXCEPT ![d] = row] /\ ConstraintsHold(d, row) /\ ~Exists(d)
    BY <1>2 DEF Creates, Inv, Known
  <2> HIDE DEF row
  <2> QED
    BY <2>1, <2>2, RowReplaced
<1>3. ASSUME NEW t \in Connections, Updates(t) PROVE SchemaHeld'
  <2> DEFINE row == [tx[t].cur EXCEPT !.state = tx[t].next, !.version = @ + 1]
  <2>1. /\ tx[t].doc \in Docs /\ row \in Row
        /\ row.type = rows[tx[t].doc].type /\ row.locale = rows[tx[t].doc].locale
        /\ ConstraintsHold(tx[t].doc, row)
        /\ rows' = [rows EXCEPT ![tx[t].doc] = row]
    BY <1>3, UpdateFacts
  <2> HIDE DEF row
  <2> QED
    BY <2>1, RowReplaced
<1>4. ASSUME NEW t \in Connections, Removes(t) PROVE SchemaHeld'
  <2> DEFINE d == tx[t].doc
  <2>1. /\ d \in Docs /\ rows'[d] = Absent /\ ChildrenOf(d) \subseteq tx[t].orphaned
        /\ \A e \in Docs \ {d} :
             \/ rows'[e] = rows[e]
             \/ /\ e \in tx[t].orphaned /\ rows[e] \in Row
                /\ rows'[e] = [rows[e] EXCEPT !.state.parent = None]
    BY <1>4, RemoveFacts
  <2>2. \A e \in Docs \ {d} : e \in tx[t].orphaned =>
          /\ rows[e] \in Row /\ rows'[e] = [rows[e] EXCEPT !.state.parent = None]
    <3>1. \A e \in tx[t].orphaned : rows[e] \in Row
      BY DEF Inv, TypeOK, Protected, ChildrenOf, Exists, MaybeRow
    <3> QED
      BY <1>4, <3>1 DEF Removes, CommitDelete
  <2>3. ASSUME NEW e \in Docs, Exists(e)'
        PROVE  /\ e # d /\ Exists(e)
               /\ rows'[e].type = rows[e].type /\ rows'[e].locale = rows[e].locale
               /\ rows'[e].group = rows[e].group /\ rows'[e].state.slug = rows[e].state.slug
               /\ \/ rows'[e].state.parent = None
                  \/ rows'[e].state.parent = rows[e].state.parent /\ rows[e].state.parent # d
    <3>1. e # d
      BY <2>1, <2>3 DEF Exists
    <3>2. CASE e \in tx[t].orphaned
      <4>1. rows[e] \in Row /\ rows'[e] = [rows[e] EXCEPT !.state.parent = None]
        BY <2>2, <3>1, <3>2
      <4>2. rows'[e].state = [rows[e].state EXCEPT !.parent = None] /\ rows[e].state \in State
        BY <4>1, OrphanedRow DEF Row
      <4>3. rows'[e].state.slug = rows[e].state.slug
        BY <4>2 DEF State
      <4> QED
        BY <3>1, <4>1, <4>3, OrphanedRow, NoValues DEF Exists
    <3>3. CASE e \notin tx[t].orphaned
      <4>1. rows'[e] = rows[e] /\ e \notin ChildrenOf(d)
        BY <2>1, <3>1, <3>3
      <4> QED
        BY <2>3, <3>1, <4>1 DEF ChildrenOf, Exists
    <3> QED
      BY <3>2, <3>3
  <2>4. \A e \in Docs : e # d /\ Exists(e) => Exists(e)'
    <3>1. \A e \in Docs \ {d} : rows'[e] = [rows[e] EXCEPT !.state.parent = None] /\ rows[e] \in Row
            => rows'[e] \in Row
      BY OrphanedRow
    <3> QED
      BY <2>1, <3>1, NoValues DEF Exists
  <2> HIDE DEF d
  <2> QED
    BY <2>3, <2>4, RowsKeepTheSchema
<1>5. ASSUME NEW t \in Connections, CommitPublishDue(t) PROVE SchemaHeld'
  <2>1. \A d \in Docs :
          \/ rows'[d] = rows[d]
          \/ rows[d] \in Row /\ rows'[d] = Publish(rows[d])
    BY <1>5, PublishFacts
  <2>2. ASSUME NEW row \in Row
        PROVE  /\ Publish(row) \in Row
               /\ Publish(row).type = row.type /\ Publish(row).locale = row.locale
               /\ Publish(row).group = row.group
               /\ Publish(row).state.slug = row.state.slug
               /\ Publish(row).state.parent = row.state.parent
    <3>1. /\ Publish(row).state = [row.state EXCEPT !.status = "published"]
          /\ row.state \in State
      BY PublishedRow DEF Row
    <3>2. Publish(row).state.slug = row.state.slug
      BY <3>1 DEF State
    <3> QED
      BY <3>2, PublishedRow
  <2>3. \A d \in Docs :
          /\ Exists(d)' <=> Exists(d)
          /\ Exists(d) =>
               /\ rows'[d].type = rows[d].type /\ rows'[d].locale = rows[d].locale
               /\ rows'[d].group = rows[d].group
               /\ rows'[d].state.slug = rows[d].state.slug
               /\ rows'[d].state.parent = rows[d].state.parent
    BY <2>1, <2>2, NoValues DEF Exists
  <2> QED
    BY <2>3, RowsKeepTheSchema
<1> QED
  BY <1>1, <1>2, <1>3, <1>4, <1>5, WritesOrNot DEF Writes

-----------------------------------------------------------------------------
(* Who is allowed what a transaction is about to do.                       *)

(* The user of a write is known, a creation was authorized for the status  *)
(* it is about to have, a deletion for the row as it stands under the lock *)
(* of this transaction, and a pass looks no further than the present.      *)
Entitled(t) ==
  /\ tx[t].pc = "composing" \/ tx[t].op \in {"update", "restore", "delete"} =>
       tx[t].user \in UserIds
  /\ tx[t].op = "create" => CanCreate(Actor(tx[t].user), tx[t].next.status)
  /\ Deleting(t) /\ Exists(tx[t].doc) =>
       CanDelete(Actor(tx[t].user), rows[tx[t].doc].author,
                 rows[tx[t].doc].state.status)
  /\ tx[t].op = "publishDue" => tx[t].clock <= now

EveryoneEntitled == \A t \in Connections : Entitled(t)

LEMMA OthersStayEntitled ==
  ASSUME Inv, NEW t \in Connections, RowsStay(t), now <= now',
         NEW s \in Connections, s # t, tx'[s] = tx[s], Entitled(s), now' \in Times
  PROVE  Entitled(s)'
<1>1. tx[s].clock \in Nat /\ now \in Nat /\ now' \in Nat
  BY ContentAssumption DEF ContentAssumption, Inv, TypeOK, Transaction, Times
<1>2. ASSUME Deleting(s), Exists(tx[s].doc)'
      PROVE  Exists(tx[s].doc) /\ rows'[tx[s].doc] = rows[tx[s].doc]
  <2>1. tx[s].doc \in Docs /\ rowLock[tx[s].doc] = s
    BY <1>2 DEF Deleting, Inv, Shape, Protected
  <2>2. tx[s].doc \in born
    BY <2>1, NoValues DEF Inv, Known
  <2> QED
    BY <1>2, <2>1, <2>2 DEF RowsStay, Exists
<1>3. Deleting(s)' <=> Deleting(s)
  BY DEF Deleting
<1>4. tx[s].op = "publishDue" => tx[s].clock <= now'
  BY <1>1 DEF Entitled
<1> QED
  BY <1>2, <1>3, <1>4 DEF Entitled

LEMMA NoWriteKeepsEntitled ==
  ASSUME Inv, EveryoneEntitled, NEW t \in Connections, NEW r, tx' = [tx EXCEPT ![t] = r],
         UNCHANGED <<db, now>>, Entitled(t)'
  PROVE  EveryoneEntitled'
<1>1. RowsStay(t) /\ now' = now /\ now \in Times
  BY DEF RowsStay, db, Inv, TypeOK
<1>2. now <= now' /\ now' \in Times
  BY <1>1, ContentAssumption DEF ContentAssumption, Times
<1>3. \A s \in Connections \ {t} : tx'[s] = tx[s]
  BY MovesTo
<1>4. \A s \in Connections \ {t} : Entitled(s)'
  BY <1>1, <1>2, <1>3, OthersStayEntitled DEF EveryoneEntitled
<1> QED
  BY <1>4 DEF EveryoneEntitled

(* A step after which t has no operation.                                  *)
LEMMA RestingIsEntitled ==
  ASSUME Inv, EveryoneEntitled, NEW t \in Connections, NEW r, tx' = [tx EXCEPT ![t] = r],
         UNCHANGED <<db, now>>, r.op = "none", r.pc # "composing"
  PROVE  EveryoneEntitled'
<1>1. Entitled(t)'
  BY MovesTo DEF Entitled, Deleting
<1> QED
  BY <1>1, NoWriteKeepsEntitled

(* A step with which t goes on with its operation.                         *)
LEMMA GoingOnIsEntitled ==
  ASSUME Inv, EveryoneEntitled, NEW t \in Connections, NEW r, tx' = [tx EXCEPT ![t] = r],
         UNCHANGED <<db, now>>, tx[t].op # "none",
         r.op = tx[t].op, r.user = tx[t].user, r.doc = tx[t].doc, r.clock = tx[t].clock,
         r.next = tx[t].next \/ r.op # "create", r.pc # "composing",
         r.op = "delete" /\ r.pc \in {"lockChildren", "commit"} => Deleting(t)
  PROVE  EveryoneEntitled'
<1>1. Entitled(t) /\ tx'[t] = r /\ rows' = rows /\ now' = now
  BY MovesTo DEF EveryoneEntitled, db
<1>2. tx[t].pc = "composing" => tx[t].op = "none"
  BY DEF Inv, Shape
<1>3. Entitled(t)'
  BY <1>1, <1>2 DEF Entitled, Deleting, Exists
<1> QED
  BY <1>3, NoWriteKeepsEntitled

LEMMA RefuseKeepsEntitled ==
  ASSUME Inv, EveryoneEntitled, NEW t \in Connections, Refuse(t)
  PROVE  EveryoneEntitled'
<1>1. tx' = [tx EXCEPT ![t] = Idle] /\ UNCHANGED <<db, now>>
  BY DEF Refuse, Ends, Moves
<1>2. Idle.op = "none" /\ Idle.pc = "idle"
  BY DEF Idle
<1> QED
  BY <1>1, <1>2, RestingIsEntitled

LEMMA RequestKeepsEntitled ==
  ASSUME Inv, EveryoneEntitled, NEW t \in Connections, Request(t)
  PROVE  EveryoneEntitled'
<1>1. ASSUME NEW changes, Begins(t, changes)
      PROVE  /\ tx' = [tx EXCEPT ![t] = [changes EXCEPT !.started = ticks + 1, !.clock = now]]
             /\ UNCHANGED <<db, now>>
  <2> DEFINE r == [changes EXCEPT !.started = ticks + 1, !.clock = now]
  <2>1. tx' = [tx EXCEPT ![t] = r] /\ UNCHANGED <<db, locks, now>>
    BY <1>1 DEF Begins, Moves
  <2> HIDE DEF r
  <2> QED
    BY <2>1 DEF r
<1>2. ASSUME NEW u \in UserIds, NEW d \in Docs, OpenForm(t, u, d) PROVE EveryoneEntitled'
  <2> DEFINE r == [Idle EXCEPT !.pc = "composing", !.user = u, !.doc = d, !.form = rows[d]]
  <2>1. tx' = [tx EXCEPT ![t] = r] /\ UNCHANGED <<db, now>>
    BY <1>2 DEF OpenForm, Moves
  <2>2. r.op = "none" /\ r.user = u
    BY DEF Idle
  <2> HIDE DEF r
  <2>3. Entitled(t)'
    BY <2>1, <2>2, MovesTo DEF Entitled, Deleting
  <2> QED
    BY <2>1, <2>3, NoWriteKeepsEntitled
<1>3. ASSUME NEW u \in UserIds, NEW d \in Docs, BeginDelete(t, u, d) PROVE EveryoneEntitled'
  <2> DEFINE c == [Idle EXCEPT !.pc = "lockGroup", !.op = "delete", !.user = u,
                               !.doc = d, !.group = rows[d].group, !.at = d]
             r == [c EXCEPT !.started = ticks + 1, !.clock = now]
  <2>1. Begins(t, c)
    BY <1>3 DEF BeginDelete
  <2>2. tx' = [tx EXCEPT ![t] = r] /\ UNCHANGED <<db, now>>
    BY <2>1, <1>1
  <2>3. r.op = "delete" /\ r.user = u /\ r.pc = "lockGroup"
    BY DEF Idle
  <2> HIDE DEF r
  <2>4. Entitled(t)'
    BY <2>2, <2>3, MovesTo DEF Entitled, Deleting
  <2> QED
    BY <2>2, <2>4, NoWriteKeepsEntitled
<1>4. ASSUME NEW u \in UserIds, BeginCreate(t, u) PROVE EveryoneEntitled'
  <2>1. PICK type \in Types, locale \in Locales, sent \in Creations,
             group \in Groups \cup {None} :
          /\ Begins(t, [Idle EXCEPT
               !.pc = IF group # None THEN "lockGroup"
                      ELSE IF StampPublication(Parse(type, sent), now).parent # None
                           THEN "walk" ELSE "commit",
               !.op = "create", !.user = u, !.type = type, !.locale = locale,
               !.group = group, !.next = StampPublication(Parse(type, sent), now),
               !.at = StampPublication(Parse(type, sent), now).parent])
          /\ CanCreate(Actor(u), sent.status)
    BY <1>4 DEF BeginCreate
  <2> DEFINE state == StampPublication(Parse(type, sent), now)
  <2>2. state.status = sent.status
    <3>1. sent \in State
      BY ContentAssumption DEF ContentAssumption
    <3>2. Parse(type, sent) \in State /\ Parse(type, sent).status = sent.status
      BY <3>1 DEF Parse, State
    <3> QED
      BY <3>2 DEF StampPublication, State
  <2> HIDE DEF state
  <2> DEFINE step == IF group # None THEN "lockGroup"
                     ELSE IF state.parent # None THEN "walk" ELSE "commit"
             c == [Idle EXCEPT !.pc = step, !.op = "create", !.user = u, !.type = type,
                     !.locale = locale, !.group = group, !.next = state,
                     !.at = state.parent]
             r == [c EXCEPT !.started = ticks + 1, !.clock = now]
  <2>3. Begins(t, c)
    BY <2>1 DEF state
  <2>4. tx' = [tx EXCEPT ![t] = r] /\ UNCHANGED <<db, now>>
    BY <2>3, <1>1
  <2>5. r.op = "create" /\ r.user = u /\ r.next = state /\ r.pc = step
    BY DEF Idle
  <2>6. step # "composing"
    OBVIOUS
  <2> HIDE DEF r, step
  <2>7. Entitled(t)'
    BY <2>1, <2>2, <2>4, <2>5, <2>6, MovesTo DEF Entitled, Deleting
  <2> QED
    BY <2>4, <2>7, NoWriteKeepsEntitled
<1>5. CASE BeginUpdate(t)
  <2>1. PICK p \in Patches :
          Begins(t, [tx[t] EXCEPT !.pc = "lockRow", !.op = "update",
                                  !.at = tx[t].doc, !.patch = p])
    BY <1>5 DEF BeginUpdate
  <2> DEFINE c == [tx[t] EXCEPT !.pc = "lockRow", !.op = "update",
                                !.at = tx[t].doc, !.patch = p]
             r == [c EXCEPT !.started = ticks + 1, !.clock = now]
  <2>2. tx' = [tx EXCEPT ![t] = r] /\ UNCHANGED <<db, now>>
    BY <2>1, <1>1
  <2>3. tx[t].user \in UserIds
    BY <1>5 DEF BeginUpdate, EveryoneEntitled, Entitled
  <2>4. r.op = "update" /\ r.user = tx[t].user
    BY DEF Inv, TypeOK, Transaction
  <2> HIDE DEF r
  <2>5. Entitled(t)'
    BY <2>2, <2>3, <2>4, MovesTo DEF Entitled, Deleting
  <2> QED
    BY <2>2, <2>5, NoWriteKeepsEntitled
<1>6. CASE BeginRestore(t)
  <2>1. PICK p \in revisions[tx[t].doc] :
          Begins(t, [tx[t] EXCEPT !.pc = "lockRow", !.op = "restore",
                                  !.at = tx[t].doc, !.patch = p.state])
    BY <1>6 DEF BeginRestore
  <2> DEFINE c == [tx[t] EXCEPT !.pc = "lockRow", !.op = "restore",
                                !.at = tx[t].doc, !.patch = p.state]
             r == [c EXCEPT !.started = ticks + 1, !.clock = now]
  <2>2. tx' = [tx EXCEPT ![t] = r] /\ UNCHANGED <<db, now>>
    BY <2>1, <1>1
  <2>3. tx[t].user \in UserIds
    BY <1>6 DEF BeginRestore, EveryoneEntitled, Entitled
  <2>4. r.op = "restore" /\ r.user = tx[t].user
    BY DEF Inv, TypeOK, Transaction
  <2> HIDE DEF r
  <2>5. Entitled(t)'
    BY <2>2, <2>3, <2>4, MovesTo DEF Entitled, Deleting
  <2> QED
    BY <2>2, <2>5, NoWriteKeepsEntitled
<1>7. CASE BeginPublishDue(t)
  <2> DEFINE due == {<<rows[d].state.date, d>> : d \in {e \in Docs : IsDue(e, now)}}
  <2>1. \E d \in NextDue(due) :
          Begins(t, [Idle EXCEPT !.pc = "claim", !.op = "publishDue",
                                 !.due = due, !.at = d])
    BY <1>7 DEF BeginPublishDue
  <2> HIDE DEF due
  <2>2. PICK d \in NextDue(due) :
          Begins(t, [Idle EXCEPT !.pc = "claim", !.op = "publishDue",
                                 !.due = due, !.at = d])
    BY <2>1
  <2> DEFINE c == [Idle EXCEPT !.pc = "claim", !.op = "publishDue",
                               !.due = due, !.at = d]
             r == [c EXCEPT !.started = ticks + 1, !.clock = now]
  <2>3. tx' = [tx EXCEPT ![t] = r] /\ UNCHANGED <<db, now>>
    BY <2>2, <1>1
  <2>4. r.op = "publishDue" /\ r.pc = "claim" /\ r.clock = now
    BY DEF Idle
  <2>5. now <= now' /\ now' = now
    BY <2>3, ContentAssumption DEF ContentAssumption, Inv, TypeOK, Times
  <2> HIDE DEF r
  <2>6. Entitled(t)'
    BY <2>3, <2>4, <2>5, MovesTo DEF Entitled, Deleting
  <2> QED
    BY <2>3, <2>6, NoWriteKeepsEntitled
<1> QED
  BY <1>2, <1>3, <1>4, <1>5, <1>6, <1>7 DEF Request

LEMMA StatementKeepsEntitled ==
  ASSUME Inv, EveryoneEntitled, NEW t \in Connections, ~Refuse(t),
         \/ JoinGroup(t) \/ LockAncestor(t) \/ MeasureHeight(t) \/ LockForUpdate(t)
         \/ LockGroupOfDeleted(t) \/ LockForDelete(t) \/ LockChild(t) \/ Claim(t)
         \/ Announce(t)
  PROVE  EveryoneEntitled'
<1>1. CASE JoinGroup(t)
  <2> DEFINE step == IF tx[t].at # None THEN "walk" ELSE "commit"
             r == [tx[t] EXCEPT !.pc = step, !.members = MembersOf(tx[t].group)]
  <2>1. tx' = [tx EXCEPT ![t] = r] /\ tx[t].op = "create" /\ UNCHANGED <<db, now>>
    BY <1>1 DEF JoinGroup, Moves
  <2>2. /\ r.op = tx[t].op /\ r.user = tx[t].user /\ r.doc = tx[t].doc
        /\ r.clock = tx[t].clock /\ r.next = tx[t].next /\ r.pc # "composing"
    BY DEF Inv, TypeOK, Transaction
  <2> HIDE DEF r
  <2> QED
    BY <2>1, <2>2, GoingOnIsEntitled
<1>2. CASE LockAncestor(t)
  <2> DEFINE above == rows[tx[t].at].state.parent
             step  == IF above = None THEN "measure" ELSE "walk"
             r     == [tx[t] EXCEPT !.pc = step, !.at = above, !.depth = @ + 1]
  <2>1. tx' = [tx EXCEPT ![t] = r] /\ tx[t].pc = "walk" /\ UNCHANGED <<db, now>>
    BY <1>2 DEF LockAncestor, Moves
  <2>2. /\ r.op = tx[t].op /\ r.user = tx[t].user /\ r.doc = tx[t].doc
        /\ r.clock = tx[t].clock /\ r.next = tx[t].next /\ r.pc \in {"walk", "measure"}
    BY DEF Inv, TypeOK, Transaction
  <2> HIDE DEF r
  <2>3. tx[t].op \in {"create", "update", "restore"}
    BY <2>1 DEF Inv, Shape
  <2> QED
    BY <2>1, <2>2, <2>3, GoingOnIsEntitled
<1>3. CASE MeasureHeight(t)
  <2> DEFINE r == [tx[t] EXCEPT !.pc = "commit"]
  <2>1. tx' = [tx EXCEPT ![t] = r] /\ tx[t].pc = "measure" /\ UNCHANGED <<db, now>>
    BY <1>3 DEF MeasureHeight, Moves
  <2>2. /\ r.op = tx[t].op /\ r.user = tx[t].user /\ r.doc = tx[t].doc
        /\ r.clock = tx[t].clock /\ r.next = tx[t].next /\ r.pc = "commit"
    BY DEF Inv, TypeOK, Transaction
  <2> HIDE DEF r
  <2>3. tx[t].op \in {"create", "update", "restore"}
    BY <2>1 DEF Inv, Shape
  <2> QED
    BY <2>1, <2>2, <2>3, GoingOnIsEntitled
<1>4. CASE LockForUpdate(t)
  <2> DEFINE current == rows[tx[t].doc]
             next    == Derive(t, current)
             moves   == next.parent \notin {None, current.state.parent}
             step    == IF moves THEN "walk" ELSE "commit"
             at      == IF moves THEN next.parent ELSE None
             r == [tx[t] EXCEPT !.pc = step, !.at = at, !.cur = current,
                     !.next = next, !.type = current.type, !.locale = current.locale]
  <2>1. /\ tx' = [tx EXCEPT ![t] = r] /\ tx[t].op \in {"update", "restore"}
        /\ UNCHANGED <<db, now>>
    BY <1>4 DEF LockForUpdate, Moves
  <2>2. /\ r.op = tx[t].op /\ r.user = tx[t].user /\ r.doc = tx[t].doc
        /\ r.clock = tx[t].clock /\ r.pc \in {"walk", "commit"}
    BY DEF Inv, TypeOK, Transaction
  <2> HIDE DEF r
  <2> QED
    BY <2>1, <2>2, GoingOnIsEntitled
<1>5. CASE LockGroupOfDeleted(t)
  <2> DEFINE r == [tx[t] EXCEPT !.pc = "lockRow"]
  <2>1. tx' = [tx EXCEPT ![t] = r] /\ tx[t].op = "delete" /\ UNCHANGED <<db, now>>
    BY <1>5 DEF LockGroupOfDeleted, Moves
  <2>2. /\ r.op = tx[t].op /\ r.user = tx[t].user /\ r.doc = tx[t].doc
        /\ r.clock = tx[t].clock /\ r.next = tx[t].next /\ r.pc = "lockRow"
    BY DEF Inv, TypeOK, Transaction
  <2> HIDE DEF r
  <2> QED
    BY <2>1, <2>2, GoingOnIsEntitled
<1>6. CASE LockForDelete(t)
  <2> DEFINE d == tx[t].doc
  <2>1. PICK c \in SomeOf(ChildrenOf(d)) :
          Moves(t, [tx[t] EXCEPT
            !.pc = IF c = None THEN "commit" ELSE "lockChildren",
            !.at = c, !.cur = rows[d], !.children = ChildrenOf(d)])
    BY <1>6 DEF LockForDelete
  <2> DEFINE step == IF c = None THEN "commit" ELSE "lockChildren"
             r == [tx[t] EXCEPT !.pc = step, !.at = c, !.cur = rows[d],
                     !.children = ChildrenOf(d)]
  <2>2. /\ tx' = [tx EXCEPT ![t] = r] /\ tx[t].op = "delete" /\ ~DeleteRefused(t)
        /\ UNCHANGED <<db, now>>
    BY <1>6, <2>1 DEF LockForDelete, Moves
  <2>3. r.op = "delete" /\ r.user = tx[t].user /\ r.doc = d
    BY <2>2 DEF Inv, TypeOK, Transaction
  <2>4. tx[t].user \in UserIds
    BY <2>2 DEF EveryoneEntitled, Entitled
  <2>5. Exists(d) => CanDelete(Actor(tx[t].user), rows[d].author, rows[d].state.status)
    BY <2>2 DEF DeleteRefused
  <2> HIDE DEF r
  <2>6. tx'[t] = r /\ rows' = rows
    BY <2>2, MovesTo DEF db
  <2>7. Entitled(t)'
    BY <2>3, <2>4, <2>5, <2>6 DEF Entitled, Exists
  <2> QED
    BY <2>2, <2>7, NoWriteKeepsEntitled
<1>7. CASE LockChild(t)
  <2> DEFINE left == tx[t].children \ {tx[t].at}
             orphaned == IF tx[t].at \in ChildrenOf(tx[t].doc)
                         THEN tx[t].orphaned \cup {tx[t].at} ELSE tx[t].orphaned
  <2>1. PICK e \in SomeOf(left) :
          Moves(t, [tx[t] EXCEPT
            !.pc = IF e = None THEN "commit" ELSE "lockChildren",
            !.at = e, !.children = left,
            !.orphaned = IF tx[t].at \in ChildrenOf(tx[t].doc)
                         THEN @ \cup {tx[t].at} ELSE @])
    BY <1>7 DEF LockChild
  <2> DEFINE step == IF e = None THEN "commit" ELSE "lockChildren"
             r == [tx[t] EXCEPT !.pc = step, !.at = e, !.children = left,
                                !.orphaned = orphaned]
  <2>2. tx' = [tx EXCEPT ![t] = r] /\ tx[t].pc = "lockChildren" /\ UNCHANGED <<db, now>>
    BY <1>7, <2>1 DEF LockChild, Moves
  <2>3. /\ r.op = tx[t].op /\ r.user = tx[t].user /\ r.doc = tx[t].doc
        /\ r.clock = tx[t].clock /\ r.next = tx[t].next /\ r.pc \in {"lockChildren", "commit"}
    BY DEF Inv, TypeOK, Transaction
  <2> HIDE DEF r
  <2>4. tx[t].op = "delete" /\ Deleting(t)
    BY <2>2 DEF Inv, Shape, Deleting
  <2> QED
    BY <2>2, <2>3, <2>4, GoingOnIsEntitled
<1>8. CASE Claim(t)
  <2> DEFINE left == tx[t].due \ Earliest(tx[t].due)
             claimed == IF StillDue(t, tx[t].at)
                        THEN Append(tx[t].claimed, tx[t].at) ELSE tx[t].claimed
  <2>1. PICK e \in NextDue(left) :
          Moves(t, [tx[t] EXCEPT !.pc = IF e = None THEN "commit" ELSE "claim",
                                 !.due = left, !.at = e,
                                 !.claimed = IF StillDue(t, tx[t].at)
                                             THEN Append(@, tx[t].at) ELSE @])
    BY <1>8 DEF Claim
  <2> DEFINE step == IF e = None THEN "commit" ELSE "claim"
             r == [tx[t] EXCEPT !.pc = step, !.due = left, !.at = e, !.claimed = claimed]
  <2>2. tx' = [tx EXCEPT ![t] = r] /\ tx[t].pc = "claim" /\ UNCHANGED <<db, now>>
    BY <1>8, <2>1 DEF Claim, Moves
  <2>3. /\ r.op = tx[t].op /\ r.user = tx[t].user /\ r.doc = tx[t].doc
        /\ r.clock = tx[t].clock /\ r.next = tx[t].next /\ r.pc \in {"claim", "commit"}
    BY DEF Inv, TypeOK, Transaction
  <2> HIDE DEF r
  <2>4. tx[t].op = "publishDue"
    BY <2>2 DEF Inv, Shape
  <2> QED
    BY <2>2, <2>3, <2>4, GoingOnIsEntitled
<1>9. CASE Announce(t)
  <2> DEFINE r == IF Len(tx[t].outbox) <= 1 THEN Idle
                  ELSE [tx[t] EXCEPT !.outbox = Tail(tx[t].outbox)]
  <2>1. tx' = [tx EXCEPT ![t] = r] /\ tx[t].pc = "announce" /\ UNCHANGED <<db, now>>
    BY <1>9 DEF Announce, Moves
  <2>2. tx[t].op = "none"
    BY <2>1 DEF Inv, Shape
  <2>3. r.op = "none" /\ r.pc \in {"idle", "announce"}
    BY <2>1, <2>2 DEF Inv, TypeOK, Transaction, Idle
  <2> HIDE DEF r
  <2> QED
    BY <2>1, <2>3, RestingIsEntitled
<1> QED
  BY <1>1, <1>2, <1>3, <1>4, <1>5, <1>6, <1>7, <1>8, <1>9

(* A commit writes the rows its transaction holds, and no others.          *)
LEMMA WritesStay ==
  ASSUME Inv, NEW t \in Connections, Writes(t)
  PROVE  RowsStay(t) /\ now' = now /\ \E events : Commits(t, events)
<1>1. ASSUME NEW d \in Docs, NEW g \in Groups, Creates(t, d, g)
      PROVE  RowsStay(t) /\ \E events : Commits(t, events)
  <2> DEFINE row == [type |-> tx[t].type, locale |-> tx[t].locale, group |-> g,
                     author |-> tx[t].user, version |-> 1, state |-> tx[t].next]
  <2>1. d \notin born /\ rows' = [rows EXCEPT ![d] = row]
        /\ \E events : Commits(t, events)
    BY <1>1 DEF Creates
  <2> HIDE DEF row
  <2> QED
    BY <2>1 DEF RowsStay, Inv, TypeOK
<1>2. ASSUME Updates(t)
      PROVE  RowsStay(t) /\ \E events : Commits(t, events)
  <2> DEFINE row == [tx[t].cur EXCEPT !.state = tx[t].next, !.version = @ + 1]
  <2>1. rows' = [rows EXCEPT ![tx[t].doc] = row] /\ \E events : Commits(t, events)
    BY <1>2, UpdateFacts
  <2>2. rowLock[tx[t].doc] = t
    BY <1>2 DEF Updates, CommitUpdate, Inv, Protected, Writing
  <2> HIDE DEF row
  <2> QED
    BY <2>1, <2>2 DEF RowsStay, Inv, TypeOK
<1>3. ASSUME Removes(t)
      PROVE  RowsStay(t) /\ \E events : Commits(t, events)
  <2>1. /\ \A e \in Docs \ {tx[t].doc} : rows'[e] = rows[e] \/ e \in tx[t].orphaned
        /\ \E events : Commits(t, events)
    BY <1>3, RemoveFacts
  <2>2. rowLock[tx[t].doc] = t /\ \A c \in tx[t].orphaned : rowLock[c] = t
    BY <1>3 DEF Removes, CommitDelete, Inv, Protected, Deleting
  <2> QED
    BY <2>1, <2>2 DEF RowsStay
<1>4. ASSUME CommitPublishDue(t)
      PROVE  RowsStay(t) /\ \E events : Commits(t, events)
  <2>1. /\ \A d \in Docs \ Claimed(t) : rows'[d] = rows[d]
        /\ \E events : Commits(t, events)
    BY <1>4, PublishFacts
  <2>2. \A d \in Claimed(t) : rowLock[d] = t
    BY DEF Inv, Protected, Claimed
  <2> QED
    BY <2>1, <2>2 DEF RowsStay
<1>5. RowsStay(t) /\ \E events : Commits(t, events)
  BY <1>1, <1>2, <1>3, <1>4 DEF Writes
<1> QED
  BY <1>5 DEF Commits

LEMMA EntitledKept == Inv /\ EveryoneEntitled /\ [Next]_vars => EveryoneEntitled'
<1> SUFFICES ASSUME Inv, EveryoneEntitled, [Next]_vars PROVE EveryoneEntitled'
  OBVIOUS
<1>1. ASSUME NEW t \in Connections, Writes(t) PROVE EveryoneEntitled'
  <2>1. RowsStay(t) /\ now' = now
    BY <1>1, WritesStay
  <2>2. PICK events : Commits(t, events)
    BY <1>1, WritesStay
  <2> DEFINE r == [Idle EXCEPT !.pc = "announce", !.outbox = events]
  <2>3. tx' = [tx EXCEPT ![t] = r]
    BY <2>2 DEF Commits, Moves
  <2>4. r.op = "none" /\ r.pc = "announce"
    BY DEF Idle
  <2> HIDE DEF r
  <2>5. tx'[t] = r /\ \A s \in Connections \ {t} : tx'[s] = tx[s]
    BY <2>3, MovesTo
  <2>6. Entitled(t)'
    BY <2>4, <2>5 DEF Entitled, Deleting
  <2>7. now <= now' /\ now' \in Times
    BY <2>1, ContentAssumption DEF ContentAssumption, Inv, TypeOK, Times
  <2>8. \A s \in Connections \ {t} : Entitled(s)'
    BY <2>1, <2>5, <2>7, OthersStayEntitled DEF EveryoneEntitled
  <2> QED
    BY <2>6, <2>8 DEF EveryoneEntitled
<1>2. ASSUME NEW t \in Connections, Request(t) PROVE EveryoneEntitled'
  BY <1>2, RequestKeepsEntitled
<1>3. ASSUME NEW t \in Connections, Proceed(t) PROVE EveryoneEntitled'
  <2>1. CASE Refuse(t)
    BY <2>1, RefuseKeepsEntitled
  <2>2. CASE ~Refuse(t) /\ (CommitCreate(t) \/ CommitUpdate(t) \/ CommitDelete(t)
                             \/ CommitPublishDue(t))
    BY <1>1, <2>2, CreatesAtCommit DEF Writes, Updates, Removes
  <2>3. CASE RefuseParent(t) \/ BreakDeadlock(t)
    BY <2>3, RefuseKeepsEntitled DEF RefuseParent, BreakDeadlock
  <2> QED
    BY <1>3, <2>1, <2>2, <2>3, StatementKeepsEntitled DEF Proceed
<1>4. ASSUME NEW t \in Connections, Abort(t) PROVE EveryoneEntitled'
  BY <1>4, RefuseKeepsEntitled DEF Abort
<1>5. CASE Tick
  <2>1. tx' = tx /\ rows' = rows /\ now' = now + 1
    BY <1>5 DEF Tick, db
  <2>2. \A t \in Connections : tx[t].clock \in Nat
    BY ContentAssumption DEF ContentAssumption, Inv, TypeOK, Transaction, Times
  <2>3. now \in Nat
    BY ContentAssumption DEF ContentAssumption, Inv, TypeOK, Times
  <2>4. \A t \in Connections : tx[t].clock <= now => tx[t].clock <= now'
    BY <2>1, <2>2, <2>3
  <2> QED
    BY <2>1, <2>4 DEF EveryoneEntitled, Entitled, Deleting, Exists
<1>6. CASE UNCHANGED <<rows, tx, now>>
  BY <1>6 DEF EveryoneEntitled, Entitled, Deleting, Exists
<1> QED
  BY <1>2, <1>3, <1>4, <1>5, <1>6 DEF Next, DeleteMedia, Quiet, vars

LEMMA EntitledInit == Init => EveryoneEntitled
BY DEF Init, EveryoneEntitled, Entitled, Deleting, Idle

-----------------------------------------------------------------------------
(* What module Documents asks of the documents after a write.              *)

Whole == Atomic!Sound(rows)

(* The chain of parents Documents follows is the path of the document.     *)
LEMMA ChainIsPath ==
  ASSUME Inv, SchemaHeld, PathsResolve, NEW d \in Docs, Exists(d)
  PROVE  Atomic!Resolves(rows, d)
<1> DEFINE A  == {e \in Docs : Exists(e)} \cup {None}
           up == [x \in A |-> IF x = None THEN None ELSE rows[x].state.parent]
           N  == MAX_HIERARCHY_DEPTH
           P  == PathOf(d)
           On(c, k) == c[k] = P[k] /\ P[k] \in A
           Chained(c) == c = [k \in 0..N |-> IF k = 0 THEN d
                                ELSE IF c[k - 1] = None THEN None
                                     ELSE rows[c[k - 1]].state.parent]
<1>1. N \in Nat \ {0}
  BY ContentAssumption DEF ContentAssumption
<1>2. up \in [A -> A] /\ d \in A
  <2>1. \A x \in Docs : Exists(x) => rows[x].state.parent \in A
    BY DEF SchemaHeld, Kin
  <2> QED
    BY <2>1
<1>3. \A x \in A : up[x] = IF x = None THEN None ELSE rows[x].state.parent
  OBVIOUS
<1>4. /\ P[0] = d
      /\ \A k \in 1..N : P[k] = IF P[k - 1] = None THEN None
                                ELSE IF Exists(P[k - 1])
                                     THEN rows[P[k - 1]].state.parent ELSE None
  BY PathSteps
<1>5. \A x \in A : x # None => Exists(x)
  OBVIOUS
<1>6. P[N] = None
  BY DEF PathsResolve
<1> HIDE DEF up, A, N, P
<1>7. PICK f \in [0..N -> A] : f = [k \in 0..N |-> IF k = 0 THEN d ELSE up[f[k - 1]]]
  <2>1. N \in Nat /\ up \in [A -> A] /\ d \in A
    BY <1>1, <1>2
  <2> QED
    BY SMTT(60), <2>1, IterationExists
<1>8. Chained(f)
  <2>1. \A k \in 0..N : k # 0 => f[k - 1] \in A
    <3>1. \A k \in 0..N : k # 0 => k - 1 \in 0..N
      BY <1>1
    <3> QED
      BY <1>7, <3>1
  <2>2. \A k \in 0..N : f[k] = IF k = 0 THEN d ELSE up[f[k - 1]]
    BY <1>7
  <2>3. \A k \in 0..N : f[k] = IF k = 0 THEN d
                               ELSE IF f[k - 1] = None THEN None
                                    ELSE rows[f[k - 1]].state.parent
    BY <1>3, <2>1, <2>2
  <2> QED
    BY <1>7, <2>3
<1>9. ASSUME NEW c, Chained(c) PROVE c[N] = None
  <2> DEFINE Bad == {k \in 0..N : ~On(c, k)}
  <2>1. \A k \in 0..N : c[k] = IF k = 0 THEN d
                               ELSE IF c[k - 1] = None THEN None
                                    ELSE rows[c[k - 1]].state.parent
    BY <1>9
  <2>2. On(c, 0)
    BY <1>1, <1>2, <1>4, <2>1
  <2>3. ASSUME NEW k \in 1..N, On(c, k - 1) PROVE On(c, k)
    <3>1. k \in 0..N /\ k # 0
      BY <1>1
    <3>2. up[P[k - 1]] \in A
      BY <1>2, <2>3
    <3> QED
      BY <1>3, <1>4, <1>5, <2>1, <2>3, <3>1, <3>2
  <2> HIDE DEF On
  <2>4. ASSUME Bad # {} PROVE FALSE
    <3>1. Bad \in SUBSET Nat
      BY <1>1
    <3>2. PICK k \in Bad : \A m \in Bad : k <= m
      BY <2>4, <3>1, LeastNatural
    <3>3. k \in 1..N /\ k - 1 \in 0..N /\ k - 1 \notin Bad
      BY <1>1, <2>2, <3>2
    <3> QED
      BY <2>3, <3>2, <3>3
  <2>5. On(c, N)
    BY <1>1, <2>4
  <2> QED
    BY <1>6, <2>5 DEF On
<1>10. \A c : c = (CHOOSE b : Chained(b)) => c[N] = None
  <2> HIDE DEF Chained
  <2>1. Chained(CHOOSE b : Chained(b))
    BY <1>8
  <2> QED
    BY <1>9, <2>1
<1> QED
  BY <1>10 DEF Atomic!Resolves, N

LEMMA WhatIsHeldIsWhole ==
  ASSUME Inv, GroupsHeld, SchemaHeld, PathsResolve, ReferencesHold
  PROVE  Whole
<1>1. Atomic!Distinct(rows)
  BY DEF SchemaHeld, Apart, Exists, Atomic!Distinct
<1>2. \A d \in Docs : rows[d] # Absent => Atomic!Resolves(rows, d)
  BY ChainIsPath DEF Exists
<1>3. ASSUME NEW d \in Docs, rows[d] # Absent, rows[d].state.parent # None
      PROVE  /\ rows[rows[d].state.parent] # Absent
             /\ rows[rows[d].state.parent].type = rows[d].type
             /\ rows[rows[d].state.parent].locale = rows[d].locale
  BY <1>3 DEF SchemaHeld, Kin, Exists
<1>4. Atomic!WellParented(rows)
  BY <1>2, <1>3 DEF Atomic!WellParented
<1>5. \A d \in Docs : rows[d] # Absent => rows[d].state.refs \subseteq media
  BY DEF ReferencesHold, Exists
<1> QED
  BY <1>1, <1>4, <1>5 DEF Whole, Atomic!Sound

LEMMA WholeNext ==
  ASSUME Whole', UNCHANGED media
  PROVE  Atomic!Sound(rows')
BY DEF Whole, Atomic!Sound, Atomic!Distinct, Atomic!WellParented, Atomic!Resolves

LEMMA SameCardinality == \A S : Atomic!Cardinality(S) = Cardinality(S)
BY DEF Atomic!Cardinality, Cardinality

-----------------------------------------------------------------------------
(* Revisions as module Documents sees them, without their moments.         *)

Faces(history) == {[version |-> r.version, state |-> r.state] : r \in history}

LEMMA FacesCount ==
  ASSUME NEW history, IsFiniteSet(history), Numbered(history)
  PROVE  /\ IsFiniteSet(Faces(history))
         /\ Cardinality(Faces(history)) = Cardinality(history)
<1> DEFINE f == [r \in history |-> [version |-> r.version, state |-> r.state]]
<1>1. f \in [history -> Faces(history)]
  BY DEF Faces
<1>2. ASSUME NEW r \in history, NEW s \in history, f[r] = f[s] PROVE r = s
  <2>1. f[r].version = r.version /\ f[s].version = s.version
    OBVIOUS
  <2> HIDE DEF f
  <2> QED
    BY <1>2, <2>1 DEF Numbered
<1>3. \A v \in Faces(history) : \E r \in history : f[r] = v
  BY DEF Faces
<1> HIDE DEF f
<1>4. f \in Bijection(history, Faces(history))
  BY <1>1, <1>2, <1>3, Fun_IsBij
<1>5. ExistsBijection(history, Faces(history))
  BY <1>4 DEF ExistsBijection
<1> QED
  BY <1>5, FS_Bijection

LEMMA KeepsWhatItSupersedes ==
  ASSUME Inv, HistoryHeld, NEW t \in Connections, NEW d \in Docs, rows[d] \in Row,
         revisions'[d] = Superseded(t, d, rows[d])
  PROVE  Atomic!Keeps(d)
<1> DEFINE history == Grown(t, d)
           kept == Faces(revisions[d]) \cup
                     {[version |-> rows[d].version, state |-> rows[d].state]}
<1>1. /\ history \in SUBSET Revision /\ IsFiniteSet(history) /\ Numbered(history)
      /\ Cardinality(history) <= REVISION_LIMIT + 1
  BY GrownFacts
<1>2. Faces(history) = kept
  <2> DEFINE newest == [version |-> rows[d].version, state |-> rows[d].state,
                        at |-> tx[t].started]
  <2>1. newest.version = rows[d].version /\ newest.state = rows[d].state
    OBVIOUS
  <2>2. history = revisions[d] \cup {newest}
    BY DEF Grown
  <2> HIDE DEF newest, history
  <2>3. Faces(history) =
          Faces(revisions[d]) \cup {[version |-> newest.version, state |-> newest.state]}
    BY <2>2 DEF Faces
  <2> QED
    BY <2>1, <2>3
<1>3. revisions'[d] = Prune(history)
  BY DEF Superseded, Grown
<1> HIDE DEF history
<1>4. /\ Prune(history) \subseteq history /\ IsFiniteSet(Prune(history))
      /\ Cardinality(Prune(history)) =
           IF Cardinality(history) <= REVISION_LIMIT THEN Cardinality(history)
           ELSE REVISION_LIMIT
  BY <1>1, PruneFacts
<1>5. Numbered(Prune(history))
  BY <1>1, <1>4 DEF Numbered
<1>6. /\ Cardinality(Faces(history)) = Cardinality(history)
      /\ Cardinality(Faces(Prune(history))) = Cardinality(Prune(history))
  BY <1>1, <1>4, <1>5, FacesCount
<1>7. Faces(Prune(history)) \subseteq Faces(history)
  BY <1>4 DEF Faces
<1>8. /\ Faces(revisions'[d]) \subseteq kept
      /\ Atomic!Cardinality(Faces(revisions'[d])) =
           IF Atomic!Cardinality(kept) <= REVISION_LIMIT THEN Atomic!Cardinality(kept)
           ELSE REVISION_LIMIT
  BY <1>2, <1>3, <1>4, <1>6, <1>7, SameCardinality
<1> QED
  BY <1>8 DEF Atomic!Keeps, Faces

-----------------------------------------------------------------------------
(* Both modules decide by the same rules.                                  *)

LEMMA SameRules ==
  ASSUME NEW actor, NEW owner, NEW current, NEW next
  PROVE  /\ CanCreate(actor, next) => Atomic!CanCreate(actor, next)
         /\ CanWrite(actor, owner, current, next) =>
              Atomic!CanWrite(actor, owner, current, next)
         /\ CanDelete(actor, owner, current) => Atomic!CanDelete(actor, owner, current)
<1>1. /\ Atomic!CapabilitiesFor = CapabilitiesFor
      /\ Atomic!AnyCapability = AnyCapability
      /\ Atomic!OwnCapability = OwnCapability
  BY DEF Atomic!CapabilitiesFor, CapabilitiesFor, Atomic!AnyCapability, AnyCapability,
         Atomic!OwnCapability, OwnCapability, Atomic!Roles, Roles,
         Atomic!SUBSCRIBER, SUBSCRIBER, Atomic!CONTRIBUTOR, CONTRIBUTOR,
         Atomic!AUTHOR, AUTHOR, Atomic!EDITOR, EDITOR,
         Atomic!ADMINISTRATOR, ADMINISTRATOR
<1>2. \A operation, holder : Allows(operation, actor, holder) <=>
                             Atomic!Allows(operation, actor, holder)
  BY <1>1 DEF Allows, Atomic!Allows, Holds, Atomic!Holds
<1>3. TouchesPublic(current, next) <=> Atomic!TouchesPublic(current, next)
  BY DEF TouchesPublic, Atomic!TouchesPublic, PublishableStatuses,
         Atomic!PublishableStatuses
<1>4. Atomic!PublishableStatuses = PublishableStatuses
  BY DEF Atomic!PublishableStatuses, PublishableStatuses
<1> QED
  BY <1>2, <1>3, <1>4
  DEF CanCreate, Atomic!CanCreate, CanWrite, Atomic!CanWrite, CanDelete, Atomic!CanDelete

-----------------------------------------------------------------------------
(* Each commit is a step of module Documents.                              *)

LEMMA TimeStands ==
  ASSUME [Next]_vars
  PROVE  Tick \/ now' = now
<1>1. ASSUME NEW t \in Connections, Request(t) PROVE now' = now
  BY ZenonT(60), <1>1 DEF Request, OpenForm, BeginCreate, BeginDelete, BeginUpdate,
              BeginRestore, BeginPublishDue, Begins
<1>2. ASSUME NEW t \in Connections, Proceed(t) PROVE now' = now
  <2>1. CASE JoinGroup(t) \/ CommitCreate(t) \/ RefuseParent(t) \/ LockAncestor(t)
               \/ MeasureHeight(t) \/ LockForUpdate(t) \/ CommitUpdate(t)
    BY <2>1 DEF JoinGroup, CommitCreate, RefuseParent, LockAncestor, MeasureHeight,
                LockForUpdate, CommitUpdate, Commits, Refuse
  <2>2. CASE LockGroupOfDeleted(t) \/ LockForDelete(t) \/ LockChild(t) \/ CommitDelete(t)
               \/ Claim(t) \/ CommitPublishDue(t) \/ Announce(t) \/ BreakDeadlock(t)
    BY <2>2 DEF LockGroupOfDeleted, LockForDelete, LockChild, CommitDelete, Claim,
                CommitPublishDue, Announce, BreakDeadlock, Commits, Refuse
  <2> QED
    BY <1>2, <2>1, <2>2 DEF Proceed
<1>3. ASSUME NEW t \in Connections, Abort(t) PROVE now' = now
  BY <1>3 DEF Abort, Refuse
<1> QED
  BY <1>1, <1>2, <1>3 DEF Next, DeleteMedia, Quiet, vars

(* Whoever commits was about to.                                           *)
Asking == {tx[t].user : t \in {c \in Connections : tx[c].pc = "commit"}}

LEMMA OneDocument ==
  ASSUME NEW d \in Docs, NEW u \in UserIds,
         \/ rows'[d] # Absent /\ Atomic!Create(d, u, rows'[d])
         \/ rows'[d] # Absent /\ Atomic!Save(d, u, rows'[d].state)
         \/ Atomic!Remove(d, u)
  PROVE  Atomic!Next
BY DEF Atomic!Next

LEMMA CreatesAtomically ==
  ASSUME Inv, EveryoneEntitled, Atomic!Sound(rows'), now' = now,
         NEW t \in Connections, NEW d \in Docs, NEW g \in Groups, Creates(t, d, g)
  PROVE  Atomic!Next
<1> DEFINE u   == tx[t].user
           row == [type |-> tx[t].type, locale |-> tx[t].locale, group |-> g,
                   author |-> u, version |-> 1, state |-> tx[t].next]
<1>1. /\ u \in UserIds /\ u \in Asking /\ ~Exists(d) /\ row \in Row
      /\ CanCreate(Actor(u), row.state.status)
  BY DEF Creates, Inv, Shape, Known, EveryoneEntitled, Entitled, Row, Asking
<1>2. rows' = [rows EXCEPT ![d] = row] /\ UNCHANGED <<media, revisions>>
  BY DEF Creates
<1>3. row.version = 1 /\ row.author = u
  OBVIOUS
<1> HIDE DEF row
<1>4. rows'[d] = row /\ row # Absent
  BY <1>1, <1>2, NoValues DEF Inv, TypeOK
<1>5. Atomic!CanCreate(Actor(u), row.state.status)
  BY <1>1, SameRules
<1>6. Atomic!Create(d, u, row)
  BY <1>1, <1>2, <1>3, <1>5
  DEF Atomic!Create, Atomic!Exists, Exists, Atomic!Actor, Actor, Asking
<1>7. rows'[d] # Absent /\ Atomic!Create(d, u, rows'[d])
  BY <1>4, <1>6
<1> QED
  BY <1>1, <1>7, OneDocument

LEMMA UpdatesAtomically ==
  ASSUME Inv, HistoryHeld, EveryoneEntitled, Atomic!Sound(rows'), now' = now,
         NEW t \in Connections, Updates(t)
  PROVE  Atomic!Next
<1>0. PICK u, d : u = tx[t].user /\ d = tx[t].doc OBVIOUS
<1> DEFINE row == [tx[t].cur EXCEPT !.state = tx[t].next, !.version = @ + 1]
<1>1. /\ d \in Docs /\ rows[d] = tx[t].cur /\ rows[d] \in Row
      /\ row \in Row /\ row.state = tx[t].next
      /\ rows' = [rows EXCEPT ![d] = row] /\ rows'[d] = row
      /\ revisions' = [revisions EXCEPT ![d] = Superseded(t, d, tx[t].cur)]
      /\ UNCHANGED <<groups, media, born>>
  BY <1>0, UpdateFacts
<1>2. /\ u \in UserIds /\ u \in Asking
      /\ CanWrite(Actor(u), rows[d].author, rows[d].state.status, tx[t].next.status)
  BY <1>0, <1>1 DEF Updates, CommitUpdate, EveryoneEntitled, Entitled, Inv, Protected,
              Writing, Asking
<1>3. row = [rows[d] EXCEPT !.state = row.state, !.version = @ + 1]
  BY <1>1
<1> HIDE DEF row
<1>4. rows' = [rows EXCEPT ![d].state = rows'[d].state, ![d].version = @ + 1]
  BY <1>1, <1>3
<1>5. revisions'[d] = Superseded(t, d, rows[d])
  BY <1>1 DEF Inv, TypeOK
<1>6. Atomic!Keeps(d)
  BY <1>1, <1>5, KeepsWhatItSupersedes
<1>7. Atomic!Untouched({d})
  BY <1>1 DEF Atomic!Untouched, Inv, TypeOK
<1>8. Atomic!CanWrite(Actor(u), rows[d].author, rows[d].state.status,
                      rows'[d].state.status)
  BY <1>1, <1>2, SameRules
<1>9. Exists(d) /\ rows'[d] # Absent
  BY <1>1, NoValues DEF Exists
<1>10. Atomic!Save(d, u, rows'[d].state)
  BY <1>1, <1>2, <1>4, <1>6, <1>7, <1>8, <1>9
  DEF Atomic!Save, Atomic!Exists, Exists, Atomic!Actor, Actor, Asking
<1> QED
  BY <1>1, <1>2, <1>9, <1>10, OneDocument

LEMMA RemovesAtomically ==
  ASSUME Inv, HistoryHeld, SchemaHeld, EveryoneEntitled, now' = now,
         NEW t \in Connections, Removes(t)
  PROVE  Atomic!Next
<1>0. PICK u, d : u = tx[t].user /\ d = tx[t].doc OBVIOUS
<1>1. /\ d \in Docs /\ ChildrenOf(d) \subseteq tx[t].orphaned
      /\ revisions' = [revisions EXCEPT ![d] = {}]
      /\ UNCHANGED media
      /\ rows' = [e \in Docs |->
                    IF e = d THEN Absent
                    ELSE IF e \in tx[t].orphaned
                         THEN [rows[e] EXCEPT !.state.parent = None]
                         ELSE rows[e]]
  BY <1>0, RemoveFacts DEF Removes, CommitDelete
<1>2. tx[t].orphaned = ChildrenOf(d)
  BY <1>0, <1>1 DEF Inv, Protected
<1>3. rows' = [e \in Docs |->
                 IF e = d THEN Absent
                 ELSE IF Exists(e) /\ rows[e].state.parent = d
                      THEN [rows[e] EXCEPT !.state.parent = None]
                      ELSE rows[e]]
  BY <1>1, <1>2 DEF ChildrenOf
<1>4. CASE Exists(d)
  <2>1. /\ u \in UserIds /\ u \in Asking
        /\ CanDelete(Actor(u), rows[d].author, rows[d].state.status)
    BY <1>0, <1>4 DEF Removes, CommitDelete, EveryoneEntitled, Entitled, Deleting, Asking
  <2>2. Atomic!CanDelete(Actor(u), rows[d].author, rows[d].state.status)
    BY <2>1, SameRules
  <2>3. [e \in Docs |-> Faces(revisions'[e])] =
          [[e \in Docs |-> Faces(revisions[e])] EXCEPT ![d] = {}]
    BY <1>1 DEF Inv, TypeOK, Faces
  <2>4. Atomic!Remove(d, u)
    BY <1>1, <1>3, <1>4, <2>1, <2>2, <2>3
    DEF Atomic!Remove, Atomic!Exists, Exists, Atomic!Actor, Actor, Asking, Faces
  <2> QED
    BY <1>1, <2>1, <2>4, OneDocument
<1>5. CASE ~Exists(d)
  <2>1. \A e \in Docs : Exists(e) => rows[e].state.parent # d
    BY <1>1, <1>5, NoValues DEF SchemaHeld, Kin
  <2>2. rows' = rows
    BY <1>1, <1>3, <1>5, <2>1 DEF Exists, Inv, TypeOK
  <2>3. revisions' = revisions
    BY <1>1, <1>5 DEF HistoryHeld, Inv, TypeOK
  <2> QED
    BY <1>1, <2>2, <2>3 DEF Atomic!Next, Atomic!Ask
<1> QED
  BY <1>4, <1>5

LEMMA PublishesAtomically ==
  ASSUME Inv, HistoryHeld, EveryoneEntitled, now' = now,
         NEW t \in Connections, CommitPublishDue(t)
  PROVE  Atomic!Next
<1> DEFINE S == {d \in Docs : Atomic!Exists(d) /\ rows'[d] # rows[d]}
<1>1. /\ Claimed(t) \subseteq Docs
      /\ \A d \in Claimed(t) :
           /\ rows[d] \in Row /\ IsDue(d, tx[t].clock)
           /\ rows'[d] = Publish(rows[d])
           /\ revisions'[d] = Superseded(t, d, rows[d])
      /\ \A d \in Docs \ Claimed(t) :
           rows'[d] = rows[d] /\ revisions'[d] = revisions[d]
      /\ UNCHANGED media
      /\ rows' = [d \in Docs |-> IF d \in Claimed(t) THEN Publish(rows[d]) ELSE rows[d]]
  BY PublishFacts DEF CommitPublishDue
<1>2. \A d \in Claimed(t) : Publish(rows[d]) # rows[d] /\ Exists(d)
  <2>1. \A row \in Row : row.version \in Nat /\ Publish(row).version = row.version + 1
    BY PublishedRow DEF Row
  <2> QED
    BY <1>1, <2>1 DEF IsDue
<1>3. S = Claimed(t)
  BY <1>1, <1>2 DEF Atomic!Exists, Exists
<1>4. ASSUME NEW d \in S
      PROVE  /\ Atomic!Exists(d)
             /\ rows[d].state.status = "scheduled"
             /\ rows[d].state.date \in 0..now
  <2>1. /\ rows[d] \in Row /\ IsDue(d, tx[t].clock)
    BY <1>1, <1>3
  <2>2. tx[t].clock <= now /\ tx[t].clock \in Nat /\ now \in Nat
    BY ContentAssumption
    DEF CommitPublishDue, EveryoneEntitled, Entitled, Inv, TypeOK, Transaction, Times,
        ContentAssumption
  <2>3. rows[d].state.date \in Nat
    BY <2>1 DEF Row, State, Times, IsDue
  <2> QED
    BY <2>1, <2>2, <2>3 DEF IsDue, Exists, Atomic!Exists
<1>5. rows' = [d \in Docs |->
                 IF d \in S
                 THEN [rows[d] EXCEPT !.state.status = "published", !.version = @ + 1]
                 ELSE rows[d]]
  BY <1>1, <1>3 DEF Publish
<1>6. \A d \in S : Atomic!Keeps(d)
  BY <1>1, <1>3, KeepsWhatItSupersedes
<1>7. Atomic!Untouched(S)
  BY <1>1, <1>3 DEF Atomic!Untouched
<1> HIDE DEF S
<1>8. Atomic!PublishDue(S)
  BY <1>1, <1>4, <1>5, <1>6, <1>7 DEF Atomic!PublishDue
<1> QED
  BY <1>8 DEF Atomic!Next, S

LEMMA OthersAtomically ==
  ASSUME Inv, ReferencesHold, [Next]_vars, WritesNothing
  PROVE  Atomic!Next
<1>1. rows' = rows /\ revisions' = revisions
  BY DEF WritesNothing
<1>2. CASE Tick
  <2>1. now' > now /\ media' = media
    BY <1>2, ContentAssumption DEF ContentAssumption, Tick, db, Inv, TypeOK, Times
  <2> QED
    BY <1>1, <2>1 DEF Atomic!Next, Atomic!Tick
<1>3. CASE now' = now /\ media' = media
  BY <1>1, <1>3 DEF Atomic!Next, Atomic!Ask
<1>4. ASSUME NEW m \in Media, now' = now, media' = media \ {m}, \A d \in Docs : m \notin uses[d]
      PROVE  Atomic!Next
  <2>1. \A d \in Docs : Atomic!Exists(d) => m \notin rows[d].state.refs
    BY <1>4 DEF Atomic!Exists, Exists, ReferencesHold
  <2>2. Atomic!DeleteMedia(m)
    BY <1>1, <1>4, <2>1 DEF Atomic!DeleteMedia
  <2> QED
    BY <2>2 DEF Atomic!Next
<1> QED
  BY <1>2, <1>3, <1>4, TimeStands DEF WritesNothing

LEMMA StepsAreAtomic ==
  ASSUME Inv, HistoryHeld, SchemaHeld, EveryoneEntitled, ReferencesHold, Whole',
         [Next]_vars
  PROVE  Atomic!Next
<1>1. CASE WritesNothing
  BY <1>1, OthersAtomically
<1>2. ASSUME NEW t \in Connections, Writes(t) PROVE Atomic!Next
  <2>1. now' = now
    BY <1>2, WritesStay
  <2>2. ASSUME NEW d \in Docs, NEW g \in Groups, Creates(t, d, g) PROVE Atomic!Next
    <3>1. media' = media
      BY <2>2 DEF Creates
    <3> QED
      BY <2>1, <2>2, <3>1, WholeNext, CreatesAtomically
  <2>3. CASE Updates(t)
    <3>1. media' = media
      BY <2>3, UpdateFacts
    <3> QED
      BY <2>1, <2>3, <3>1, WholeNext, UpdatesAtomically
  <2>4. CASE Removes(t)
    BY <2>1, <2>4, RemovesAtomically
  <2>5. CASE CommitPublishDue(t)
    BY <2>1, <2>5, PublishesAtomically
  <2> QED
    BY <1>2, <2>2, <2>3, <2>4, <2>5 DEF Writes
<1> QED
  BY <1>1, <1>2, WritesOrNot

LEMMA BeginsAtomically ==
  ASSUME Init, Whole
  PROVE  Atomic!Init
BY DEF Init, Whole, Atomic!Init

(* The transactions implement the documents of module Documents: whatever  *)
(* statements and locks interleave, each commit is one operation, decided  *)
(* as the documents are when it commits (createContent, updateContent,     *)
(* deleteContent, publishDueContent, deleteMediaRow).                      *)
THEOREM StoreImplementsDocuments == Spec => AtomicDocuments
<1>1. Spec => []SchemaHeld
  <2>1. Spec => []GroupsHeld
    BY GroupsInit, GroupsKept, Invariance, PTL DEF Spec
  <2> QED
    BY <2>1, SchemaInit, SchemaKept, Invariance, PTL DEF Spec
<1>2. Spec => []EveryoneEntitled
  BY EntitledInit, EntitledKept, Invariance, PTL DEF Spec
<1>3. Spec => []HistoryHeld
  BY HistoryInit, HistoryKept, Invariance, PTL DEF Spec
<1>4. Spec => []Whole
  <2>1. Spec => []GroupsHeld
    BY GroupsInit, GroupsKept, Invariance, PTL DEF Spec
  <2> QED
    BY <1>1, <2>1, WhatIsHeldIsWhole, PathsAlwaysResolve, ReferencesAreHeld,
       Invariance, PTL
<1>5. Inv /\ HistoryHeld /\ SchemaHeld /\ EveryoneEntitled /\ ReferencesHold /\ Whole'
        /\ [Next]_vars => [Atomic!Next]_Atomic!vars
  BY StepsAreAtomic
<1>6. Init /\ Whole => Atomic!Init
  BY BeginsAtomically
<1> QED
  BY <1>1, <1>2, <1>3, <1>4, <1>5, <1>6, ReferencesAreHeld, Invariance, PTL
  DEF Spec, AtomicDocuments, Atomic!Spec

=============================================================================
