------------------------- MODULE ContentStoreProofs --------------------------
(***************************************************************************)
(* What holds of ContentStore for every set of documents, connections and  *)
(* requests.  The argument is one: between the moment a transaction locks  *)
(* a row and its end, nobody else writes that row, so what it decided      *)
(* under the lock is still true when it commits.  The first half proves    *)
(* that discipline, the second what the commits do to the database: what a *)
(* revision records, what an event announces, what a document references.  *)
(***************************************************************************)
EXTENDS ContentStore, SequenceTheorems, TLAPS

-----------------------------------------------------------------------------
(* The inductive invariant.                                                *)

Writing(t) ==
  tx[t].op \in {"update", "restore"} /\ tx[t].pc \in {"walk", "measure", "commit"}

Deleting(t) == tx[t].op = "delete" /\ tx[t].pc \in {"lockChildren", "commit"}

(* Which fields of a connection are set, by where it is.                   *)
Shape(t) ==
  /\ tx[t].pc \in {"idle", "composing", "announce"} => tx[t].op = "none"
  /\ tx[t].pc \in {"idle", "announce"} => tx[t].doc = None /\ tx[t].form = Absent
  /\ tx[t].pc \in RowSteps => tx[t].at \in Docs
  /\ tx[t].pc = "lockGroup" => tx[t].group \in Groups
  /\ tx[t].pc = "composing" \/ tx[t].op \in {"update", "restore"} =>
       tx[t].doc \in Docs /\ tx[t].form \in Row
  /\ tx[t].form # Absent => tx[t].doc \in Docs
  /\ tx[t].op \in {"update", "restore"} => tx[t].patch \in Patch
  /\ tx[t].op = "create" =>
       /\ tx[t].user \in UserIds /\ tx[t].type \in Types
       /\ tx[t].locale \in Locales /\ tx[t].next \in State
  /\ tx[t].op = "delete" =>
       tx[t].doc \in Docs /\ (tx[t].pc = "lockGroup" => tx[t].at = tx[t].doc)
  /\ tx[t].pc \in {"walk", "measure"} => tx[t].op \in {"create", "update", "restore"}
  /\ tx[t].pc = "lockChildren" => tx[t].op = "delete"
  /\ tx[t].op # "delete" => tx[t].orphaned = {}
  /\ tx[t].op # "publishDue" => tx[t].claimed = <<>>
  /\ tx[t].op = "publishDue" => tx[t].pc \in {"claim", "commit"}
  /\ tx[t].pc = "claim" => tx[t].op = "publishDue"

(* An id is never reused, and a form is of a document that once existed.   *)
Known ==
  /\ \A d \in Docs : Exists(d) => d \in born
  /\ \A t \in Connections : tx[t].doc # None => tx[t].doc \in born

(* What a transaction has read under a lock it holds.                      *)
Protected(t) ==
  /\ Writing(t) =>
       /\ rowLock[tx[t].doc] = t
       /\ tx[t].cur \in Row /\ rows[tx[t].doc] = tx[t].cur
       /\ tx[t].cur.version = tx[t].form.version
       /\ tx[t].next \in State
       /\ CanWrite(Actor(tx[t].user), tx[t].cur.author,
                   tx[t].cur.state.status, tx[t].next.status)
  /\ Deleting(t) => rowLock[tx[t].doc] = t
  /\ \A c \in tx[t].orphaned : rowLock[c] = t /\ c \in ChildrenOf(tx[t].doc)
  /\ \A i \in 1..Len(tx[t].claimed) :
       rowLock[tx[t].claimed[i]] = t /\ IsDue(tx[t].claimed[i], tx[t].clock)

(* While the version is the one the form shows, so is the text, but for a  *)
(* parent that has been deleted.                                           *)
Current(row, form) ==
  row # Absent =>
    /\ row.version >= form.version
    /\ row.version = form.version =>
         \/ row.state = form.state
         \/ row.state = [form.state EXCEPT !.parent = None]

Honest(t) == tx[t].form # Absent => Current(rows[tx[t].doc], tx[t].form)

Inv ==
  /\ TypeOK
  /\ Known
  /\ \A t \in Connections : Shape(t) /\ Protected(t) /\ Honest(t)

-----------------------------------------------------------------------------
(* Facts about the operators the actions are built from.                   *)

LEMMA NoValues ==
  /\ None \notin Docs /\ None \notin Connections /\ None \notin Groups
  /\ Absent \notin Row /\ Absent \notin Types
BY ContentAssumption DEF ContentAssumption

LEMMA StepNames ==
  /\ "idle" \in Steps /\ "composing" \in Steps /\ "lockGroup" \in Steps
  /\ "lockRow" \in Steps /\ "walk" \in Steps /\ "measure" \in Steps
  /\ "lockChildren" \in Steps /\ "claim" \in Steps /\ "commit" \in Steps
  /\ "announce" \in Steps
BY DEF Steps

LEMMA OperationNames ==
  /\ "none" \in Operations /\ "create" \in Operations /\ "update" \in Operations
  /\ "restore" \in Operations /\ "delete" \in Operations
  /\ "publishDue" \in Operations
BY DEF Operations

LEMMA Options ==
  \A S : None \in Optional(S) /\ \A x : x \in Optional(S) <=> x = None \/ x \in S
BY DEF Optional

LEMMA IdleTyped == Idle \in Transaction
<1>1. Absent \in MaybeRow /\ 0 \in Times /\ {} \in DueRows /\ <<>> \in Seq(Docs)
        /\ <<>> \in Seq(Announcement)
  BY ContentAssumption DEF ContentAssumption, MaybeRow, Times, DueRows
<1> QED
  BY <1>1, StepNames, OperationNames, Options DEF Idle, Transaction

LEMMA DeriveTyped ==
  ASSUME TypeOK, NEW t \in Connections, NEW current \in Row, tx[t].patch \in Patch
  PROVE  Derive(t, current) \in State
<1> DEFINE merged == Merge(current.state, tx[t].patch)
<1>1. current.state \in State
  BY DEF Row
<1>2. tx[t].clock \in Times
  BY DEF TypeOK, Transaction
<1>3. merged \in State
  BY <1>1 DEF Merge, Kept, State, Patch
<1>4. StampPublication(merged, tx[t].clock) \in State
  BY <1>2, <1>3 DEF StampPublication, State
<1>5. \A s \in State : Parse(current.type, s) \in State
  BY DEF Parse, State
<1> QED
  BY <1>3, <1>4, <1>5 DEF Derive

LEMMA SupersededTyped ==
  ASSUME TypeOK, NEW t \in Connections, NEW d \in Docs, NEW current \in Row
  PROVE  Superseded(t, d, current) \in SUBSET Revision
<1>1. [version |-> current.version, state |-> current.state, at |-> tx[t].started]
        \in Revision
  BY DEF TypeOK, Transaction, Row, Revision
<1> QED
  BY <1>1 DEF Superseded, Prune, TypeOK

LEMMA AboutTyped ==
  ASSUME NEW d \in Docs, NEW names \in Seq(Event)
  PROVE  About(d, names) \in Seq(Announcement)
BY DEF About, Announcement

LEMMA TransitionsTyped ==
  ASSUME NEW previous, NEW next
  PROVE  TransitionsFor(previous, next) \in Seq(Event)
<1> DEFINE entering == IF previous # "published" /\ next = "published"
                       THEN <<"content:published">> ELSE <<>>
           leaving  == IF previous = "published" /\ next # "published"
                       THEN <<"content:unpublished">> ELSE <<>>
<1>1. <<"content:updated">> \in Seq(Event)
  BY DEF Event
<1>3. <<"content:published">> \in Seq(Event) /\ <<"content:unpublished">> \in Seq(Event)
  BY DEF Event
<1>4. <<>> \in Seq(Event)
  OBVIOUS
<1>5. entering \in Seq(Event) /\ leaving \in Seq(Event)
  BY <1>3, <1>4
<1>2. \A a, b \in Seq(Event) : a \o b \in Seq(Event)
  OBVIOUS
<1> HIDE DEF entering, leaving
<1>6. <<"content:updated">> \o entering \o leaving \in Seq(Event)
  BY <1>1, <1>2, <1>5
<1> QED
  BY <1>6 DEF TransitionsFor, entering, leaving

LEMMA ReleaseFacts ==
  ASSUME TypeOK, NEW t \in Connections, Release(t)
  PROVE  /\ rowLock' \in [Docs -> Optional(Connections)]
         /\ groupLock' \in [Groups -> Optional(Connections)]
         /\ \A d \in Docs : rowLock[d] \notin {None, t} => rowLock'[d] = rowLock[d]
BY DEF TypeOK, Release, Optional

-----------------------------------------------------------------------------
(* Steps of one connection.                                                *)

(* How a step of t may change a row: not at all, unless t holds its lock.  *)
Evolves(t, d) ==
  \/ rows'[d] = rows[d]
  \/ /\ rowLock[d] = t /\ rows[d] \in Row
     /\ \/ rows'[d] = Absent
        \/ rows'[d] \in Row /\ rows'[d].version = rows[d].version + 1
        \/ rows'[d] = [rows[d] EXCEPT !.state.parent = None]

(* A step of t leaves alone what others hold and what others know.         *)
Frame(t) ==
  /\ \A s \in Connections \ {t} : tx'[s] = tx[s]
  /\ \A d \in Docs : rowLock[d] \notin {None, t} => rowLock'[d] = rowLock[d]
  /\ born \subseteq born'
  /\ \A d \in Docs : d \in born => Evolves(t, d)
  /\ \A d \in Docs : d \notin born /\ rows'[d] # Absent => d \in born'

(* The document and the form t goes on with, against the rows before.      *)
FormKept(t) ==
  /\ tx'[t].doc # None => tx'[t].doc \in born
  /\ tx'[t].form # Absent =>
       tx'[t].doc \in Docs /\ Current(rows[tx'[t].doc], tx'[t].form)

LEMMA CurrentKept ==
  ASSUME NEW t, NEW d \in Docs, d \in born, NEW form \in Row,
         Current(rows[d], form), Evolves(t, d)
  PROVE  Current(rows'[d], form)
<1>1. CASE rows'[d] = rows[d]
  BY <1>1
<1>2. CASE rows'[d] = Absent
  BY <1>2 DEF Current
<1>3. CASE rows[d] \in Row /\ rows'[d] \in Row /\ rows'[d].version = rows[d].version + 1
  BY <1>3, NoValues DEF Current, Row
<1>4. CASE rows[d] \in Row /\ rows'[d] = [rows[d] EXCEPT !.state.parent = None]
  <2>1. /\ rows'[d].version = rows[d].version
        /\ rows'[d].state = [rows[d].state EXCEPT !.parent = None]
    BY <1>4 DEF Row
  <2>2. rows[d].state \in State /\ form.state \in State
    BY <1>4 DEF Row
  <2>3. \A x, y \in State : x = [y EXCEPT !.parent = None] =>
           [x EXCEPT !.parent = None] = [y EXCEPT !.parent = None]
    BY DEF State
  <2> QED
    BY <1>4, <2>1, <2>2, <2>3, NoValues DEF Current
<1> QED
  BY <1>1, <1>2, <1>3, <1>4 DEF Evolves

(* A step of one connection preserves the invariant if it does for that    *)
(* connection and stays within its frame.                                  *)
LEMMA OneConnection ==
  ASSUME Inv, NEW t \in Connections,
         TypeOK', Frame(t), FormKept(t), Shape(t)', Protected(t)'
  PROVE  Inv'
<1>1. Known'
  <2>1. \A d \in Docs : Exists(d)' => d \in born'
    BY DEF Inv, Known, Exists, Frame, Evolves
  <2>2. \A s \in Connections : tx'[s].doc # None => tx'[s].doc \in born'
    BY DEF Inv, Known, Frame, FormKept
  <2> QED
    BY <2>1, <2>2 DEF Known
<1>2. ASSUME NEW s \in Connections PROVE Honest(s)'
  <2> SUFFICES ASSUME tx'[s].form # Absent
               PROVE  Current(rows'[tx'[s].doc], tx'[s].form)
    BY DEF Honest
  <2>1. tx'[s].form \in Row
    BY DEF TypeOK, Transaction, MaybeRow
  <2>2. /\ tx'[s].doc \in Docs /\ tx'[s].doc \in born
        /\ Current(rows[tx'[s].doc], tx'[s].form)
    <3>1. CASE s = t
      BY <3>1, NoValues DEF FormKept
    <3>2. CASE s # t
      <4>1. tx'[s] = tx[s]
        BY <3>2 DEF Frame
      <4> QED
        BY <4>1, NoValues DEF Inv, Honest, Known, Shape
    <3> QED
      BY <3>1, <3>2
  <2> QED
    BY <2>1, <2>2, CurrentKept DEF Frame
<1>3. ASSUME NEW s \in Connections, s # t PROVE Shape(s)' /\ Protected(s)'
  <2>1. tx'[s] = tx[s]
    BY <1>3 DEF Frame
  <2>2. \A d \in Docs : rowLock[d] = s /\ rows[d] # Absent =>
          rowLock'[d] = s /\ rows'[d] = rows[d]
    BY <1>3, NoValues DEF Frame, Evolves, Inv, Known, Exists
  <2>3. Shape(s)'
    BY <2>1 DEF Inv, Shape
  <2>4. Writing(s) => rowLock'[tx[s].doc] = s /\ rows'[tx[s].doc] = rows[tx[s].doc]
    BY <2>2, NoValues DEF Inv, Shape, Protected, Writing
  <2>5. Deleting(s) => rowLock'[tx[s].doc] = s
    BY <1>3, NoValues DEF Inv, Shape, Protected, Deleting, Frame
  <2>6. /\ tx[s].orphaned \subseteq Docs
        /\ \A i \in 1..Len(tx[s].claimed) : tx[s].claimed[i] \in Docs
    <3>1. tx[s].orphaned \subseteq Docs /\ tx[s].claimed \in Seq(Docs)
      BY DEF Inv, TypeOK, Transaction
    <3> QED
      BY <3>1
  <2>7. Protected(s)
    BY DEF Inv
  <2>8. Writing(s)' = Writing(s) /\ Deleting(s)' = Deleting(s)
    BY <2>1 DEF Writing, Deleting
  <2>9. (\A c \in tx[s].orphaned : rowLock[c] = s /\ c \in ChildrenOf(tx[s].doc))'
    BY <2>1, <2>2, <2>6, <2>7 DEF Protected, ChildrenOf, Exists
  <2>10. (\A i \in 1..Len(tx[s].claimed) :
            rowLock[tx[s].claimed[i]] = s /\ IsDue(tx[s].claimed[i], tx[s].clock))'
    BY <2>1, <2>2, <2>6, <2>7 DEF Protected, IsDue, Exists
  <2>11. Protected(s)'
    <3>1. CASE Writing(s)
      BY <3>1, <2>1, <2>4, <2>5, <2>7, <2>8, <2>9, <2>10 DEF Protected
    <3>2. CASE ~Writing(s)
      BY <3>2, <2>1, <2>5, <2>8, <2>9, <2>10 DEF Protected
    <3> QED
      BY <3>1, <3>2
  <2> QED
    BY <2>3, <2>11
<1> QED
  BY <1>1, <1>2, <1>3 DEF Inv

(* A step that writes nothing: it may take or give back locks of its own.  *)
LEMMA LocalStep ==
  ASSUME Inv, NEW t \in Connections, NEW r \in Transaction,
         tx' = [tx EXCEPT ![t] = r], UNCHANGED <<db, now>>, ticks' \in Nat,
         rowLock' \in [Docs -> Optional(Connections)],
         groupLock' \in [Groups -> Optional(Connections)],
         \A d \in Docs : rowLock[d] \notin {None, t} => rowLock'[d] = rowLock[d]
  PROVE  TypeOK' /\ Frame(t) /\ tx'[t] = r
<1>1. TypeOK'
  BY DEF Inv, TypeOK, db
<1>2. tx'[t] = r /\ \A s \in Connections \ {t} : tx'[s] = tx[s]
  BY DEF Inv, TypeOK
<1>3. Frame(t)
  BY <1>2 DEF Frame, Evolves, db, Inv, Known, Exists
<1> QED
  BY <1>1, <1>2, <1>3

(* A connection with no document, form or locks to speak of.               *)
LEMMA NothingHeld ==
  ASSUME NEW t \in Connections, tx'[t].pc \in {"idle", "announce"},
         tx'[t].op = "none", tx'[t].doc = None, tx'[t].form = Absent,
         tx'[t].orphaned = {}, tx'[t].claimed = <<>>
  PROVE  Shape(t)' /\ Protected(t)' /\ FormKept(t)
<1>1. Shape(t)'
  BY DEF Shape, RowSteps
<1>2. Protected(t)'
  BY DEF Protected, Writing, Deleting
<1>3. FormKept(t)
  BY DEF FormKept
<1> QED
  BY <1>1, <1>2, <1>3

LEMMA RefuseKeeps ==
  ASSUME Inv, NEW t \in Connections, Refuse(t)
  PROVE  Inv'
<1>1. TypeOK' /\ Frame(t) /\ tx'[t] = Idle
  BY IdleTyped, LocalStep, ReleaseFacts DEF Inv, TypeOK, Refuse, Ends, Moves
<1>2. Shape(t)' /\ Protected(t)' /\ FormKept(t)
  BY <1>1, NothingHeld DEF Idle
<1> QED
  BY <1>1, <1>2, OneConnection

LEMMA AnnounceKeeps ==
  ASSUME Inv, NEW t \in Connections, Announce(t)
  PROVE  Inv'
<1>1. tx[t] \in Transaction /\ Shape(t) /\ Protected(t)
  BY DEF Inv, TypeOK
<1>2. CASE tx' = [tx EXCEPT ![t] = Idle]
  <2>1. TypeOK' /\ Frame(t) /\ tx'[t] = Idle
    BY <1>2, IdleTyped, LocalStep DEF Announce, Inv, TypeOK, locks
  <2> QED
    BY <2>1, NothingHeld, OneConnection DEF Idle
<1>3. CASE /\ ~(Len(tx[t].outbox) <= 1)
           /\ tx' = [tx EXCEPT ![t] = [tx[t] EXCEPT !.outbox = Tail(@)]]
  <2>1. tx[t].outbox \in Seq(Announcement)
    BY <1>1 DEF Transaction
  <2>2. Tail(tx[t].outbox) \in Seq(Announcement)
    BY <1>3, <2>1
  <2>3. [tx[t] EXCEPT !.outbox = Tail(@)] \in Transaction
    BY <1>1, <2>2 DEF Transaction
  <2>4. TypeOK' /\ Frame(t) /\ tx'[t] = [tx[t] EXCEPT !.outbox = Tail(@)]
    BY <1>3, <2>3, LocalStep DEF Announce, Inv, TypeOK, locks
  <2>5. /\ tx[t].pc = "announce" /\ tx[t].op = "none"
        /\ tx[t].doc = None /\ tx[t].form = Absent
        /\ tx[t].orphaned = {} /\ tx[t].claimed = <<>>
    BY <1>1 DEF Announce, Shape
  <2>6. /\ tx'[t].pc = "announce" /\ tx'[t].op = "none"
        /\ tx'[t].doc = None /\ tx'[t].form = Absent
        /\ tx'[t].orphaned = {} /\ tx'[t].claimed = <<>>
    BY <1>1, <2>4, <2>5 DEF Transaction
  <2> QED
    BY <2>4, <2>6, NothingHeld, OneConnection
<1> QED
  BY <1>2, <1>3 DEF Announce, Moves

(* The beginnings.                                                         *)

LEMMA OpenFormKeeps ==
  ASSUME Inv, NEW t \in Connections, NEW u \in UserIds, NEW d \in Docs,
         OpenForm(t, u, d)
  PROVE  Inv'
<1> DEFINE r == [Idle EXCEPT !.pc = "composing", !.user = u, !.doc = d, !.form = rows[d]]
<1>1. rows[d] \in Row /\ d \in born
  BY DEF OpenForm, Inv, TypeOK, Known, Exists, MaybeRow
<1>2. r \in Transaction
  BY <1>1, IdleTyped, StepNames, Options DEF Transaction, MaybeRow
<1>3. TypeOK' /\ Frame(t) /\ tx'[t] = r
  BY <1>2, LocalStep DEF OpenForm, Moves, Inv, TypeOK, locks
<1>4. Shape(t)'
  BY <1>1, <1>3 DEF Shape, Idle, RowSteps
<1>5. Protected(t)'
  BY <1>3 DEF Protected, Idle, Writing, Deleting
<1>6. FormKept(t)
  BY <1>1, <1>3 DEF FormKept, Idle, Current, Row
<1> QED
  BY <1>3, <1>4, <1>5, <1>6, OneConnection

LEMMA BeginCreateKeeps ==
  ASSUME Inv, NEW t \in Connections, NEW u \in UserIds, BeginCreate(t, u)
  PROVE  Inv'
<1>1. PICK type \in Types, locale \in Locales, sent \in Creations,
           group \in Groups \cup {None} :
        LET state == StampPublication(Parse(type, sent), now)
            next  == IF group # None THEN "lockGroup"
                     ELSE IF state.parent # None THEN "walk" ELSE "commit"
        IN Begins(t, [Idle EXCEPT !.pc = next, !.op = "create", !.user = u,
                        !.type = type, !.locale = locale, !.group = group,
                        !.next = state, !.at = state.parent])
  BY DEF BeginCreate
<1> DEFINE state == StampPublication(Parse(type, sent), now)
           next  == IF group # None THEN "lockGroup"
                    ELSE IF state.parent # None THEN "walk" ELSE "commit"
           r == [Idle EXCEPT !.pc = next, !.op = "create", !.user = u,
                   !.type = type, !.locale = locale, !.group = group,
                   !.next = state, !.at = state.parent,
                   !.started = ticks + 1, !.clock = now]
<1>2. state \in State
  <2>1. sent \in State /\ now \in Times
    BY ContentAssumption DEF ContentAssumption, Inv, TypeOK
  <2>2. Parse(type, sent) \in State
    BY <2>1 DEF Parse, State
  <2> QED
    BY <2>1, <2>2 DEF StampPublication, State
<1>3. state.parent \in Docs \cup {None}
  BY <1>2 DEF State
<1> HIDE DEF state
<1>4. next \in Steps /\ "create" \in Operations
  BY StepNames, OperationNames
<1>5. r \in Transaction
  <2>1. ticks + 1 \in Nat /\ now \in Times
    BY DEF Inv, TypeOK
  <2> HIDE DEF next
  <2> QED
    BY <1>2, <1>3, <1>4, <2>1, IdleTyped, Options DEF Transaction
<1>6. tx' = [tx EXCEPT ![t] = r] /\ UNCHANGED <<db, locks, now>> /\ ticks' = ticks + 1
  BY <1>1 DEF Begins, Moves, state, Idle
<1>7. TypeOK' /\ Frame(t) /\ tx'[t] = r
  <2> HIDE DEF r
  <2>1. ticks' \in Nat
    BY <1>6 DEF Inv, TypeOK
  <2> QED
    BY <1>5, <1>6, <2>1, LocalStep DEF Inv, TypeOK, locks
<1>8. Shape(t)'
  BY <1>2, <1>3, <1>7, NoValues DEF Shape, Idle, RowSteps
<1>9. Protected(t)'
  BY <1>7 DEF Protected, Idle, Writing, Deleting
<1>10. FormKept(t)
  BY <1>7 DEF FormKept, Idle
<1> QED
  BY <1>7, <1>8, <1>9, <1>10, OneConnection

-----------------------------------------------------------------------------
(* Steps inside a transaction.                                             *)

LEMMA TakeRowFacts ==
  ASSUME Inv, NEW t \in Connections, NEW d \in Docs, RowFree(t, d), TakeRow(t, d)
  PROVE  /\ rowLock' \in [Docs -> Optional(Connections)]
         /\ rowLock'[d] = t
         /\ \A e \in Docs : rowLock[e] = t => rowLock'[e] = t
         /\ \A e \in Docs : rowLock[e] \notin {None, t} => rowLock'[e] = rowLock[e]
BY DEF Inv, TypeOK, RowFree, TakeRow, Optional

(* What t has protected stays protected while it goes on with it.          *)
LEMMA StillProtected ==
  ASSUME Inv, NEW t \in Connections, rows' = rows,
         \A d \in Docs : rowLock[d] = t => rowLock'[d] = t,
         Writing(t)' => Writing(t), Deleting(t)' => Deleting(t),
         tx'[t].doc = tx[t].doc, tx'[t].user = tx[t].user, tx'[t].cur = tx[t].cur,
         tx'[t].next = tx[t].next, tx'[t].form = tx[t].form,
         tx'[t].orphaned = tx[t].orphaned, tx'[t].claimed = tx[t].claimed,
         tx'[t].clock = tx[t].clock
  PROVE  Protected(t)'
<1>1. tx[t] \in Transaction /\ Shape(t) /\ Protected(t)
  BY DEF Inv, TypeOK
<1>2. tx[t].orphaned \subseteq Docs /\ tx[t].claimed \in Seq(Docs)
  BY <1>1 DEF Transaction
<1>3. \A i \in 1..Len(tx[t].claimed) : tx[t].claimed[i] \in Docs
  BY <1>2
<1>4. (\A c \in tx[t].orphaned : rowLock[c] = t /\ c \in ChildrenOf(tx[t].doc))'
  BY <1>1, <1>2 DEF Protected, ChildrenOf, Exists
<1>5. (\A i \in 1..Len(tx[t].claimed) :
         rowLock[tx[t].claimed[i]] = t /\ IsDue(tx[t].claimed[i], tx[t].clock))'
  BY <1>1, <1>3 DEF Protected, IsDue, Exists
<1>6. Writing(t) \/ Deleting(t) => tx[t].doc \in Docs
  BY <1>1 DEF Shape, Writing, Deleting
<1>7. CASE Writing(t)
  BY <1>1, <1>4, <1>5, <1>6, <1>7 DEF Protected
<1>8. CASE ~Writing(t)
  BY <1>1, <1>4, <1>5, <1>6, <1>8 DEF Protected
<1> QED
  BY <1>7, <1>8

LEMMA FormStays ==
  ASSUME Inv, NEW t \in Connections, tx'[t].doc = tx[t].doc, tx'[t].form = tx[t].form
  PROVE  FormKept(t)
BY DEF Inv, Known, Shape, Honest, FormKept

LEMMA JoinGroupKeeps ==
  ASSUME Inv, NEW t \in Connections, JoinGroup(t)
  PROVE  Inv'
<1>1. CASE Refuse(t)
  BY <1>1, RefuseKeeps
<1>2. CASE ~Refuse(t)
  <2> DEFINE step == IF tx[t].at # None THEN "walk" ELSE "commit"
             r == [tx[t] EXCEPT !.pc = step, !.members = MembersOf(tx[t].group)]
  <2>1. tx[t] \in Transaction /\ Shape(t)
    BY DEF Inv, TypeOK
  <2>2. step \in Steps /\ MembersOf(tx[t].group) \in SUBSET Docs
    BY StepNames DEF MembersOf
  <2>3. r \in Transaction
    <3> HIDE DEF step
    <3> QED
      BY <2>1, <2>2 DEF Transaction
  <2>4. tx' = [tx EXCEPT ![t] = r] /\ UNCHANGED <<db, rowLock, ticks, now>>
          /\ TakeGroup(t, tx[t].group)
    BY <1>2 DEF JoinGroup, Moves
  <2>5. groupLock' \in [Groups -> Optional(Connections)]
    BY <2>4 DEF Inv, TypeOK, TakeGroup, Optional
  <2>6. TypeOK' /\ Frame(t) /\ tx'[t] = r
    <3> HIDE DEF r
    <3> QED
      BY <2>3, <2>4, <2>5, LocalStep DEF Inv, TypeOK
  <2>7. /\ tx'[t].pc = step /\ tx'[t].op = "create" /\ tx'[t].at = tx[t].at
        /\ tx'[t].doc = tx[t].doc /\ tx'[t].form = tx[t].form
        /\ tx'[t].user = tx[t].user /\ tx'[t].type = tx[t].type
        /\ tx'[t].locale = tx[t].locale /\ tx'[t].next = tx[t].next
        /\ tx'[t].orphaned = tx[t].orphaned /\ tx'[t].claimed = tx[t].claimed
        /\ tx'[t].cur = tx[t].cur /\ tx'[t].clock = tx[t].clock
    BY <2>1, <2>6 DEF JoinGroup, Transaction
  <2>8. tx[t].at \in Docs \cup {None}
    BY <2>1 DEF Transaction, Optional
  <2>9. Shape(t)'
    BY <2>1, <2>7, <2>8 DEF Shape, RowSteps, JoinGroup
  <2>10. Protected(t)'
    <3>1. ~Writing(t)' /\ ~Deleting(t)'
      BY <2>7 DEF Writing, Deleting
    <3> QED
      BY <2>4, <2>7, <3>1, StillProtected DEF db
  <2> QED
    BY <2>6, <2>7, <2>9, <2>10, FormStays, OneConnection
<1> QED
  BY <1>1, <1>2

LEMMA LockAncestorKeeps ==
  ASSUME Inv, NEW t \in Connections, LockAncestor(t)
  PROVE  Inv'
<1> DEFINE p     == tx[t].at
           above == rows[p].state.parent
           step  == IF above = None THEN "measure" ELSE "walk"
           r     == [tx[t] EXCEPT !.pc = step, !.at = above, !.depth = @ + 1]
<1>1. tx[t] \in Transaction /\ Shape(t) /\ tx[t].pc = "walk"
  BY DEF Inv, TypeOK, LockAncestor
<1>2. p \in Docs /\ rows[p] \in Row
  BY <1>1 DEF Shape, RowSteps, LockAncestor, ParentUnusable, Exists, Inv, TypeOK, MaybeRow
<1>3. above \in Docs \cup {None}
  BY <1>2 DEF Row, State
<1>4. tx[t].depth + 1 \in Nat
  BY <1>1 DEF Transaction
<1>5. r \in Transaction
  <2>1. step \in Steps /\ above \in Optional(Docs)
    BY <1>3, StepNames DEF Optional
  <2> HIDE DEF step, above
  <2> QED
    BY <1>1, <1>4, <2>1 DEF Transaction
<1>6. /\ tx' = [tx EXCEPT ![t] = r] /\ UNCHANGED <<db, groupLock, ticks, now>>
      /\ RowFree(t, p) /\ TakeRow(t, p)
  BY DEF LockAncestor, Moves
<1>7. TypeOK' /\ Frame(t) /\ tx'[t] = r
  <2> HIDE DEF r
  <2> QED
    BY <1>2, <1>5, <1>6, TakeRowFacts, LocalStep DEF Inv, TypeOK
<1>8. /\ tx'[t].pc = step /\ tx'[t].op = tx[t].op /\ tx'[t].at = above
      /\ tx'[t].doc = tx[t].doc /\ tx'[t].form = tx[t].form
      /\ tx'[t].user = tx[t].user /\ tx'[t].type = tx[t].type
      /\ tx'[t].locale = tx[t].locale /\ tx'[t].next = tx[t].next
      /\ tx'[t].orphaned = tx[t].orphaned /\ tx'[t].claimed = tx[t].claimed
      /\ tx'[t].cur = tx[t].cur /\ tx'[t].clock = tx[t].clock
      /\ tx'[t].patch = tx[t].patch
  <2> HIDE DEF step, above
  <2> QED
    BY <1>1, <1>7 DEF Transaction
<1>9. Shape(t)'
  BY <1>1, <1>3, <1>8 DEF Shape, RowSteps
<1>10. Protected(t)'
  <2>1. (Writing(t)' => Writing(t)) /\ ~Deleting(t)'
    BY <1>1, <1>8 DEF Writing, Deleting
  <2> QED
    BY <1>2, <1>6, <1>8, <2>1, TakeRowFacts, StillProtected DEF db
<1> QED
  BY <1>7, <1>8, <1>9, <1>10, FormStays, OneConnection

LEMMA MeasureHeightKeeps ==
  ASSUME Inv, NEW t \in Connections, MeasureHeight(t)
  PROVE  Inv'
<1>1. CASE Refuse(t)
  BY <1>1, RefuseKeeps
<1>2. CASE ~Refuse(t)
  <2> DEFINE r == [tx[t] EXCEPT !.pc = "commit"]
  <2>1. tx[t] \in Transaction /\ Shape(t) /\ tx[t].pc = "measure"
    BY DEF Inv, TypeOK, MeasureHeight
  <2>2. r \in Transaction
    BY <2>1, StepNames DEF Transaction
  <2>3. tx' = [tx EXCEPT ![t] = r] /\ UNCHANGED <<db, locks, ticks, now>>
    BY <1>2 DEF MeasureHeight, Moves
  <2>4. TypeOK' /\ Frame(t) /\ tx'[t] = r
    <3> HIDE DEF r
    <3> QED
      BY <2>2, <2>3, LocalStep DEF Inv, TypeOK, locks
  <2>5. /\ tx'[t].pc = "commit" /\ tx'[t].op = tx[t].op /\ tx'[t].at = tx[t].at
        /\ tx'[t].doc = tx[t].doc /\ tx'[t].form = tx[t].form
        /\ tx'[t].user = tx[t].user /\ tx'[t].type = tx[t].type
        /\ tx'[t].locale = tx[t].locale /\ tx'[t].next = tx[t].next
        /\ tx'[t].orphaned = tx[t].orphaned /\ tx'[t].claimed = tx[t].claimed
        /\ tx'[t].cur = tx[t].cur /\ tx'[t].clock = tx[t].clock
        /\ tx'[t].patch = tx[t].patch
    BY <2>1, <2>4 DEF Transaction
  <2>6. Shape(t)'
    BY <2>1, <2>5 DEF Shape, RowSteps
  <2>7. Protected(t)'
    <3>1. (Writing(t)' => Writing(t)) /\ ~Deleting(t)'
      BY <2>1, <2>5 DEF Writing, Deleting, Shape
    <3> QED
      BY <2>3, <2>5, <3>1, StillProtected DEF db, locks
  <2> QED
    BY <2>4, <2>5, <2>6, <2>7, FormStays, OneConnection
<1> QED
  BY <1>1, <1>2

-----------------------------------------------------------------------------
(* A save and a restore.                                                   *)

(* Their beginnings, with whatever patch.                                  *)
LEMMA ComposedBegins ==
  ASSUME Inv, NEW t \in Connections, tx[t].pc = "composing",
         NEW op \in {"update", "restore"}, NEW patch \in Patch,
         Begins(t, [tx[t] EXCEPT !.pc = "lockRow", !.op = op, !.at = tx[t].doc,
                                 !.patch = patch])
  PROVE  Inv'
<1> DEFINE r == [tx[t] EXCEPT !.pc = "lockRow", !.op = op, !.at = tx[t].doc,
                              !.patch = patch, !.started = ticks + 1, !.clock = now]
<1>1. tx[t] \in Transaction /\ Shape(t)
  BY DEF Inv, TypeOK
<1>2. tx[t].doc \in Docs /\ tx[t].form \in Row
  BY <1>1 DEF Shape
<1>3. ticks + 1 \in Nat /\ now \in Times /\ op \in Operations
  BY OperationNames DEF Inv, TypeOK
<1>4. r \in Transaction
  BY <1>1, <1>2, <1>3, StepNames, Options DEF Transaction
<1>5. tx' = [tx EXCEPT ![t] = r] /\ UNCHANGED <<db, locks, now>> /\ ticks' = ticks + 1
  BY <1>1 DEF Begins, Moves, Transaction
<1>6. TypeOK' /\ Frame(t) /\ tx'[t] = r
  <2> HIDE DEF r
  <2> QED
    BY <1>3, <1>4, <1>5, LocalStep DEF Inv, TypeOK, locks
<1>7. /\ tx'[t].pc = "lockRow" /\ tx'[t].op = op /\ tx'[t].at = tx[t].doc
      /\ tx'[t].doc = tx[t].doc /\ tx'[t].form = tx[t].form /\ tx'[t].patch = patch
      /\ tx'[t].orphaned = tx[t].orphaned /\ tx'[t].claimed = tx[t].claimed
  BY <1>1, <1>6 DEF Transaction
<1>8. tx[t].orphaned = {} /\ tx[t].claimed = <<>>
  BY <1>1 DEF Shape
<1>9. Shape(t)'
  BY <1>1, <1>2, <1>7, <1>8 DEF Shape, RowSteps
<1>10. Protected(t)'
  BY <1>7, <1>8 DEF Protected, Writing, Deleting
<1> QED
  BY <1>6, <1>7, <1>9, <1>10, FormStays, OneConnection

LEMMA BeginUpdateKeeps ==
  ASSUME Inv, NEW t \in Connections, BeginUpdate(t)
  PROVE  Inv'
<1>1. PICK p \in Patches :
        Begins(t, [tx[t] EXCEPT !.pc = "lockRow", !.op = "update",
                                !.at = tx[t].doc, !.patch = p])
  BY DEF BeginUpdate
<1>2. p \in Patch /\ tx[t].pc = "composing"
  BY ContentAssumption DEF ContentAssumption, BeginUpdate
<1> QED
  BY <1>1, <1>2, ComposedBegins

LEMMA BeginRestoreKeeps ==
  ASSUME Inv, NEW t \in Connections, BeginRestore(t)
  PROVE  Inv'
<1>1. tx[t].pc = "composing" /\ tx[t].doc \in Docs
  BY DEF BeginRestore, Inv, Shape
<1>2. PICK r \in revisions[tx[t].doc] :
        Begins(t, [tx[t] EXCEPT !.pc = "lockRow", !.op = "restore",
                                !.at = tx[t].doc, !.patch = r.state])
  BY DEF BeginRestore
<1>3. r \in Revision
  BY <1>1 DEF Inv, TypeOK
<1>4. r.state \in Patch
  BY <1>3 DEF Revision, State, Patch
<1> QED
  BY <1>1, <1>2, <1>4, ComposedBegins

LEMMA LockForUpdateKeeps ==
  ASSUME Inv, NEW t \in Connections, LockForUpdate(t)
  PROVE  Inv'
<1>1. CASE Refuse(t)
  BY <1>1, RefuseKeeps
<1>2. CASE ~Refuse(t)
  <2> DEFINE d       == tx[t].doc
             current == rows[d]
             next    == Derive(t, current)
             moves   == next.parent \notin {None, current.state.parent}
             step    == IF moves THEN "walk" ELSE "commit"
             at      == IF moves THEN next.parent ELSE None
             r == [tx[t] EXCEPT !.pc = step, !.at = at, !.cur = current,
                     !.next = next, !.type = current.type, !.locale = current.locale]
  <2>1. /\ tx[t] \in Transaction /\ Shape(t) /\ tx[t].op \in {"update", "restore"}
        /\ tx[t].pc = "lockRow"
    BY DEF Inv, TypeOK, LockForUpdate
  <2>2. /\ tx' = [tx EXCEPT ![t] = r] /\ UNCHANGED <<db, groupLock, ticks, now>>
        /\ RowFree(t, d) /\ TakeRow(t, d) /\ ~UpdateRefused(t)
    BY <1>2 DEF LockForUpdate, Moves
  <2>3. d \in Docs /\ current \in Row /\ tx[t].patch \in Patch
    BY <2>1, <2>2 DEF Shape, UpdateRefused, Inv, TypeOK, MaybeRow
  <2>4. /\ current.version = tx[t].form.version
        /\ CanWrite(Actor(tx[t].user), current.author, current.state.status, next.status)
    BY <2>2 DEF UpdateRefused, StaleVersion, MayUpdate
  <2>5. next \in State
    BY <2>3, DeriveTyped DEF Inv
  <2> HIDE DEF next
  <2>6. next.parent \in Docs \cup {None}
    BY <2>5 DEF State
  <2>7. /\ step \in Steps /\ at \in Optional(Docs) /\ current \in MaybeRow
        /\ next \in Optional(State) /\ current.type \in Optional(Types)
        /\ current.locale \in Optional(Locales)
    BY <2>3, <2>5, <2>6, StepNames DEF Row, Optional, MaybeRow
  <2>8. /\ (step = "walk" /\ at \in Docs) \/ step = "commit"
    BY <2>6
  <2> HIDE DEF step, at, current
  <2>9. r \in Transaction
    BY <2>1, <2>7 DEF Transaction
  <2>10. TypeOK' /\ Frame(t) /\ tx'[t] = r
    <3> HIDE DEF r
    <3> QED
      BY <2>2, <2>3, <2>9, TakeRowFacts, LocalStep DEF Inv, TypeOK
  <2>11. /\ tx'[t].pc = step /\ tx'[t].op = tx[t].op /\ tx'[t].at = at
         /\ tx'[t].doc = tx[t].doc /\ tx'[t].form = tx[t].form
         /\ tx'[t].user = tx[t].user /\ tx'[t].next = next
         /\ tx'[t].orphaned = tx[t].orphaned /\ tx'[t].claimed = tx[t].claimed
         /\ tx'[t].cur = current /\ tx'[t].patch = tx[t].patch
    BY <2>1, <2>10 DEF Transaction
  <2>12. tx[t].orphaned = {} /\ tx[t].claimed = <<>>
    BY <2>1 DEF Shape
  <2>13. Shape(t)'
    BY <2>1, <2>8, <2>11, <2>12 DEF Shape, RowSteps
  <2>14. Protected(t)'
    <3>1. rowLock'[d] = t /\ rows'[d] = current
      BY <2>2, <2>3, TakeRowFacts DEF db, current
    <3>2. ~Deleting(t)'
      BY <2>1, <2>11 DEF Deleting
    <3> QED
      BY <2>3, <2>4, <2>5, <2>11, <2>12, <3>1, <3>2 DEF Protected, Actor
  <2> QED
    BY <2>10, <2>11, <2>13, <2>14, FormStays, OneConnection
<1> QED
  BY <1>1, <1>2

-----------------------------------------------------------------------------
(* A deletion, up to its commit.                                           *)

LEMMA BeginDeleteKeeps ==
  ASSUME Inv, NEW t \in Connections, NEW u \in UserIds, NEW d \in Docs,
         BeginDelete(t, u, d)
  PROVE  Inv'
<1> DEFINE r == [Idle EXCEPT !.pc = "lockGroup", !.op = "delete", !.user = u,
                   !.doc = d, !.group = rows[d].group, !.at = d,
                   !.started = ticks + 1, !.clock = now]
<1>1. rows[d] \in Row /\ d \in born
  BY DEF BeginDelete, Inv, TypeOK, Known, Exists, MaybeRow
<1>2. rows[d].group \in Groups
  BY <1>1 DEF Row
<1>3. ticks + 1 \in Nat /\ now \in Times
  BY DEF Inv, TypeOK
<1>4. r \in Transaction
  BY <1>2, <1>3, IdleTyped, StepNames, OperationNames, Options DEF Transaction
<1>5. tx' = [tx EXCEPT ![t] = r] /\ UNCHANGED <<db, locks, now>> /\ ticks' = ticks + 1
  BY DEF BeginDelete, Begins, Moves, Idle
<1>6. TypeOK' /\ Frame(t) /\ tx'[t] = r
  <2> HIDE DEF r
  <2> QED
    BY <1>3, <1>4, <1>5, LocalStep DEF Inv, TypeOK, locks
<1>7. Shape(t)'
  BY <1>2, <1>6 DEF Shape, Idle, RowSteps
<1>8. Protected(t)'
  BY <1>6 DEF Protected, Idle, Writing, Deleting
<1>9. FormKept(t)
  BY <1>1, <1>6 DEF FormKept, Idle
<1> QED
  BY <1>6, <1>7, <1>8, <1>9, OneConnection

LEMMA LockGroupOfDeletedKeeps ==
  ASSUME Inv, NEW t \in Connections, LockGroupOfDeleted(t)
  PROVE  Inv'
<1> DEFINE r == [tx[t] EXCEPT !.pc = "lockRow"]
<1>1. /\ tx[t] \in Transaction /\ Shape(t) /\ tx[t].op = "delete"
      /\ tx[t].pc = "lockGroup"
  BY DEF Inv, TypeOK, LockGroupOfDeleted
<1>2. r \in Transaction
  BY <1>1, StepNames DEF Transaction
<1>3. tx' = [tx EXCEPT ![t] = r] /\ UNCHANGED <<db, rowLock, ticks, now>>
  BY DEF LockGroupOfDeleted, Moves
<1>4. groupLock' \in [Groups -> Optional(Connections)]
  BY DEF LockGroupOfDeleted, Inv, TypeOK, TakeGroup, Optional
<1>5. TypeOK' /\ Frame(t) /\ tx'[t] = r
  <2> HIDE DEF r
  <2> QED
    BY <1>2, <1>3, <1>4, LocalStep DEF Inv, TypeOK
<1>6. /\ tx'[t].pc = "lockRow" /\ tx'[t].op = "delete" /\ tx'[t].at = tx[t].at
      /\ tx'[t].doc = tx[t].doc /\ tx'[t].form = tx[t].form
      /\ tx'[t].user = tx[t].user /\ tx'[t].next = tx[t].next
      /\ tx'[t].orphaned = tx[t].orphaned /\ tx'[t].claimed = tx[t].claimed
      /\ tx'[t].cur = tx[t].cur /\ tx'[t].clock = tx[t].clock
  BY <1>1, <1>5 DEF Transaction
<1>7. Shape(t)'
  BY <1>1, <1>6 DEF Shape, RowSteps
<1>8. Protected(t)'
  <2>1. ~Writing(t)' /\ ~Deleting(t)'
    BY <1>6 DEF Writing, Deleting
  <2> QED
    BY <1>3, <1>6, <2>1, StillProtected DEF db
<1> QED
  BY <1>5, <1>6, <1>7, <1>8, FormStays, OneConnection

LEMMA LockForDeleteKeeps ==
  ASSUME Inv, NEW t \in Connections, LockForDelete(t)
  PROVE  Inv'
<1>1. CASE Refuse(t)
  BY <1>1, RefuseKeeps
<1>2. CASE ~Refuse(t)
  <2>1. /\ tx[t] \in Transaction /\ Shape(t) /\ tx[t].op = "delete"
        /\ tx[t].pc = "lockRow" /\ tx[t].doc \in Docs
    BY DEF Inv, TypeOK, LockForDelete, Shape
  <2>2. PICK c \in SomeOf(ChildrenOf(tx[t].doc)) :
          Moves(t, [tx[t] EXCEPT
            !.pc = IF c = None THEN "commit" ELSE "lockChildren",
            !.at = c, !.cur = rows[tx[t].doc], !.children = ChildrenOf(tx[t].doc)])
    BY <1>2 DEF LockForDelete
  <2>3. /\ RowFree(t, tx[t].doc) /\ TakeRow(t, tx[t].doc)
        /\ UNCHANGED <<db, groupLock, ticks, now>>
    BY <1>2 DEF LockForDelete
  <2> DEFINE d        == tx[t].doc
             step     == IF c = None THEN "commit" ELSE "lockChildren"
             children == ChildrenOf(d)
             current  == rows[d]
             r == [tx[t] EXCEPT !.pc = step, !.at = c, !.cur = current,
                                !.children = children]
  <2>4. /\ c \in Optional(Docs) /\ step \in Steps /\ current \in MaybeRow
        /\ children \in SUBSET Docs
        /\ (step = "lockChildren" /\ c \in Docs) \/ step = "commit"
    BY <2>1, <2>2, StepNames DEF SomeOf, ChildrenOf, Optional, Inv, TypeOK
  <2>5. tx' = [tx EXCEPT ![t] = r]
    BY <2>2 DEF Moves
  <2> HIDE DEF step, children, current
  <2>6. r \in Transaction
    BY <2>1, <2>4 DEF Transaction
  <2>7. TypeOK' /\ Frame(t) /\ tx'[t] = r
    <3> HIDE DEF r
    <3> QED
      BY <2>1, <2>3, <2>5, <2>6, TakeRowFacts, LocalStep DEF Inv, TypeOK
  <2>8. /\ tx'[t].pc = step /\ tx'[t].op = "delete" /\ tx'[t].at = c
        /\ tx'[t].doc = tx[t].doc /\ tx'[t].form = tx[t].form
        /\ tx'[t].orphaned = tx[t].orphaned /\ tx'[t].claimed = tx[t].claimed
        /\ tx'[t].clock = tx[t].clock
    BY <2>1, <2>7 DEF Transaction
  <2>9. Shape(t)'
    BY <2>1, <2>4, <2>8 DEF Shape, RowSteps
  <2>10. Protected(t)'
    <3>1. ~Writing(t)' /\ rowLock'[d] = t
      BY <2>1, <2>3, <2>8, TakeRowFacts DEF Writing
    <3>2. (\A x \in tx[t].orphaned : rowLock[x] = t /\ x \in ChildrenOf(tx[t].doc))'
      <4>1. \A x \in tx[t].orphaned :
              x \in Docs /\ rowLock[x] = t /\ x \in ChildrenOf(tx[t].doc)
        BY <2>1 DEF Inv, Protected, Transaction
      <4> QED
        BY <2>1, <2>3, <2>8, <4>1, TakeRowFacts DEF ChildrenOf, Exists, db
    <3>3. tx'[t].claimed = <<>>
      BY <2>1, <2>8 DEF Shape
    <3> QED
      BY <2>8, <3>1, <3>2, <3>3 DEF Protected
  <2> QED
    BY <2>7, <2>8, <2>9, <2>10, FormStays, OneConnection
<1> QED
  BY <1>1, <1>2

LEMMA LockChildKeeps ==
  ASSUME Inv, NEW t \in Connections, LockChild(t)
  PROVE  Inv'
<1> DEFINE c     == tx[t].at
           left  == tx[t].children \ {c}
           still == c \in ChildrenOf(tx[t].doc)
<1>1. /\ tx[t] \in Transaction /\ Shape(t) /\ Protected(t)
      /\ tx[t].pc = "lockChildren" /\ tx[t].op = "delete"
      /\ tx[t].doc \in Docs /\ c \in Docs
  BY DEF Inv, TypeOK, LockChild, Shape, RowSteps
<1>2. PICK e \in SomeOf(left) :
        Moves(t, [tx[t] EXCEPT
          !.pc = IF e = None THEN "commit" ELSE "lockChildren",
          !.at = e, !.children = left,
          !.orphaned = IF still THEN @ \cup {c} ELSE @])
  BY DEF LockChild
<1>3. /\ RowFree(t, c)
      /\ (Exists(c) => TakeRow(t, c)) /\ (~Exists(c) => UNCHANGED rowLock)
      /\ UNCHANGED <<db, groupLock, ticks, now>>
  BY DEF LockChild
<1> DEFINE step     == IF e = None THEN "commit" ELSE "lockChildren"
           orphaned == IF still THEN tx[t].orphaned \cup {c} ELSE tx[t].orphaned
           r == [tx[t] EXCEPT !.pc = step, !.at = e, !.children = left,
                              !.orphaned = orphaned]
<1>4. tx[t].children \subseteq Docs /\ tx[t].orphaned \subseteq Docs
  BY <1>1 DEF Transaction
<1>5. /\ e \in Optional(Docs) /\ step \in Steps /\ left \in SUBSET Docs
      /\ orphaned \in SUBSET Docs
      /\ (step = "lockChildren" /\ e \in Docs) \/ step = "commit"
  BY <1>1, <1>2, <1>4, StepNames DEF SomeOf, Optional
<1>6. tx' = [tx EXCEPT ![t] = r]
  BY <1>1, <1>2 DEF Moves, Transaction
<1>7. /\ rowLock' \in [Docs -> Optional(Connections)]
      /\ \A x \in Docs : rowLock[x] = t => rowLock'[x] = t
      /\ \A x \in Docs : rowLock[x] \notin {None, t} => rowLock'[x] = rowLock[x]
      /\ still => rowLock'[c] = t
  <2>1. still => Exists(c)
    BY <1>1 DEF ChildrenOf
  <2>2. CASE Exists(c)
    BY <1>1, <1>3, <2>2, TakeRowFacts
  <2>3. CASE ~Exists(c)
    BY <1>3, <2>1, <2>3 DEF Inv, TypeOK
  <2> QED
    BY <2>2, <2>3
<1>8. \A x \in orphaned :
        x \in Docs /\ rowLock'[x] = t /\ x \in ChildrenOf(tx[t].doc)
  BY <1>1, <1>4, <1>7 DEF Protected
<1> HIDE DEF step, left, orphaned, still
<1>9. r \in Transaction
  BY <1>1, <1>5 DEF Transaction
<1>10. TypeOK' /\ Frame(t) /\ tx'[t] = r
  <2> HIDE DEF r
  <2> QED
    BY <1>3, <1>6, <1>7, <1>9, LocalStep DEF Inv, TypeOK
<1>11. /\ tx'[t].pc = step /\ tx'[t].op = "delete" /\ tx'[t].at = e
       /\ tx'[t].doc = tx[t].doc /\ tx'[t].form = tx[t].form
       /\ tx'[t].orphaned = orphaned /\ tx'[t].claimed = tx[t].claimed
       /\ tx'[t].clock = tx[t].clock
  BY <1>1, <1>10 DEF Transaction
<1>12. Shape(t)'
  BY <1>1, <1>5, <1>11 DEF Shape, RowSteps
<1>13. Protected(t)'
  <2>1. ~Writing(t)' /\ rowLock'[tx[t].doc] = t
    BY <1>1, <1>7, <1>11 DEF Writing, Protected, Deleting
  <2>2. (\A x \in tx[t].orphaned : rowLock[x] = t /\ x \in ChildrenOf(tx[t].doc))'
    BY <1>3, <1>8, <1>11 DEF ChildrenOf, Exists, db
  <2>3. tx'[t].claimed = <<>>
    BY <1>1, <1>11 DEF Shape
  <2> QED
    BY <1>11, <2>1, <2>2, <2>3 DEF Protected
<1> QED
  BY <1>10, <1>11, <1>12, <1>13, FormStays, OneConnection

-----------------------------------------------------------------------------
(* A publish pass, up to its commit.                                       *)

LEMMA NextDueTyped ==
  ASSUME NEW due \in DueRows, NEW d \in NextDue(due)
  PROVE  d = None \/ d \in Docs
BY DEF NextDue, Earliest, DueRows

LEMMA BeginPublishDueKeeps ==
  ASSUME Inv, NEW t \in Connections, BeginPublishDue(t)
  PROVE  Inv'
<1> DEFINE due == {<<rows[d].state.date, d>> : d \in {e \in Docs : IsDue(e, now)}}
<1>1. /\ due # {} /\ UNCHANGED <<db, locks, now>>
      /\ \E d \in NextDue(due) :
           Begins(t, [Idle EXCEPT !.pc = "claim", !.op = "publishDue",
                                  !.due = due, !.at = d])
  BY DEF BeginPublishDue, Begins
<1>2. due \in DueRows
  <2>1. \A e \in Docs : IsDue(e, now) => rows[e].state.date \in Times
    BY DEF IsDue, Exists, Inv, TypeOK, MaybeRow, Row, State
  <2> QED
    BY <2>1 DEF DueRows
<1> HIDE DEF due
<1>3. PICK d \in NextDue(due) :
        Begins(t, [Idle EXCEPT !.pc = "claim", !.op = "publishDue",
                               !.due = due, !.at = d])
  BY <1>1
<1> DEFINE r == [Idle EXCEPT !.pc = "claim", !.op = "publishDue", !.due = due,
                   !.at = d, !.started = ticks + 1, !.clock = now]
<1>4. d \in Docs
  BY <1>1, <1>2 DEF NextDue, Earliest, DueRows
<1>5. ticks + 1 \in Nat /\ now \in Times
  BY DEF Inv, TypeOK
<1>6. r \in Transaction
  BY <1>2, <1>4, <1>5, IdleTyped, StepNames, OperationNames, Options DEF Transaction
<1>7. tx' = [tx EXCEPT ![t] = r] /\ ticks' = ticks + 1
  BY <1>3 DEF Begins, Moves, Idle
<1>8. TypeOK' /\ Frame(t) /\ tx'[t] = r
  <2> HIDE DEF r
  <2> QED
    BY <1>1, <1>5, <1>6, <1>7, LocalStep DEF Inv, TypeOK, locks
<1>9. Shape(t)'
  BY <1>4, <1>8 DEF Shape, Idle, RowSteps
<1>10. Protected(t)'
  BY <1>8 DEF Protected, Idle, Writing, Deleting
<1>11. FormKept(t)
  BY <1>8 DEF FormKept, Idle
<1> QED
  BY <1>8, <1>9, <1>10, <1>11, OneConnection

LEMMA ClaimKeeps ==
  ASSUME Inv, NEW t \in Connections, Claim(t)
  PROVE  Inv'
<1> DEFINE d       == tx[t].at
           left    == tx[t].due \ Earliest(tx[t].due)
           still   == StillDue(t, d)
           claimed == IF still THEN Append(tx[t].claimed, d) ELSE tx[t].claimed
<1>1. /\ tx[t] \in Transaction /\ Shape(t) /\ Protected(t)
      /\ tx[t].pc = "claim" /\ tx[t].op = "publishDue" /\ d \in Docs
  BY DEF Inv, TypeOK, Claim, Shape, RowSteps
<1>2. /\ RowFree(t, d)
      /\ (Exists(d) => TakeRow(t, d)) /\ (~Exists(d) => UNCHANGED rowLock)
      /\ UNCHANGED <<db, groupLock, ticks, now>>
  BY DEF Claim
<1>3. PICK e \in NextDue(left) :
        Moves(t, [tx[t] EXCEPT !.pc = IF e = None THEN "commit" ELSE "claim",
                               !.due = left, !.at = e,
                               !.claimed = IF still THEN Append(@, d) ELSE @])
  BY DEF Claim
<1> DEFINE step == IF e = None THEN "commit" ELSE "claim"
           r == [tx[t] EXCEPT !.pc = step, !.due = left, !.at = e, !.claimed = claimed]
<1>4. tx[t].due \in DueRows /\ tx[t].claimed \in Seq(Docs)
  BY <1>1 DEF Transaction
<1>5. left \in DueRows
  BY <1>4 DEF DueRows
<1>6. /\ e \in Optional(Docs) /\ step \in Steps
      /\ (step = "claim" /\ e \in Docs) \/ step = "commit"
  BY <1>3, <1>5, NextDueTyped, StepNames DEF Optional
<1>7. claimed \in Seq(Docs)
  BY <1>1, <1>4
<1>8. tx' = [tx EXCEPT ![t] = r]
  BY <1>1, <1>3 DEF Moves, Transaction
<1>9. /\ rowLock' \in [Docs -> Optional(Connections)]
      /\ \A x \in Docs : rowLock[x] = t => rowLock'[x] = t
      /\ \A x \in Docs : rowLock[x] \notin {None, t} => rowLock'[x] = rowLock[x]
      /\ still => rowLock'[d] = t
  <2>1. still => Exists(d)
    BY <1>1 DEF StillDue, IsDue
  <2>2. CASE Exists(d)
    BY <1>1, <1>2, <2>2, TakeRowFacts
  <2>3. CASE ~Exists(d)
    BY <1>2, <2>1, <2>3 DEF Inv, TypeOK
  <2> QED
    BY <2>2, <2>3
<1>10. \A i \in 1..Len(claimed) :
         /\ claimed[i] \in Docs /\ rowLock'[claimed[i]] = t
         /\ IsDue(claimed[i], tx[t].clock)
  <2>1. \A i \in 1..Len(tx[t].claimed) :
          /\ tx[t].claimed[i] \in Docs /\ rowLock'[tx[t].claimed[i]] = t
          /\ IsDue(tx[t].claimed[i], tx[t].clock)
    BY <1>1, <1>4, <1>9 DEF Protected
  <2>2. CASE ~still
    BY <2>1, <2>2
  <2>3. CASE still
    <3> SUFFICES ASSUME NEW i \in 1..Len(claimed)
                 PROVE  /\ claimed[i] \in Docs /\ rowLock'[claimed[i]] = t
                        /\ IsDue(claimed[i], tx[t].clock)
      OBVIOUS
    <3>1. \/ /\ i \in 1..Len(tx[t].claimed)
             /\ claimed[i] = tx[t].claimed[i]
          \/ claimed[i] = d
      BY <1>1, <1>4, <2>3
    <3> QED
      BY <1>1, <1>9, <2>1, <2>3, <3>1 DEF StillDue
  <2> QED
    BY <2>2, <2>3
<1> HIDE DEF step, left, claimed, still
<1>11. r \in Transaction
  BY <1>1, <1>5, <1>6, <1>7 DEF Transaction
<1>12. TypeOK' /\ Frame(t) /\ tx'[t] = r
  <2> HIDE DEF r
  <2> QED
    BY <1>2, <1>8, <1>9, <1>11, LocalStep DEF Inv, TypeOK
<1>13. /\ tx'[t].pc = step /\ tx'[t].op = "publishDue" /\ tx'[t].at = e
       /\ tx'[t].doc = tx[t].doc /\ tx'[t].form = tx[t].form
       /\ tx'[t].orphaned = tx[t].orphaned /\ tx'[t].claimed = claimed
       /\ tx'[t].clock = tx[t].clock
  BY <1>1, <1>12 DEF Transaction
<1>14. Shape(t)'
  BY <1>1, <1>6, <1>13 DEF Shape, RowSteps
<1>15. Protected(t)'
  <2>1. ~Writing(t)' /\ ~Deleting(t)'
    BY <1>13 DEF Writing, Deleting
  <2>2. (\A i \in 1..Len(tx[t].claimed) :
           rowLock[tx[t].claimed[i]] = t /\ IsDue(tx[t].claimed[i], tx[t].clock))'
    BY <1>2, <1>10, <1>13 DEF IsDue, Exists, db
  <2>3. tx'[t].orphaned = {}
    BY <1>1, <1>13 DEF Shape
  <2> QED
    BY <2>1, <2>2, <2>3 DEF Protected
<1> QED
  BY <1>12, <1>13, <1>14, <1>15, FormStays, OneConnection

-----------------------------------------------------------------------------
(* The commits.                                                            *)

LEMMA CommitFacts ==
  ASSUME Inv, NEW t \in Connections, NEW events \in Seq(Announcement),
         Commits(t, events)
  PROVE  /\ tx' \in [Connections -> Transaction] /\ ticks' \in Nat /\ now' \in Times
         /\ \A s \in Connections \ {t} : tx'[s] = tx[s]
         /\ rowLock' \in [Docs -> Optional(Connections)]
         /\ groupLock' \in [Groups -> Optional(Connections)]
         /\ \A d \in Docs : rowLock[d] \notin {None, t} => rowLock'[d] = rowLock[d]
         /\ Shape(t)' /\ Protected(t)' /\ FormKept(t)
<1> DEFINE r == [Idle EXCEPT !.pc = "announce", !.outbox = events]
<1>1. r \in Transaction
  BY IdleTyped, StepNames DEF Transaction
<1>2. tx' = [tx EXCEPT ![t] = r] /\ Release(t) /\ UNCHANGED <<ticks, now>>
  BY DEF Commits, Moves
<1>3. /\ tx' \in [Connections -> Transaction] /\ tx'[t] = r
      /\ \A s \in Connections \ {t} : tx'[s] = tx[s]
  <2> HIDE DEF r
  <2> QED
    BY <1>1, <1>2 DEF Inv, TypeOK
<1>4. /\ tx'[t].pc = "announce" /\ tx'[t].op = "none" /\ tx'[t].doc = None
      /\ tx'[t].form = Absent /\ tx'[t].orphaned = {} /\ tx'[t].claimed = <<>>
  BY <1>3 DEF Idle
<1>5. Shape(t)' /\ Protected(t)' /\ FormKept(t)
  BY <1>4, NothingHeld
<1> QED
  BY <1>2, <1>3, <1>5, ReleaseFacts DEF Inv, TypeOK

LEMMA NextVersion ==
  ASSUME NEW row \in Row, NEW state \in State
  PROVE  LET next == [row EXCEPT !.state = state, !.version = @ + 1]
         IN next \in Row /\ next.version = row.version + 1 /\ next.state = state
<1>1. row.version \in Nat \ {0}
  BY DEF Row
<1>2. row.version + 1 \in Nat \ {0}
  BY <1>1
<1> QED
  BY <1>2 DEF Row

LEMMA SyncTyped ==
  ASSUME Inv, NEW d \in Docs, NEW refs \in SUBSET Media
  PROVE  SyncMediaReferences(d, refs) \in [Docs -> SUBSET Media]
BY DEF Inv, TypeOK, SyncMediaReferences

LEMMA CommitCreateKeeps ==
  ASSUME Inv, NEW t \in Connections, CommitCreate(t)
  PROVE  Inv'
<1>1. CASE Refuse(t)
  BY <1>1, RefuseKeeps
<1>2. CASE ~Refuse(t)
  <2>1. PICK d \in Docs \ born,
             g \in IF tx[t].group = None THEN Groups \ born ELSE {tx[t].group} :
          LET row == [type |-> tx[t].type, locale |-> tx[t].locale, group |-> g,
                      author |-> tx[t].user, version |-> 1, state |-> tx[t].next]
          IN /\ rows' = [rows EXCEPT ![d] = row]
             /\ groups' = [groups EXCEPT ![g] = tx[t].type]
             /\ uses' = SyncMediaReferences(d, row.state.refs)
             /\ born' = born \cup {d, g}
             /\ Commits(t, About(d, <<"content:created">>))
             /\ UNCHANGED <<media, revisions>>
    BY <1>2 DEF CommitCreate
  <2> DEFINE row == [type |-> tx[t].type, locale |-> tx[t].locale, group |-> g,
                     author |-> tx[t].user, version |-> 1, state |-> tx[t].next]
  <2>2. /\ tx[t] \in Transaction /\ tx[t].user \in UserIds /\ tx[t].type \in Types
        /\ tx[t].locale \in Locales /\ tx[t].next \in State
    BY DEF CommitCreate, Inv, TypeOK, Shape
  <2>3. g \in Groups
    <3>1. tx[t].group \in Optional(Groups)
      BY <2>2 DEF Transaction
    <3> QED
      BY <2>1, <3>1, Options
  <2>4. row \in Row
    BY <2>2, <2>3 DEF Row
  <2>5. row.state.refs \in SUBSET Media
    BY <2>2 DEF State
  <2>6. <<"content:created">> \in Seq(Event)
    BY DEF Event
  <2>7. About(d, <<"content:created">>) \in Seq(Announcement)
    BY <2>6, AboutTyped
  <2> HIDE DEF row
  <2>8. TypeOK'
    <3>1. rows' \in [Docs -> MaybeRow]
      BY <2>1, <2>4 DEF Inv, TypeOK, MaybeRow, row
    <3>2. groups' \in [Groups -> Types \cup {Absent}]
      BY <2>1, <2>2 DEF Inv, TypeOK
    <3>3. uses' \in [Docs -> SUBSET Media]
      BY <2>1, <2>5, SyncTyped DEF row
    <3>4. media' \subseteq Media /\ revisions' \in [Docs -> SUBSET Revision]
            /\ born' \subseteq Docs \cup Groups
      BY <2>1, <2>3 DEF Inv, TypeOK
    <3> QED
      BY <2>1, <2>7, <3>1, <3>2, <3>3, <3>4, CommitFacts DEF TypeOK
  <2>9. Frame(t)
    <3>1. \A e \in Docs \ {d} : rows'[e] = rows[e]
      BY <2>1 DEF Inv, TypeOK
    <3> QED
      BY <2>1, <2>7, <3>1, CommitFacts DEF Frame, Evolves, Inv, Known, Exists
  <2> QED
    BY <2>1, <2>7, <2>8, <2>9, CommitFacts, OneConnection
<1> QED
  BY <1>1, <1>2

LEMMA CommitUpdateKeeps ==
  ASSUME Inv, NEW t \in Connections, CommitUpdate(t)
  PROVE  Inv'
<1>1. CASE Refuse(t)
  BY <1>1, RefuseKeeps
<1>2. CASE ~Refuse(t)
  <2> DEFINE d   == tx[t].doc
             row == [tx[t].cur EXCEPT !.state = tx[t].next, !.version = @ + 1]
             names == TransitionsFor(tx[t].cur.state.status, tx[t].next.status)
  <2>1. /\ rows' = [rows EXCEPT ![d] = row]
        /\ revisions' = [revisions EXCEPT ![d] = Superseded(t, d, tx[t].cur)]
        /\ uses' = SyncMediaReferences(d, row.state.refs)
        /\ Commits(t, About(d, names))
        /\ UNCHANGED <<groups, media, born>>
    BY <1>2 DEF CommitUpdate
  <2>2. /\ d \in Docs /\ rowLock[d] = t /\ tx[t].cur \in Row
        /\ rows[d] = tx[t].cur /\ tx[t].next \in State
    BY DEF CommitUpdate, Inv, Shape, Protected, Writing
  <2>3. row \in Row /\ row.version = rows[d].version + 1 /\ row.state = tx[t].next
    BY <2>2, NextVersion
  <2>4. row.state.refs \in SUBSET Media
    BY <2>2, <2>3 DEF State
  <2>5. About(d, names) \in Seq(Announcement)
    BY <2>2, AboutTyped, TransitionsTyped
  <2> HIDE DEF row, names
  <2>6. TypeOK'
    <3>1. rows' \in [Docs -> MaybeRow]
      BY <2>1, <2>3 DEF Inv, TypeOK, MaybeRow
    <3>2. revisions' \in [Docs -> SUBSET Revision]
      BY <2>1, <2>2, SupersededTyped DEF Inv, TypeOK
    <3>3. uses' \in [Docs -> SUBSET Media]
      BY <2>1, <2>2, <2>4, SyncTyped
    <3>4. /\ media' \subseteq Media /\ groups' \in [Groups -> Types \cup {Absent}]
          /\ born' \subseteq Docs \cup Groups
      BY <2>1 DEF Inv, TypeOK
    <3> QED
      BY <2>1, <2>5, <3>1, <3>2, <3>3, <3>4, CommitFacts DEF TypeOK
  <2>7. Frame(t)
    <3>1. rows'[d] = row /\ \A e \in Docs \ {d} : rows'[e] = rows[e]
      BY <2>1, <2>2 DEF Inv, TypeOK
    <3> QED
      BY <2>1, <2>2, <2>3, <2>5, <3>1, NoValues, CommitFacts
      DEF Frame, Evolves, Inv, Known, Exists
  <2> QED
    BY <2>1, <2>5, <2>6, <2>7, CommitFacts, OneConnection
<1> QED
  BY <1>1, <1>2

LEMMA CommitDeleteKeeps ==
  ASSUME Inv, NEW t \in Connections, CommitDelete(t)
  PROVE  Inv'
<1>1. CASE Refuse(t)
  BY <1>1, RefuseKeeps
<1>2. CASE ~Refuse(t)
  <2> DEFINE d == tx[t].doc
             g == tx[t].group
  <2>1. /\ rows' = [e \in Docs |->
                      IF e = d THEN Absent
                      ELSE IF e \in tx[t].orphaned
                           THEN [rows[e] EXCEPT !.state.parent = None]
                           ELSE rows[e]]
        /\ groups' = IF Emptied(d, g) THEN [groups EXCEPT ![g] = Absent] ELSE groups
        /\ revisions' = [revisions EXCEPT ![d] = {}]
        /\ uses' = [uses EXCEPT ![d] = {}]
        /\ Commits(t, About(d, <<"content:deleted">>))
        /\ UNCHANGED <<media, born>>
    BY <1>2 DEF CommitDelete
  <2>2. d \in Docs /\ rowLock[d] = t
    BY DEF CommitDelete, Inv, Shape, Protected, Deleting
  <2>3. \A c \in tx[t].orphaned : c \in Docs /\ rowLock[c] = t /\ rows[c] \in Row
    BY DEF Inv, TypeOK, Protected, ChildrenOf, Exists, MaybeRow
  <2>4. \A row \in Row : [row EXCEPT !.state.parent = None] \in Row
    BY DEF Row, State
  <2>5. <<"content:deleted">> \in Seq(Event)
    BY DEF Event
  <2>6. About(d, <<"content:deleted">>) \in Seq(Announcement)
    BY <2>2, <2>5, AboutTyped
  <2>7. TypeOK'
    <3>1. rows' \in [Docs -> MaybeRow]
      BY <2>1, <2>3, <2>4 DEF Inv, TypeOK, MaybeRow
    <3>2. /\ revisions' \in [Docs -> SUBSET Revision]
          /\ uses' \in [Docs -> SUBSET Media]
          /\ groups' \in [Groups -> Types \cup {Absent}]
      BY <2>1 DEF Inv, TypeOK
    <3>3. media' \subseteq Media /\ born' \subseteq Docs \cup Groups
      BY <2>1 DEF Inv, TypeOK
    <3> QED
      BY <2>1, <2>6, <3>1, <3>2, <3>3, CommitFacts DEF TypeOK
  <2>8. Frame(t)
    <3>1. \A e \in Docs : Evolves(t, e)
      BY <2>1, <2>2, <2>3 DEF Evolves, Inv, TypeOK, MaybeRow
    <3>2. \A e \in Docs : rows'[e] # Absent => rows[e] # Absent
      BY <2>1, <2>3, NoValues
    <3> QED
      BY <2>1, <2>6, <3>1, <3>2, CommitFacts DEF Frame, Inv, Known, Exists
  <2> QED
    BY <2>1, <2>6, <2>7, <2>8, CommitFacts, OneConnection
<1> QED
  BY <1>1, <1>2

LEMMA CommitPublishDueKeeps ==
  ASSUME Inv, NEW t \in Connections, CommitPublishDue(t)
  PROVE  Inv'
<1>1. /\ rows' = [d \in Docs |->
                    IF d \in Claimed(t) THEN Publish(rows[d]) ELSE rows[d]]
      /\ revisions' = [d \in Docs |-> IF d \in Claimed(t)
                                      THEN Superseded(t, d, rows[d])
                                      ELSE revisions[d]]
      /\ Commits(t, PublicationEvents(t))
      /\ UNCHANGED <<groups, media, uses, born>>
  BY DEF CommitPublishDue
<1>2. tx[t].claimed \in Seq(Docs)
  BY DEF Inv, TypeOK, Transaction
<1>3. \A d \in Claimed(t) : d \in Docs /\ rowLock[d] = t /\ rows[d] \in Row
  <2>1. \A d \in Claimed(t) : d \in Docs
    BY <1>2 DEF Claimed
  <2>2. \A d \in Claimed(t) : rowLock[d] = t /\ rows[d] # Absent
    BY DEF Claimed, Inv, Protected, IsDue, Exists
  <2> QED
    BY <2>1, <2>2 DEF Inv, TypeOK, MaybeRow
<1>4. \A row \in Row : Publish(row) \in Row /\ Publish(row).version = row.version + 1
  <2> SUFFICES ASSUME NEW row \in Row
               PROVE  Publish(row) \in Row /\ Publish(row).version = row.version + 1
    OBVIOUS
  <2>1. "published" \in Statuses /\ row.state \in State
    BY DEF Statuses, Row
  <2> DEFINE state == [row.state EXCEPT !.status = "published"]
             next  == [row EXCEPT !.state = state, !.version = @ + 1]
  <2>2. state \in State
    BY <2>1 DEF State
  <2>3. Publish(row) = next
    BY DEF Publish, Row
  <2> HIDE DEF state
  <2>4. next \in Row /\ next.version = row.version + 1
    BY <2>2, NextVersion
  <2> QED
    BY <2>3, <2>4
<1>5. PublicationEvents(t) \in Seq(Announcement)
  <2> DEFINE n == Len(tx[t].claimed)
             event(i) == [doc  |-> tx[t].claimed[(i + 1) \div 2],
                          name |-> IF i % 2 = 1 THEN "content:updated"
                                                ELSE "content:published"]
  <2>1. n \in Nat
    BY <1>2
  <2>2. \A i \in 1..(2 * n) : (i + 1) \div 2 \in 1..n
    BY <2>1
  <2>3. \A j \in 1..n : tx[t].claimed[j] \in Docs
    BY <1>2
  <2>4. \A i \in 1..(2 * n) : event(i) \in Announcement
    BY <2>2, <2>3 DEF Announcement, Event
  <2> HIDE DEF event
  <2>5. [i \in 1..(2 * n) |-> event(i)] \in Seq(Announcement)
    BY <2>1, <2>4
  <2> QED
    BY <2>5 DEF PublicationEvents, event
<1>6. TypeOK'
  <2>1. rows' \in [Docs -> MaybeRow]
    BY <1>1, <1>3, <1>4 DEF Inv, TypeOK, MaybeRow
  <2>2. revisions' \in [Docs -> SUBSET Revision]
    <3>1. \A d \in Docs : d \in Claimed(t) => Superseded(t, d, rows[d]) \in SUBSET Revision
      BY <1>3, SupersededTyped DEF Inv
    <3> QED
      BY <1>1, <3>1 DEF Inv, TypeOK
  <2>3. /\ media' \subseteq Media /\ groups' \in [Groups -> Types \cup {Absent}]
        /\ born' \subseteq Docs \cup Groups /\ uses' \in [Docs -> SUBSET Media]
    BY <1>1 DEF Inv, TypeOK
  <2> QED
    BY <1>1, <1>5, <2>1, <2>2, <2>3, CommitFacts DEF TypeOK
<1>7. Frame(t)
  <2>1. \A d \in Docs : Evolves(t, d)
    BY <1>1, <1>3, <1>4 DEF Evolves
  <2>2. \A d \in Docs : rows'[d] # Absent => rows[d] # Absent
    BY <1>1, <1>3, NoValues
  <2> QED
    BY <1>1, <1>5, <2>1, <2>2, CommitFacts DEF Frame, Inv, Known, Exists
<1> QED
  BY <1>1, <1>5, <1>6, <1>7, CommitFacts, OneConnection

-----------------------------------------------------------------------------
(* The invariant.                                                          *)

LEMMA InitEstablishes == Init => Inv
<1> SUFFICES ASSUME Init PROVE Inv
  OBVIOUS
<1>1. rows \in [Docs -> MaybeRow]
  BY ContentAssumption DEF Init, ContentAssumption, MaybeRow
<1>2. \A t \in Connections : tx[t] = Idle
  BY DEF Init
<1>3. groups \in [Groups -> Types \cup {Absent}]
  <2>1. ASSUME NEW g \in Groups, MembersOf(g) # {}
        PROVE  rows[CHOOSE d \in MembersOf(g) : TRUE].type \in Types
    <3>1. (CHOOSE d \in MembersOf(g) : TRUE) \in MembersOf(g)
      BY <2>1
    <3> QED
      BY <1>1, <3>1 DEF MembersOf, Exists, MaybeRow, Row
  <2> QED
    BY <2>1 DEF Init
<1>4. uses \in [Docs -> SUBSET Media]
  <2>1. \A d \in Docs : Exists(d) => rows[d].state.refs \in SUBSET Media
    BY <1>1 DEF Exists, MaybeRow, Row, State
  <2> QED
    BY <2>1 DEF Init
<1>5. TypeOK
  <2>1. tx \in [Connections -> Transaction] /\ ticks \in Nat /\ now \in Times
    BY IdleTyped, ContentAssumption DEF Init, Times, ContentAssumption
  <2>2. /\ media \subseteq Media /\ revisions \in [Docs -> SUBSET Revision]
        /\ born \subseteq Docs \cup Groups
    BY DEF Init
  <2>3. /\ rowLock \in [Docs -> Optional(Connections)]
        /\ groupLock \in [Groups -> Optional(Connections)]
    BY Options DEF Init
  <2> QED
    BY <1>1, <1>3, <1>4, <2>1, <2>2, <2>3 DEF TypeOK
<1>6. Known
  BY <1>2 DEF Known, Init, Idle
<1>7. \A t \in Connections : Shape(t) /\ Protected(t) /\ Honest(t)
  BY <1>2 DEF Shape, Protected, Honest, Idle, RowSteps, Writing, Deleting
<1> QED
  BY <1>5, <1>6, <1>7 DEF Inv

(* Steps of nobody's transaction.                                          *)
LEMMA EnvironmentKeeps ==
  ASSUME Inv, UNCHANGED <<rows, groups, uses, revisions, born, locks, tx, ticks>>,
         media' \subseteq Media, now' \in Times
  PROVE  Inv'
<1>1. TypeOK' /\ Known'
  BY DEF Inv, TypeOK, Known, Exists, locks
<1>2. ASSUME NEW t \in Connections PROVE Shape(t)' /\ Protected(t)' /\ Honest(t)'
  <2>1. Shape(t)' /\ Honest(t)'
    BY DEF Inv, Shape, Honest
  <2>2. Protected(t)'
    BY StillProtected DEF Inv, locks, Writing, Deleting
  <2> QED
    BY <2>1, <2>2
<1> QED
  BY <1>1, <1>2 DEF Inv

LEMMA NextPreserves == Inv /\ [Next]_vars => Inv'
<1> SUFFICES ASSUME Inv, [Next]_vars PROVE Inv'
  OBVIOUS
<1>1. ASSUME NEW t \in Connections, Request(t) PROVE Inv'
  BY <1>1, OpenFormKeeps, BeginDeleteKeeps, BeginCreateKeeps, BeginUpdateKeeps,
     BeginRestoreKeeps, BeginPublishDueKeeps DEF Request
<1>2. ASSUME NEW t \in Connections, Proceed(t) PROVE Inv'
  BY <1>2, JoinGroupKeeps, CommitCreateKeeps, RefuseKeeps, LockAncestorKeeps,
     MeasureHeightKeeps, LockForUpdateKeeps, CommitUpdateKeeps,
     LockGroupOfDeletedKeeps, LockForDeleteKeeps, LockChildKeeps, CommitDeleteKeeps,
     ClaimKeeps, CommitPublishDueKeeps, AnnounceKeeps
  DEF Proceed, RefuseParent, BreakDeadlock
<1>3. ASSUME NEW t \in Connections, Abort(t) PROVE Inv'
  BY <1>3, RefuseKeeps DEF Abort
<1>4. ASSUME NEW m \in Media, DeleteMedia(m) PROVE Inv'
  BY <1>4, EnvironmentKeeps DEF DeleteMedia, Inv, TypeOK
<1>5. CASE Tick
  <2>1. now' \in Times /\ media' \subseteq Media
    BY <1>5, ContentAssumption DEF Tick, db, Inv, TypeOK, Times, ContentAssumption
  <2> QED
    BY <1>5, <2>1, EnvironmentKeeps DEF Tick, db
<1>6. CASE UNCHANGED vars
  BY <1>6, EnvironmentKeeps DEF vars, locks, Inv, TypeOK
<1> QED
  BY <1>1, <1>2, <1>3, <1>4, <1>5, <1>6 DEF Next, Quiet

(* Nobody but the holder of its lock writes a row, so what each transaction *)
(* has read under a lock stays true until it ends.                         *)
THEOREM Invariance == Spec => []Inv
<1> QED
  BY InitEstablishes, NextPreserves, PTL DEF Spec

(* Every variable keeps the kind of value the code and the schema give it. *)
THEOREM TypesHold == Spec => []TypeOK
<1>1. Inv => TypeOK
  BY DEF Inv
<1> QED
  BY <1>1, Invariance, PTL

-----------------------------------------------------------------------------
(* Whose step a step is.                                                   *)

LEMMA OneMoves ==
  ASSUME NEW s \in Connections, Request(s) \/ Proceed(s) \/ Abort(s)
  PROVE  \E r : tx' = [tx EXCEPT ![s] = r]
<1>1. CASE Refuse(s)
  BY <1>1 DEF Refuse, Ends, Moves
<1>2. ASSUME NEW changes, Begins(s, changes) PROVE \E r : tx' = [tx EXCEPT ![s] = r]
  BY <1>2 DEF Begins, Moves
<1>3. ASSUME NEW events, Commits(s, events) PROVE \E r : tx' = [tx EXCEPT ![s] = r]
  BY <1>3 DEF Commits, Moves
<1>4. CASE Request(s)
  <2>1. ASSUME NEW u \in UserIds, NEW d \in Docs, OpenForm(s, u, d)
        PROVE  \E r : tx' = [tx EXCEPT ![s] = r]
    BY <2>1 DEF OpenForm, Moves
  <2>2. ASSUME NEW u \in UserIds, BeginCreate(s, u) \/ \E d \in Docs : BeginDelete(s, u, d)
        PROVE  \E r : tx' = [tx EXCEPT ![s] = r]
    BY <2>2, <1>2 DEF BeginCreate, BeginDelete
  <2>3. CASE BeginUpdate(s) \/ BeginRestore(s) \/ BeginPublishDue(s)
    BY <2>3, <1>2 DEF BeginUpdate, BeginRestore, BeginPublishDue
  <2> QED
    BY <1>4, <2>1, <2>2, <2>3 DEF Request
<1>5. CASE Proceed(s)
  <2>1. CASE JoinGroup(s) \/ MeasureHeight(s) \/ LockForUpdate(s) \/ LockForDelete(s)
    BY <2>1, <1>1 DEF JoinGroup, MeasureHeight, LockForUpdate, LockForDelete, Moves
  <2>2. CASE LockAncestor(s) \/ LockGroupOfDeleted(s) \/ LockChild(s) \/ Claim(s)
               \/ Announce(s)
    BY <2>2 DEF LockAncestor, LockGroupOfDeleted, LockChild, Claim, Announce, Moves
  <2>3. CASE CommitCreate(s) \/ CommitUpdate(s) \/ CommitDelete(s) \/ CommitPublishDue(s)
    BY <2>3, <1>1, <1>3 DEF CommitCreate, CommitUpdate, CommitDelete, CommitPublishDue
  <2>4. CASE RefuseParent(s) \/ BreakDeadlock(s)
    BY <2>4, <1>1 DEF RefuseParent, BreakDeadlock
  <2> QED
    BY <1>5, <2>1, <2>2, <2>3, <2>4 DEF Proceed
<1>6. CASE Abort(s)
  BY <1>6, <1>1 DEF Abort
<1> QED
  BY <1>4, <1>5, <1>6

LEMMA CommitStep ==
  ASSUME TypeOK, [Next]_vars, NEW t \in Connections,
         tx[t].pc = "commit", tx'[t].pc = "announce"
  PROVE  /\ ~Refuse(t)
         /\ CommitCreate(t) \/ CommitUpdate(t) \/ CommitDelete(t) \/ CommitPublishDue(t)
<1>1. ~Refuse(t)
  BY DEF Refuse, Ends, Moves, Idle, TypeOK
<1>2. ASSUME NEW s \in Connections, Request(s) \/ Proceed(s) \/ Abort(s) PROVE s = t
  <2>1. PICK r : tx' = [tx EXCEPT ![s] = r]
    BY <1>2, OneMoves
  <2> QED
    BY <2>1 DEF TypeOK
<1>3. ~Request(t)
  BY DEF Request, OpenForm, BeginCreate, BeginDelete, BeginUpdate, BeginRestore,
         BeginPublishDue
<1>4. ~Abort(t)
  BY <1>1 DEF Abort
<1>5. PICK s \in Connections : Request(s) \/ Proceed(s) \/ Abort(s)
  BY DEF Next, DeleteMedia, Tick, Quiet, vars
<1>6. Proceed(t)
  BY <1>2, <1>3, <1>4, <1>5
<1>7. ~RefuseParent(t) /\ ~BreakDeadlock(t)
  BY <1>1 DEF RefuseParent, BreakDeadlock
<1>8. /\ ~JoinGroup(t) /\ ~LockAncestor(t) /\ ~MeasureHeight(t) /\ ~LockForUpdate(t)
      /\ ~LockGroupOfDeleted(t) /\ ~LockForDelete(t) /\ ~LockChild(t) /\ ~Claim(t)
      /\ ~Announce(t)
  BY DEF JoinGroup, LockAncestor, MeasureHeight, LockForUpdate, LockGroupOfDeleted,
         LockForDelete, LockChild, Claim, Announce
<1> QED
  BY <1>1, <1>6, <1>7, <1>8 DEF Proceed

-----------------------------------------------------------------------------
(* What follows from the invariant.                                        *)

(* Nobody's work is lost: the commit of a save or a restore finds in the   *)
(* row the very version its author was shown (updateContent).              *)
THEOREM NoUpdateIsLost == Spec => NoLostUpdate
<1>1. ASSUME Inv, NEW t \in Connections, Commits_Update(t)
      PROVE  LET d == tx[t].doc
             IN /\ Exists(d)
                /\ rows[d].version = tx[t].form.version
                /\ \/ rows[d].state = tx[t].form.state
                   \/ rows[d].state = [tx[t].form.state EXCEPT !.parent = None]
  <2>1. Writing(t) /\ Shape(t) /\ Protected(t) /\ Honest(t)
    BY <1>1 DEF Commits_Update, Writing, Inv
  <2>2. rows[tx[t].doc] \in Row /\ rows[tx[t].doc].version = tx[t].form.version
    BY <2>1 DEF Protected
  <2>3. Current(rows[tx[t].doc], tx[t].form)
    BY <2>1, NoValues DEF Honest, Shape, Writing
  <2> QED
    BY <2>2, <2>3, NoValues DEF Current, Exists
<1>2. Inv /\ [Next]_vars =>
        [\A t \in Connections : Commits_Update(t) =>
           LET d == tx[t].doc
           IN /\ Exists(d)
              /\ rows[d].version = tx[t].form.version
              /\ \/ rows[d].state = tx[t].form.state
                 \/ rows[d].state = [tx[t].form.state EXCEPT !.parent = None]]_vars
  BY <1>1
<1> QED
  BY <1>2, Invariance, PTL DEF Spec, NoLostUpdate

(* No document enters, stays in or leaves the public's sight on a decision *)
(* about an earlier state of it (mayEditCurrent under the row lock).       *)
THEOREM PublishingIsAuthorized == Spec => PublishAuthorized
<1>1. ASSUME Inv, [Next]_vars, NEW t \in Connections, Commits_Update(t)
      PROVE  LET d == tx[t].doc
             IN CanWrite(Actor(tx[t].user), rows[d].author, rows[d].state.status,
                         rows'[d].state.status)
  <2>1. Writing(t) /\ Shape(t) /\ Protected(t) /\ tx[t].doc \in Docs
    BY <1>1 DEF Commits_Update, Writing, Inv, Shape
  <2>2. CommitUpdate(t) /\ ~Refuse(t)
    BY <1>1, CommitStep
    DEF Inv, Commits_Update, CommitCreate, CommitDelete, CommitPublishDue
  <2>3. rows'[tx[t].doc].state = tx[t].next
    <3>1. rows' = [rows EXCEPT ![tx[t].doc] =
                     [tx[t].cur EXCEPT !.state = tx[t].next, !.version = @ + 1]]
      BY <2>2 DEF CommitUpdate
    <3>2. tx[t].cur \in Row /\ tx[t].next \in State
      BY <2>1 DEF Protected
    <3>3. [tx[t].cur EXCEPT !.state = tx[t].next, !.version = @ + 1].state = tx[t].next
      BY <3>2, NextVersion
    <3> QED
      BY <1>1, <2>1, <3>1, <3>3 DEF Inv, TypeOK
  <2> QED
    BY <2>1, <2>3 DEF Protected
<1>2. Inv /\ [Next]_vars =>
        [\A t \in Connections : Commits_Update(t) =>
           LET d == tx[t].doc
           IN CanWrite(Actor(tx[t].user), rows[d].author, rows[d].state.status,
                       rows'[d].state.status)]_vars
  BY <1>1
<1> QED
  BY <1>2, Invariance, PTL DEF Spec, PublishAuthorized

(* Of two passes only one publishes a document: what a pass commits is     *)
(* still scheduled and due (publishDueContent).                            *)
THEOREM OnlyTheDueIsPublished == Spec => PublishesOnlyTheDue
<1>1. ASSUME Inv, NEW t \in Connections
      PROVE  \A d \in Claimed(t) : IsDue(d, tx[t].clock)
  BY <1>1 DEF Claimed, Inv, Protected
<1>2. Inv /\ [Next]_vars =>
        [\A t \in Connections :
           /\ tx[t].pc = "commit" /\ tx[t].op = "publishDue"
           /\ tx'[t].pc = "announce"
           => \A d \in Claimed(t) : IsDue(d, tx[t].clock)]_vars
  BY <1>1
<1> QED
  BY <1>2, Invariance, PTL DEF Spec, PublishesOnlyTheDue

-----------------------------------------------------------------------------
(* The four ways a step writes, with what each writes.                     *)

Creates(t, d, g) ==
  LET row == [type |-> tx[t].type, locale |-> tx[t].locale, group |-> g,
              author |-> tx[t].user, version |-> 1, state |-> tx[t].next]
  IN /\ tx[t].pc = "commit" /\ tx[t].op = "create"
     /\ d \in Docs \ born
     /\ g \in IF tx[t].group = None THEN Groups \ born ELSE {tx[t].group}
     /\ ConstraintsHold(d, row)
     /\ rows' = [rows EXCEPT ![d] = row]
     /\ groups' = [groups EXCEPT ![g] = tx[t].type]
     /\ uses' = SyncMediaReferences(d, row.state.refs)
     /\ born' = born \cup {d, g}
     /\ Commits(t, About(d, <<"content:created">>))
     /\ UNCHANGED <<media, revisions>>

Updates(t) == CommitUpdate(t) /\ ~Refuse(t)
Removes(t) == CommitDelete(t) /\ ~Refuse(t)

Writes(t) ==
  \/ \E d \in Docs, g \in Groups : Creates(t, d, g)
  \/ Updates(t) \/ Removes(t) \/ CommitPublishDue(t)

(* A step that is none of them writes nothing but, at most, deletes an     *)
(* asset nobody uses.                                                      *)
WritesNothing ==
  /\ UNCHANGED <<rows, groups, uses, revisions, born>>
  /\ \/ UNCHANGED media
     \/ \E m \in Media : media' = media \ {m} /\ \A d \in Docs : m \notin uses[d]

LEMMA CreatesAtCommit ==
  ASSUME Inv, NEW t \in Connections, CommitCreate(t), ~Refuse(t)
  PROVE  \E d \in Docs, g \in Groups : Creates(t, d, g)
<1>1. PICK d \in Docs \ born,
           g \in IF tx[t].group = None THEN Groups \ born ELSE {tx[t].group} :
        Creates(t, d, g)
  BY DEF CommitCreate, Creates
<1>2. tx[t].group \in Groups \cup {None}
  BY DEF Inv, TypeOK, Transaction, Optional
<1>3. d \in Docs /\ g \in Groups
  BY <1>1, <1>2
<1> QED
  BY <1>1, <1>3

LEMMA RefuseWritesNothing ==
  ASSUME NEW t \in Connections, Refuse(t)
  PROVE  WritesNothing
BY DEF Refuse, WritesNothing, db

LEMMA WritesOrNot ==
  ASSUME Inv, [Next]_vars
  PROVE  WritesNothing \/ \E t \in Connections : Writes(t)
<1>1. ASSUME NEW t \in Connections, Request(t) PROVE WritesNothing
  BY ZenonT(60), <1>1 DEF Request, OpenForm, BeginCreate, BeginDelete, BeginUpdate, BeginRestore,
              BeginPublishDue, Begins, WritesNothing, db
<1>2. ASSUME NEW t \in Connections, Proceed(t) PROVE WritesNothing \/ Writes(t)
  <2>1. CASE Refuse(t)
    BY <2>1, RefuseWritesNothing
  <2>2. CASE CommitCreate(t) \/ CommitUpdate(t) \/ CommitDelete(t) \/ CommitPublishDue(t)
    BY <2>1, <2>2, CreatesAtCommit DEF Writes, Updates, Removes
  <2>3. CASE JoinGroup(t) \/ RefuseParent(t) \/ LockAncestor(t) \/ MeasureHeight(t)
               \/ LockForUpdate(t)
    BY <2>1, <2>3
    DEF JoinGroup, RefuseParent, LockAncestor, MeasureHeight, LockForUpdate,
        WritesNothing, db
  <2>4. CASE LockGroupOfDeleted(t) \/ LockForDelete(t) \/ LockChild(t) \/ Claim(t)
               \/ Announce(t) \/ BreakDeadlock(t)
    BY <2>1, <2>4
    DEF LockGroupOfDeleted, LockForDelete, LockChild, Claim, Announce, BreakDeadlock,
        WritesNothing, db
  <2> QED
    BY <1>2, <2>2, <2>3, <2>4 DEF Proceed
<1>3. ASSUME NEW t \in Connections, Abort(t) PROVE WritesNothing
  BY <1>3, RefuseWritesNothing DEF Abort
<1>4. ASSUME NEW m \in Media, DeleteMedia(m) PROVE WritesNothing
  BY <1>4 DEF DeleteMedia, WritesNothing
<1>5. CASE Tick \/ UNCHANGED vars
  BY <1>5 DEF Tick, vars, WritesNothing, db
<1> QED
  BY <1>1, <1>2, <1>3, <1>4, <1>5 DEF Next, Quiet

(* What the row of each document is after a write.                         *)
LEMMA UpdateFacts ==
  ASSUME Inv, NEW t \in Connections, Updates(t)
  PROVE  LET d   == tx[t].doc
             row == [tx[t].cur EXCEPT !.state = tx[t].next, !.version = @ + 1]
         IN /\ d \in Docs /\ rows[d] = tx[t].cur /\ rows[d] \in Row
            /\ row \in Row /\ row.version = rows[d].version + 1
            /\ row.state = tx[t].next /\ tx[t].next \in State
            /\ row.type = rows[d].type /\ row.locale = rows[d].locale
            /\ row.group = rows[d].group /\ row.author = rows[d].author
            /\ ConstraintsHold(d, row)
            /\ rows' = [rows EXCEPT ![d] = row] /\ rows'[d] = row
            /\ revisions' = [revisions EXCEPT ![d] = Superseded(t, d, tx[t].cur)]
            /\ uses' = SyncMediaReferences(d, row.state.refs)
            /\ Commits(t, About(d, TransitionsFor(rows[d].state.status,
                                                  tx[t].next.status)))
            /\ UNCHANGED <<groups, media, born>>
<1> DEFINE d   == tx[t].doc
           row == [tx[t].cur EXCEPT !.state = tx[t].next, !.version = @ + 1]
<1>1. /\ d \in Docs /\ tx[t].cur \in Row
      /\ rows[d] = tx[t].cur /\ tx[t].next \in State
  BY DEF Updates, CommitUpdate, Inv, Shape, Protected, Writing
<1>2. row \in Row /\ row.version = rows[d].version + 1 /\ row.state = tx[t].next
  BY <1>1, NextVersion
<1>3. /\ row.type = rows[d].type /\ row.locale = rows[d].locale
      /\ row.group = rows[d].group /\ row.author = rows[d].author
  BY <1>1 DEF Row
<1>4. /\ ConstraintsHold(d, row)
      /\ rows' = [rows EXCEPT ![d] = row]
      /\ revisions' = [revisions EXCEPT ![d] = Superseded(t, d, tx[t].cur)]
      /\ uses' = SyncMediaReferences(d, row.state.refs)
      /\ Commits(t, About(d, TransitionsFor(tx[t].cur.state.status, tx[t].next.status)))
      /\ UNCHANGED <<groups, media, born>>
  BY DEF Updates, CommitUpdate
<1> HIDE DEF row
<1>5. rows'[d] = row
  BY <1>1, <1>4 DEF Inv, TypeOK
<1> QED
  BY <1>1, <1>2, <1>3, <1>4, <1>5 DEF row

LEMMA RemoveFacts ==
  ASSUME Inv, NEW t \in Connections, Removes(t)
  PROVE  LET d == tx[t].doc
             g == tx[t].group
         IN /\ d \in Docs /\ rows'[d] = Absent
            /\ ChildrenOf(d) \subseteq tx[t].orphaned
            /\ \A e \in Docs \ {d} :
                 \/ rows'[e] = rows[e]
                 \/ /\ e \in tx[t].orphaned /\ rows[e] \in Row
                    /\ rows'[e] = [rows[e] EXCEPT !.state.parent = None]
            /\ groups' = IF Emptied(d, g) THEN [groups EXCEPT ![g] = Absent] ELSE groups
            /\ revisions' = [revisions EXCEPT ![d] = {}]
            /\ uses' = [uses EXCEPT ![d] = {}]
            /\ Commits(t, About(d, <<"content:deleted">>))
            /\ UNCHANGED <<media, born>>
<1> DEFINE d == tx[t].doc
           g == tx[t].group
<1>1. /\ ChildrenOf(d) \subseteq tx[t].orphaned
      /\ rows' = [e \in Docs |->
                    IF e = d THEN Absent
                    ELSE IF e \in tx[t].orphaned
                         THEN [rows[e] EXCEPT !.state.parent = None]
                         ELSE rows[e]]
      /\ groups' = IF Emptied(d, g) THEN [groups EXCEPT ![g] = Absent] ELSE groups
      /\ revisions' = [revisions EXCEPT ![d] = {}]
      /\ uses' = [uses EXCEPT ![d] = {}]
      /\ Commits(t, About(d, <<"content:deleted">>))
      /\ UNCHANGED <<media, born>>
  BY DEF Removes, CommitDelete
<1>2. d \in Docs
  BY DEF Removes, CommitDelete, Inv, Shape
<1>3. \A c \in tx[t].orphaned : rows[c] \in Row
  BY DEF Inv, TypeOK, Protected, ChildrenOf, Exists, MaybeRow
<1>4. \A e \in Docs \ {d} :
        \/ rows'[e] = rows[e]
        \/ /\ e \in tx[t].orphaned /\ rows[e] \in Row
           /\ rows'[e] = [rows[e] EXCEPT !.state.parent = None]
  BY <1>1, <1>3
<1> QED
  BY <1>1, <1>2, <1>4

(* Publishing a row changes its status and its version, and nothing else.  *)
LEMMA PublishedRow ==
  ASSUME NEW row \in Row
  PROVE  /\ Publish(row) \in Row /\ Publish(row).version = row.version + 1
         /\ Publish(row).state = [row.state EXCEPT !.status = "published"]
         /\ Publish(row).state.status = "published"
         /\ Publish(row).state.refs = row.state.refs
         /\ Publish(row).state.parent = row.state.parent
         /\ Publish(row).type = row.type /\ Publish(row).locale = row.locale
         /\ Publish(row).group = row.group /\ Publish(row).author = row.author
<1> DEFINE state == [row.state EXCEPT !.status = "published"]
           next  == [row EXCEPT !.state = state, !.version = @ + 1]
<1>1. row.state \in State /\ "published" \in Statuses
  BY DEF Row, Statuses
<1>2. /\ state \in State /\ state.status = "published" /\ state.refs = row.state.refs
      /\ state.parent = row.state.parent
  BY <1>1 DEF State
<1>3. Publish(row) = next
  BY DEF Publish, Row
<1> HIDE DEF state
<1>4. next \in Row /\ next.version = row.version + 1 /\ next.state = state
  BY <1>2, NextVersion
<1>5. /\ next.type = row.type /\ next.locale = row.locale
      /\ next.group = row.group /\ next.author = row.author
  BY DEF Row
<1> QED
  BY <1>2, <1>3, <1>4, <1>5 DEF state

LEMMA PublishFacts ==
  ASSUME Inv, NEW t \in Connections, CommitPublishDue(t)
  PROVE  /\ tx[t].claimed \in Seq(Docs) /\ Claimed(t) \subseteq Docs
         /\ \A d \in Claimed(t) :
              /\ rows[d] \in Row /\ IsDue(d, tx[t].clock)
              /\ rows'[d] = Publish(rows[d])
              /\ revisions'[d] = Superseded(t, d, rows[d])
         /\ \A d \in Docs \ Claimed(t) :
              rows'[d] = rows[d] /\ revisions'[d] = revisions[d]
         /\ Commits(t, PublicationEvents(t))
         /\ UNCHANGED <<groups, media, uses, born>>
<1>1. /\ rows' = [d \in Docs |->
                    IF d \in Claimed(t) THEN Publish(rows[d]) ELSE rows[d]]
      /\ revisions' = [d \in Docs |-> IF d \in Claimed(t)
                                      THEN Superseded(t, d, rows[d])
                                      ELSE revisions[d]]
      /\ Commits(t, PublicationEvents(t))
      /\ UNCHANGED <<groups, media, uses, born>>
  BY DEF CommitPublishDue
<1>2. tx[t].claimed \in Seq(Docs)
  BY DEF Inv, TypeOK, Transaction
<1>3. Claimed(t) \subseteq Docs
  BY <1>2 DEF Claimed
<1>4. \A d \in Claimed(t) : IsDue(d, tx[t].clock)
  BY DEF Claimed, Inv, Protected
<1>5. \A d \in Claimed(t) : rows[d] \in Row
  BY <1>3, <1>4 DEF Inv, TypeOK, MaybeRow, IsDue, Exists
<1> QED
  BY <1>1, <1>2, <1>3, <1>4, <1>5

(* A row whose parent was deleted keeps everything else.                   *)
LEMMA OrphanedRow ==
  ASSUME NEW row \in Row
  PROVE  LET next == [row EXCEPT !.state.parent = None]
         IN /\ next \in Row /\ next.version = row.version
            /\ next.state = [row.state EXCEPT !.parent = None]
            /\ next.state.status = row.state.status /\ next.state.refs = row.state.refs
            /\ next.state.parent = None
            /\ next.type = row.type /\ next.locale = row.locale
            /\ next.group = row.group /\ next.author = row.author
BY DEF Row, State

-----------------------------------------------------------------------------
(* Revisions.                                                              *)

LEMMA SupersededFacts ==
  ASSUME NEW t \in Connections, NEW d \in Docs, NEW current,
         NEW r \in Superseded(t, d, current), r \notin revisions[d]
  PROVE  r.version = current.version /\ r.state = current.state
BY DEF Superseded, Prune

(* Whatever a revision holds is what its document was in the step that     *)
(* wrote it, and that step gave the document its next version              *)
(* (insertContentRevision under the row's lock).                           *)
THEOREM RevisionsAreOfTheRowSuperseded == Spec => RevisionIsWhatWasSuperseded
<1> DEFINE Recorded(d, r) ==
      /\ Exists(d)
      /\ r.version = rows[d].version
      /\ r.state = rows[d].state
      /\ rows'[d] # Absent
      /\ rows'[d].version = r.version + 1
<1>1. ASSUME Inv, [Next]_vars, NEW d \in Docs, NEW r \in revisions'[d] \ revisions[d]
      PROVE  Recorded(d, r)
  <2>1. ASSUME WritesNothing PROVE FALSE
    BY <1>1, <2>1 DEF WritesNothing
  <2>2. ASSUME NEW t \in Connections, NEW e \in Docs, NEW g \in Groups, Creates(t, e, g)
        PROVE  FALSE
    BY <1>1, <2>2 DEF Creates
  <2>3. ASSUME NEW t \in Connections, Updates(t) PROVE Recorded(d, r)
    <3> DEFINE row == [tx[t].cur EXCEPT !.state = tx[t].next, !.version = @ + 1]
    <3>1. /\ tx[t].doc \in Docs /\ rows[tx[t].doc] = tx[t].cur /\ tx[t].cur \in Row
          /\ row \in Row /\ row.version = rows[tx[t].doc].version + 1
          /\ rows'[tx[t].doc] = row
          /\ revisions' = [revisions EXCEPT ![tx[t].doc] =
                             Superseded(t, tx[t].doc, tx[t].cur)]
      BY <1>1, <2>3, UpdateFacts
    <3> HIDE DEF row
    <3>2. d = tx[t].doc /\ r \in Superseded(t, d, tx[t].cur)
      BY <1>1, <3>1 DEF Inv, TypeOK
    <3>3. r.version = tx[t].cur.version /\ r.state = tx[t].cur.state
      BY <1>1, <3>2, SupersededFacts
    <3> QED
      BY <3>1, <3>2, <3>3, NoValues DEF Exists
  <2>4. ASSUME NEW t \in Connections, Removes(t) PROVE FALSE
    <3>1. revisions' = [revisions EXCEPT ![tx[t].doc] = {}]
      BY <1>1, <2>4, RemoveFacts
    <3> QED
      BY <1>1, <3>1 DEF Inv, TypeOK
  <2>5. ASSUME NEW t \in Connections, CommitPublishDue(t) PROVE Recorded(d, r)
    <3>1. /\ d \in Claimed(t)
          /\ rows[d] \in Row /\ rows'[d] = Publish(rows[d])
          /\ revisions'[d] = Superseded(t, d, rows[d])
      BY <1>1, <2>5, PublishFacts
    <3>2. r.version = rows[d].version /\ r.state = rows[d].state
      BY <1>1, <3>1, SupersededFacts
    <3>3. rows'[d] \in Row /\ rows'[d].version = rows[d].version + 1
      BY <3>1, PublishedRow
    <3> QED
      BY <3>1, <3>2, <3>3, NoValues DEF Exists
  <2> QED
    BY <1>1, <2>1, <2>2, <2>3, <2>4, <2>5, WritesOrNot DEF Writes
<1>2. Inv /\ [Next]_vars =>
        [\A d \in Docs : \A r \in revisions'[d] \ revisions[d] : Recorded(d, r)]_vars
  BY <1>1
<1> QED
  BY <1>2, Invariance, PTL DEF Spec, RevisionIsWhatWasSuperseded

-----------------------------------------------------------------------------
(* References.                                                             *)

LEMMA ReferencesInit == Init => ReferencesHold
<1> SUFFICES ASSUME Init PROVE ReferencesHold
  OBVIOUS
<1>1. \A d \in Docs : Exists(d) => rows[d].state.refs \subseteq Media
  BY InitEstablishes DEF Inv, TypeOK, MaybeRow, Exists, Row, State
<1> QED
  BY <1>1 DEF ReferencesHold, Init, Exists

LEMMA ReferencesKept == Inv /\ ReferencesHold /\ [Next]_vars => ReferencesHold'
<1> SUFFICES ASSUME Inv, ReferencesHold, [Next]_vars PROVE ReferencesHold'
  OBVIOUS
<1> DEFINE Held(d) == /\ Exists(d) => rows[d].state.refs \subseteq media
                      /\ uses[d] = IF Exists(d) THEN rows[d].state.refs ELSE {}
<1>1. \A d \in Docs : Held(d)
  BY DEF ReferencesHold
<1>2. \A d \in Docs : \A refs : /\ SyncMediaReferences(d, refs)[d] = refs
                                 /\ \A e \in Docs \ {d} :
                                      SyncMediaReferences(d, refs)[e] = uses[e]
  BY DEF SyncMediaReferences, Inv, TypeOK
<1>3. CASE WritesNothing
  BY <1>1, <1>3 DEF WritesNothing, ReferencesHold, Exists
<1>4. ASSUME NEW t \in Connections, NEW d \in Docs, NEW g \in Groups, Creates(t, d, g)
      PROVE  ReferencesHold'
  <2> DEFINE row == [type |-> tx[t].type, locale |-> tx[t].locale, group |-> g,
                     author |-> tx[t].user, version |-> 1, state |-> tx[t].next]
  <2>1. /\ ConstraintsHold(d, row) /\ d \notin born
        /\ rows' = [rows EXCEPT ![d] = row]
        /\ uses' = SyncMediaReferences(d, row.state.refs)
        /\ media' = media
    BY <1>4 DEF Creates
  <2>2. row \in Row
    BY <1>4 DEF Creates, Inv, TypeOK, Shape, Transaction, Row
  <2> HIDE DEF row
  <2>3. uses[d] = {}
    BY <1>1, <2>1 DEF Inv, Known
  <2>4. row.state.refs \subseteq media
    BY <2>1, <2>3 DEF ConstraintsHold
  <2>5. rows'[d] = row /\ \A e \in Docs \ {d} : rows'[e] = rows[e]
    BY <2>1 DEF Inv, TypeOK
  <2> QED
    BY <1>1, <1>2, <2>1, <2>2, <2>4, <2>5, NoValues DEF ReferencesHold, Exists
<1>5. ASSUME NEW t \in Connections, Updates(t) PROVE ReferencesHold'
  <2> DEFINE d   == tx[t].doc
             row == [tx[t].cur EXCEPT !.state = tx[t].next, !.version = @ + 1]
  <2>1. /\ d \in Docs /\ rows[d] \in Row /\ row \in Row
        /\ ConstraintsHold(d, row)
        /\ rows' = [rows EXCEPT ![d] = row]
        /\ uses' = SyncMediaReferences(d, row.state.refs)
        /\ media' = media
    BY <1>5, UpdateFacts
  <2> HIDE DEF row
  <2>2. row.state.refs \subseteq media
    BY <1>1, <2>1 DEF ConstraintsHold
  <2>3. rows'[d] = row /\ \A e \in Docs \ {d} : rows'[e] = rows[e]
    BY <2>1 DEF Inv, TypeOK
  <2> QED
    BY <1>1, <1>2, <2>1, <2>2, <2>3, NoValues DEF ReferencesHold, Exists
<1>6. ASSUME NEW t \in Connections, Removes(t) PROVE ReferencesHold'
  <2>1. /\ tx[t].doc \in Docs /\ rows'[tx[t].doc] = Absent
        /\ \A e \in Docs \ {tx[t].doc} :
             \/ rows'[e] = rows[e]
             \/ rows[e] \in Row /\ rows'[e] = [rows[e] EXCEPT !.state.parent = None]
        /\ uses' = [uses EXCEPT ![tx[t].doc] = {}]
        /\ media' = media
    BY <1>6, RemoveFacts
  <2>2. \A e \in Docs \ {tx[t].doc} :
          \/ rows'[e] = rows[e]
          \/ rows[e] \in Row /\ rows'[e] \in Row /\ rows'[e].state.refs = rows[e].state.refs
    BY ZenonT(60), <2>1, OrphanedRow
  <2> QED
    BY <1>1, <2>1, <2>2, NoValues DEF ReferencesHold, Exists, Inv, TypeOK
<1>7. ASSUME NEW t \in Connections, CommitPublishDue(t) PROVE ReferencesHold'
  <2>1. \A d \in Docs :
          \/ rows'[d] = rows[d]
          \/ rows[d] \in Row /\ rows'[d] \in Row /\ rows'[d].state.refs = rows[d].state.refs
    <3>1. /\ \A d \in Claimed(t) : rows[d] \in Row /\ rows'[d] = Publish(rows[d])
          /\ \A d \in Docs \ Claimed(t) : rows'[d] = rows[d]
      BY <1>7, PublishFacts
    <3> QED
      BY ZenonT(60), <3>1, PublishedRow
  <2>2. uses' = uses /\ media' = media
    BY <1>7, PublishFacts
  <2> QED
    BY <1>1, <2>1, <2>2, NoValues DEF ReferencesHold, Exists
<1> QED
  BY <1>3, <1>4, <1>5, <1>6, <1>7, WritesOrNot DEF Writes

(* No document names an asset that is gone, and the record of its uses is  *)
(* exact: what refuses the deletion of an asset is what readers follow     *)
(* (syncMediaReferences, deleteMediaRow).                                  *)
THEOREM ReferencesAreHeld == Spec => []ReferencesHold
<1> QED
  BY ReferencesInit, ReferencesKept, Invariance, PTL DEF Spec

-----------------------------------------------------------------------------
(* Announcements.                                                          *)

(* Nobody has events to emit before its commit.                            *)
Silent == \A t \in Connections : tx[t].pc # "announce" => tx[t].outbox = <<>>

LEMMA MovesTo ==
  ASSUME Inv, NEW t \in Connections, NEW r, tx' = [tx EXCEPT ![t] = r]
  PROVE  tx'[t] = r /\ \A s \in Connections \ {t} : tx'[s] = tx[s]
BY DEF Inv, TypeOK

LEMMA SilentStep ==
  ASSUME Inv, Silent, NEW t \in Connections, NEW r, tx' = [tx EXCEPT ![t] = r],
         r.pc # "announce" => r.outbox = <<>>
  PROVE  Silent'
BY MovesTo DEF Silent

LEMMA SilentBegins ==
  ASSUME Inv, Silent, NEW t \in Connections, NEW changes \in {Idle, tx[t]},
         tx[t].pc # "announce", NEW r,
         tx' = [tx EXCEPT ![t] = r], r.outbox = changes.outbox
  PROVE  Silent'
<1>1. changes.outbox = <<>>
  BY DEF Silent, Idle
<1> QED
  BY <1>1, SilentStep

LEMMA SilentKept == Inv /\ Silent /\ [Next]_vars => Silent'
<1> SUFFICES ASSUME Inv, Silent, [Next]_vars PROVE Silent'
  OBVIOUS
<1>1. CASE UNCHANGED tx
  BY <1>1 DEF Silent
<1>2. ASSUME NEW t \in Connections, Refuse(t) PROVE Silent'
  BY <1>2, SilentStep DEF Refuse, Ends, Moves, Idle
<1>3. ASSUME NEW t \in Connections, NEW events, Commits(t, events) PROVE Silent'
  <2> DEFINE r == [Idle EXCEPT !.pc = "announce", !.outbox = events]
  <2>1. tx' = [tx EXCEPT ![t] = r] /\ r.pc = "announce"
    BY <1>3 DEF Commits, Moves, Idle
  <2> HIDE DEF r
  <2> QED
    BY <2>1, SilentStep
<1>4. \A t \in Connections : DOMAIN tx[t] = DOMAIN Idle
  BY DEF Inv, TypeOK, Transaction, Idle
<1>5. ASSUME NEW t \in Connections, Request(t) PROVE Silent'
  <2>1. tx[t].pc # "announce"
    BY <1>5 DEF Request, OpenForm, BeginCreate, BeginDelete, BeginUpdate, BeginRestore,
                BeginPublishDue
  <2>2. ASSUME NEW changes, changes.outbox = <<>>, DOMAIN changes = DOMAIN Idle,
               Begins(t, changes)
        PROVE  Silent'
    <3> DEFINE r == [changes EXCEPT !.started = ticks + 1, !.clock = now]
    <3>1. tx' = [tx EXCEPT ![t] = r]
      BY <2>2 DEF Begins, Moves
    <3>2. r.outbox = <<>>
      BY <2>2 DEF Idle
    <3> HIDE DEF r
    <3> QED
      BY <3>1, <3>2, SilentStep
  <2>3. ASSUME NEW u \in UserIds, NEW d \in Docs, OpenForm(t, u, d) PROVE Silent'
    <3> DEFINE r == [Idle EXCEPT !.pc = "composing", !.user = u, !.doc = d,
                                 !.form = rows[d]]
    <3>1. tx' = [tx EXCEPT ![t] = r]
      BY <2>3 DEF OpenForm, Moves
    <3>2. r.outbox = <<>>
      BY DEF Idle
    <3> HIDE DEF r
    <3> QED
      BY <3>1, <3>2, SilentStep
  <2>4. ASSUME NEW u \in UserIds, NEW d \in Docs, BeginDelete(t, u, d) PROVE Silent'
    <3> DEFINE c == [Idle EXCEPT !.pc = "lockGroup", !.op = "delete", !.user = u,
                            !.doc = d, !.group = rows[d].group, !.at = d]
    <3>1. Begins(t, c) /\ c.outbox = <<>> /\ DOMAIN c = DOMAIN Idle
      BY <2>4 DEF BeginDelete, Idle
    <3> HIDE DEF c
    <3> QED
      BY <3>1, <2>2
  <2>5. ASSUME NEW u \in UserIds, BeginCreate(t, u) PROVE Silent'
    <3>1. PICK type \in Types, locale \in Locales, sent \in Creations,
               group \in Groups \cup {None} :
            LET state == StampPublication(Parse(type, sent), now)
                next  == IF group # None THEN "lockGroup"
                         ELSE IF state.parent # None THEN "walk" ELSE "commit"
            IN Begins(t, [Idle EXCEPT !.pc = next, !.op = "create", !.user = u,
                            !.type = type, !.locale = locale, !.group = group,
                            !.next = state, !.at = state.parent])
      BY <2>5 DEF BeginCreate
    <3> DEFINE state == StampPublication(Parse(type, sent), now)
               next  == IF group # None THEN "lockGroup"
                        ELSE IF state.parent # None THEN "walk" ELSE "commit"
               c == [Idle EXCEPT !.pc = next, !.op = "create", !.user = u,
                       !.type = type, !.locale = locale, !.group = group,
                       !.next = state, !.at = state.parent]
    <3>2. Begins(t, c)
      BY <3>1
    <3> HIDE DEF state, next
    <3>3. c.outbox = <<>> /\ DOMAIN c = DOMAIN Idle
      BY DEF Idle
    <3> HIDE DEF c
    <3> QED
      BY <3>2, <3>3, <2>2
  <2>6. ASSUME NEW op, NEW patch, NEW d,
               Begins(t, [tx[t] EXCEPT !.pc = "lockRow", !.op = op, !.at = d,
                                       !.patch = patch])
        PROVE  Silent'
    <3> DEFINE c == [tx[t] EXCEPT !.pc = "lockRow", !.op = op, !.at = d,
                                  !.patch = patch]
    <3>1. Begins(t, c)
      BY <2>6
    <3>2. c.outbox = <<>> /\ DOMAIN c = DOMAIN Idle
      BY <1>4, <2>1 DEF Silent, Idle
    <3> HIDE DEF c
    <3> QED
      BY <3>1, <3>2, <2>2
  <2>7. CASE BeginUpdate(t) \/ BeginRestore(t)
    BY <2>6, <2>7 DEF BeginUpdate, BeginRestore
  <2>8. CASE BeginPublishDue(t)
    <3> DEFINE due == {<<rows[d].state.date, d>> : d \in {e \in Docs : IsDue(e, now)}}
    <3>1. PICK d \in NextDue(due) :
            Begins(t, [Idle EXCEPT !.pc = "claim", !.op = "publishDue",
                                   !.due = due, !.at = d])
      BY <2>8 DEF BeginPublishDue
    <3> DEFINE c == [Idle EXCEPT !.pc = "claim", !.op = "publishDue",
                                 !.due = due, !.at = d]
    <3> HIDE DEF due
    <3>2. Begins(t, c) /\ c.outbox = <<>> /\ DOMAIN c = DOMAIN Idle
      BY <3>1 DEF Idle
    <3> HIDE DEF c
    <3> QED
      BY <3>2, <2>2
  <2> QED
    BY <1>5, <2>3, <2>4, <2>5, <2>7, <2>8 DEF Request
<1>6. ASSUME NEW t \in Connections, Proceed(t) PROVE Silent'
  <2>1. ASSUME NEW r, tx' = [tx EXCEPT ![t] = r], r.outbox = tx[t].outbox,
               tx[t].pc # "announce"
        PROVE  Silent'
    BY <2>1, SilentBegins
  <2>2. CASE JoinGroup(t) \/ MeasureHeight(t)
    BY <1>2, <1>4, <2>1, <2>2 DEF JoinGroup, MeasureHeight, Moves, Idle
  <2>3. CASE LockForUpdate(t)
    BY <1>2, <1>4, <2>1, <2>3 DEF LockForUpdate, Moves, Idle
  <2>4. CASE LockAncestor(t)
    BY <1>4, <2>1, <2>4 DEF LockAncestor, Moves, Idle
  <2>5. CASE LockGroupOfDeleted(t)
    BY <1>4, <2>1, <2>5 DEF LockGroupOfDeleted, Moves, Idle
  <2>6. CASE LockForDelete(t)
    BY <1>2, <1>4, <2>1, <2>6 DEF LockForDelete, Moves, Idle
  <2>7. CASE LockChild(t)
    BY <1>4, <2>1, <2>7 DEF LockChild, Moves, Idle
  <2>8. CASE Claim(t)
    BY <1>4, <2>1, <2>8 DEF Claim, Moves, Idle
  <2>9. CASE Announce(t)
    <3>1. CASE tx' = [tx EXCEPT ![t] = Idle]
      BY <3>1, SilentStep DEF Idle
    <3>2. CASE tx' = [tx EXCEPT ![t] = [tx[t] EXCEPT !.outbox = Tail(@)]]
      <4>1. [tx[t] EXCEPT !.outbox = Tail(@)].pc = "announce"
        BY <1>4, <2>9 DEF Announce, Idle
      <4> QED
        BY <3>2, <4>1, SilentStep
    <3> QED
      BY <2>9, <3>1, <3>2 DEF Announce, Moves
  <2>10. CASE CommitCreate(t) \/ CommitUpdate(t) \/ CommitDelete(t) \/ CommitPublishDue(t)
    BY <1>2, <1>3, <2>10 DEF CommitCreate, CommitUpdate, CommitDelete, CommitPublishDue
  <2>11. CASE RefuseParent(t) \/ BreakDeadlock(t)
    BY <1>2, <2>11 DEF RefuseParent, BreakDeadlock
  <2> QED
    BY <1>6, <2>2, <2>3, <2>4, <2>5, <2>6, <2>7, <2>8, <2>9, <2>10, <2>11 DEF Proceed
<1> QED
  BY <1>1, <1>2, <1>5, <1>6 DEF Next, Abort, DeleteMedia, Tick, Quiet, vars

(* What a step queues is what its one commit announces.                    *)
LEMMA QueuesWhatCommits ==
  ASSUME Inv, Silent, NEW t \in Connections, tx[t].pc = "commit",
         NEW events, Commits(t, events), NEW d, NEW name
  PROVE  Queues(d, name) <=>
           \E i \in 1..Len(events) : events[i] = [doc |-> d, name |-> name]
<1> DEFINE r == [Idle EXCEPT !.pc = "announce", !.outbox = events]
<1>1. tx' = [tx EXCEPT ![t] = r] /\ r.outbox = events
  BY DEF Commits, Moves, Idle
<1> HIDE DEF r
<1>2. tx'[t].outbox = events /\ \A s \in Connections \ {t} : tx'[s] = tx[s]
  BY <1>1, MovesTo
<1>3. \A s \in Connections \ {t} : tx[s].pc = "commit" => Len(tx'[s].outbox) = 0
  BY <1>2 DEF Silent
<1>4. ~(\E i \in 1..0 : TRUE)
  OBVIOUS
<1> QED
  BY <1>2, <1>3, <1>4 DEF Queues

LEMMA QueuesAtWrites ==
  ASSUME Inv, Silent, [Next]_vars, NEW d, NEW name, Queues(d, name)
  PROVE  \E t \in Connections : Writes(t)
<1>1. PICK t \in Connections : tx[t].pc = "commit" /\ Len(tx'[t].outbox) # 0
  <2>1. \A n : n = 0 => 1..n = {}
    OBVIOUS
  <2> QED
    BY <2>1 DEF Queues
<1>2. tx'[t].pc = "announce"
  BY <1>1, SilentKept DEF Silent
<1>3. /\ ~Refuse(t)
      /\ CommitCreate(t) \/ CommitUpdate(t) \/ CommitDelete(t) \/ CommitPublishDue(t)
  BY <1>1, <1>2, CommitStep DEF Inv
<1> QED
  BY <1>3, CreatesAtCommit DEF Writes, Updates, Removes

LEMMA AboutFacts ==
  ASSUME NEW d, NEW names \in Seq(Event), NEW e, NEW name
  PROVE  (\E i \in 1..Len(About(d, names)) :
            About(d, names)[i] = [doc |-> e, name |-> name])
         <=> d = e /\ \E i \in 1..Len(names) : names[i] = name
<1>1. Len(About(d, names)) = Len(names)
  BY DEF About
<1>2. \A i \in 1..Len(names) : About(d, names)[i] = [doc |-> d, name |-> names[i]]
  BY DEF About
<1>3. \A i \in 1..Len(names) :
        [doc |-> d, name |-> names[i]] = [doc |-> e, name |-> name]
          <=> d = e /\ names[i] = name
  OBVIOUS
<1> QED
  BY <1>1, <1>2, <1>3

LEMMA QueuesAbout ==
  ASSUME Inv, Silent, NEW t \in Connections, tx[t].pc = "commit",
         NEW d, NEW names \in Seq(Event), Commits(t, About(d, names)), NEW e, NEW name
  PROVE  Queues(e, name) <=> d = e /\ \E i \in 1..Len(names) : names[i] = name
<1>1. Queues(e, name) <=>
        \E i \in 1..Len(About(d, names)) :
          About(d, names)[i] = [doc |-> e, name |-> name]
  BY QueuesWhatCommits
<1> QED
  BY <1>1, AboutFacts

LEMMA QueuesOne ==
  ASSUME Inv, Silent, NEW t \in Connections, tx[t].pc = "commit",
         NEW d, NEW x \in Event, Commits(t, About(d, <<x>>)), NEW e, NEW name
  PROVE  Queues(e, name) <=> d = e /\ name = x
<1> DEFINE names == <<x>>
<1>1. names \in Seq(Event) /\ Len(names) = 1 /\ names[1] = x
  OBVIOUS
<1>2. Queues(e, name) <=> d = e /\ \E i \in 1..Len(names) : names[i] = name
  <2>1. Commits(t, About(d, names))
    OBVIOUS
  <2> HIDE DEF names
  <2> QED
    BY <1>1, <2>1, QueuesAbout
<1> QED
  BY <1>1, <1>2

(* A save announces the passage to or from published, if there is one.     *)
LEMMA TransitionsFacts ==
  ASSUME NEW previous, NEW next
  PROVE  LET names == TransitionsFor(previous, next)
         IN /\ names \in Seq(Event)
            /\ (\E i \in 1..Len(names) : names[i] = "content:published")
                 <=> previous # "published" /\ next = "published"
            /\ (\E i \in 1..Len(names) : names[i] = "content:unpublished")
                 <=> previous = "published" /\ next # "published"
<1> DEFINE entering == IF previous # "published" /\ next = "published"
                       THEN <<"content:published">> ELSE <<>>
           leaving  == IF previous = "published" /\ next # "published"
                       THEN <<"content:unpublished">> ELSE <<>>
           always == <<"content:updated">>
           names  == always \o entering \o leaving
<1>1. TransitionsFor(previous, next) = names /\ names \in Seq(Event)
  BY TransitionsTyped DEF TransitionsFor
<1>2. /\ always \in Seq(Event) /\ entering \in Seq(Event)
      /\ leaving \in Seq(Event)
  <2>1. /\ <<"content:updated">> \in Seq(Event) /\ <<"content:published">> \in Seq(Event)
        /\ <<"content:unpublished">> \in Seq(Event) /\ <<>> \in Seq(Event)
    BY DEF Event
  <2> QED
    BY <2>1
<1>3. (\A x : Range(<<x>>) = {x}) /\ Range(always) = {"content:updated"}
  BY DEF Range
<1>4. Range(<<>>) = {}
  BY DEF Range
<1>5. /\ Range(entering) = IF previous # "published" /\ next = "published"
                           THEN {"content:published"} ELSE {}
      /\ Range(leaving) = IF previous = "published" /\ next # "published"
                          THEN {"content:unpublished"} ELSE {}
  BY <1>3, <1>4
<1>6. \A s \in Seq(Event) : \A x : (\E i \in 1..Len(s) : s[i] = x) <=> x \in Range(s)
  BY DEF Range
<1> HIDE DEF always, entering, leaving
<1>7. Range(names) = {"content:updated"} \cup Range(entering) \cup Range(leaving)
  <2>1. always \o entering \in Seq(Event)
    BY <1>2
  <2>2. Range(always \o entering) = {"content:updated"} \cup Range(entering)
    BY <1>2, <1>3, RangeConcatenation
  <2>3. Range((always \o entering) \o leaving) =
          Range(always \o entering) \cup Range(leaving)
    BY ZenonT(60), <1>2, <2>1, RangeConcatenation
  <2> QED
    BY ZenonT(60), <2>2, <2>3
<1> QED
  BY <1>1, <1>5, <1>6, <1>7

(* A pass announces the publication of every document it claimed.          *)
LEMMA PublicationFacts ==
  ASSUME NEW t \in Connections, tx[t].claimed \in Seq(Docs), NEW d
  PROVE  LET events == PublicationEvents(t)
         IN /\ (\E i \in 1..Len(events) :
                  events[i] = [doc |-> d, name |-> "content:published"])
                 <=> d \in Claimed(t)
            /\ ~\E i \in 1..Len(events) :
                  events[i] = [doc |-> d, name |-> "content:unpublished"]
<1> DEFINE events == PublicationEvents(t)
           n == Len(tx[t].claimed)
<1>1. n \in Nat /\ 2 * n \in Nat
  OBVIOUS
<1>2. Len(events) = 2 * n
  BY <1>1 DEF PublicationEvents
<1>3. \A i \in 1..(2 * n) :
        /\ events[i].doc = tx[t].claimed[(i + 1) \div 2]
        /\ events[i].name = IF i % 2 = 1 THEN "content:updated" ELSE "content:published"
  BY DEF PublicationEvents
<1>4. ASSUME NEW i \in 1..(2 * n) PROVE (i + 1) \div 2 \in 1..n
  BY <1>1
<1>5. ASSUME NEW j \in 1..n
      PROVE  /\ 2 * j \in 1..(2 * n) /\ (2 * j) % 2 # 1 /\ (2 * j + 1) \div 2 = j
  BY <1>1
<1>6. ASSUME NEW j \in 1..n
      PROVE  events[2 * j] = [doc |-> tx[t].claimed[j], name |-> "content:published"]
  <2>1. events[2 * j] = [doc  |-> tx[t].claimed[(2 * j + 1) \div 2],
                         name |-> IF (2 * j) % 2 = 1 THEN "content:updated"
                                                     ELSE "content:published"]
    BY <1>5 DEF PublicationEvents
  <2> QED
    BY <1>5, <2>1
<1> HIDE DEF events
<1>7. (\E i \in 1..Len(events) : events[i] = [doc |-> d, name |-> "content:published"])
        => d \in Claimed(t)
  BY <1>2, <1>3, <1>4 DEF Claimed
<1>8. d \in Claimed(t) =>
        \E i \in 1..Len(events) : events[i] = [doc |-> d, name |-> "content:published"]
  BY <1>2, <1>5, <1>6 DEF Claimed
<1>9. \A i \in 1..Len(events) : events[i].name # "content:unpublished"
  BY <1>2, <1>3
<1> QED
  BY <1>7, <1>8, <1>9 DEF events

LEMMA QueuesPublications ==
  ASSUME Inv, Silent, NEW t \in Connections, tx[t].pc = "commit",
         tx[t].claimed \in Seq(Docs), Commits(t, PublicationEvents(t)), NEW d
  PROVE  /\ Queues(d, "content:published") <=> d \in Claimed(t)
         /\ ~Queues(d, "content:unpublished")
<1>1. \A name : Queues(d, name) <=>
        \E i \in 1..Len(PublicationEvents(t)) :
          PublicationEvents(t)[i] = [doc |-> d, name |-> name]
  BY QueuesWhatCommits
<1> QED
  BY <1>1, PublicationFacts

(* Hooks are told exactly when a document that exists comes into sight or  *)
(* goes out of it, whoever writes and whatever was read earlier: the       *)
(* status before is the one under the row's lock (updateContent,           *)
(* publishDueContent).                                                     *)
THEOREM VisibilityIsTold == Spec => VisibilityIsAnnounced
<1> DEFINE Told(d) ==
      /\ (~Published(rows[d]) /\ Published(rows'[d])) <=> Queues(d, "content:published")
      /\ (Published(rows[d]) /\ rows'[d] # Absent /\ ~Published(rows'[d]))
           <=> Queues(d, "content:unpublished")
<1>1. ASSUME Inv, Silent, [Next]_vars, NEW d \in Docs, Exists(d) PROVE Told(d)
  <2>1. CASE ~\E t \in Connections : Writes(t)
    <3>1. rows' = rows
      BY <1>1, <2>1, WritesOrNot DEF WritesNothing
    <3> QED
      BY <1>1, <2>1, <3>1, QueuesAtWrites
  <2>2. ASSUME NEW t \in Connections, NEW e \in Docs, NEW g \in Groups, Creates(t, e, g)
        PROVE  Told(d)
    <3>1. rows'[d] = rows[d]
      BY <1>1, <2>2 DEF Creates, Inv, Known, TypeOK
    <3>3. "content:created" \in Event
      BY DEF Event
    <3>4. tx[t].pc = "commit" /\ Commits(t, About(e, <<"content:created">>))
      BY <2>2 DEF Creates
    <3>5. ~Queues(d, "content:published") /\ ~Queues(d, "content:unpublished")
      BY <1>1, <3>3, <3>4, QueuesOne
    <3> QED
      BY <3>1, <3>5
  <2>3. ASSUME NEW t \in Connections, Updates(t) PROVE Told(d)
    <3> DEFINE row   == [tx[t].cur EXCEPT !.state = tx[t].next, !.version = @ + 1]
               names == TransitionsFor(rows[tx[t].doc].state.status, tx[t].next.status)
    <3>1. /\ tx[t].doc \in Docs /\ rows[tx[t].doc] \in Row /\ row \in Row
          /\ row.state = tx[t].next
          /\ rows' = [rows EXCEPT ![tx[t].doc] = row]
          /\ Commits(t, About(tx[t].doc, names))
      BY <1>1, <2>3, UpdateFacts
    <3>2. tx[t].pc = "commit"
      BY <2>3 DEF Updates, CommitUpdate
    <3> HIDE DEF row
    <3>3. /\ rows'[tx[t].doc] = row
          /\ \A e \in Docs \ {tx[t].doc} : rows'[e] = rows[e]
      BY <1>1, <3>1 DEF Inv, TypeOK
    <3>4. names \in Seq(Event)
      BY TransitionsFacts
    <3>5. \A name : Queues(d, name) <=>
            tx[t].doc = d /\ \E i \in 1..Len(names) : names[i] = name
      <4> HIDE DEF names
      <4> QED
        BY <1>1, <3>1, <3>2, <3>4, QueuesAbout
    <3>6. CASE d # tx[t].doc
      BY <1>1, <3>3, <3>5, <3>6
    <3>7. CASE d = tx[t].doc
      <4>1. /\ rows[d] # Absent /\ rows'[d] # Absent
            /\ rows'[d].state.status = tx[t].next.status
        BY <3>1, <3>3, <3>7, NoValues
      <4> QED
        BY <3>5, <3>7, <4>1, TransitionsFacts DEF Published
    <3> QED
      BY <3>6, <3>7
  <2>4. ASSUME NEW t \in Connections, Removes(t) PROVE Told(d)
    <3>1. /\ rows'[tx[t].doc] = Absent
          /\ \A e \in Docs \ {tx[t].doc} :
               \/ rows'[e] = rows[e]
               \/ rows[e] \in Row /\ rows'[e] = [rows[e] EXCEPT !.state.parent = None]
          /\ Commits(t, About(tx[t].doc, <<"content:deleted">>))
      BY <1>1, <2>4, RemoveFacts
    <3>2. tx[t].pc = "commit"
      BY <2>4 DEF Removes, CommitDelete
    <3>3. "content:deleted" \in Event
      BY DEF Event
    <3>5. ~Queues(d, "content:published") /\ ~Queues(d, "content:unpublished")
      BY <1>1, <3>1, <3>2, <3>3, QueuesOne
    <3>6. d # tx[t].doc => Published(rows'[d]) = Published(rows[d])
      <4>1. ASSUME rows[d] \in Row, rows'[d] = [rows[d] EXCEPT !.state.parent = None]
            PROVE  rows'[d] \in Row /\ rows'[d].state.status = rows[d].state.status
        BY <4>1, OrphanedRow
      <4> QED
        BY <3>1, <4>1, NoValues DEF Published
    <3> QED
      BY <1>1, <3>1, <3>5, <3>6 DEF Published
  <2>5. ASSUME NEW t \in Connections, CommitPublishDue(t) PROVE Told(d)
    <3>1. /\ tx[t].claimed \in Seq(Docs)
          /\ \A e \in Claimed(t) :
               /\ rows[e] \in Row /\ IsDue(e, tx[t].clock)
               /\ rows'[e] = Publish(rows[e])
          /\ \A e \in Docs \ Claimed(t) : rows'[e] = rows[e]
          /\ Commits(t, PublicationEvents(t))
      BY <1>1, <2>5, PublishFacts
    <3>2. tx[t].pc = "commit"
      BY <2>5 DEF CommitPublishDue
    <3>3. /\ Queues(d, "content:published") <=> d \in Claimed(t)
          /\ ~Queues(d, "content:unpublished")
      BY <1>1, <3>1, <3>2, QueuesPublications
    <3>4. d \in Claimed(t) => ~Published(rows[d]) /\ Published(rows'[d])
      <4>1. ASSUME d \in Claimed(t)
            PROVE  /\ rows[d].state.status = "scheduled"
                   /\ rows'[d] \in Row /\ rows'[d].state.status = "published"
        <5>1. rows[d] \in Row /\ rows'[d] = Publish(rows[d]) /\ IsDue(d, tx[t].clock)
          BY <3>1, <4>1
        <5> QED
          BY <5>1, PublishedRow DEF IsDue
      <4> QED
        BY <4>1, NoValues DEF Published
    <3> QED
      BY <3>1, <3>3, <3>4
  <2> QED
    BY <2>1, <2>2, <2>3, <2>4, <2>5 DEF Writes
<1>2. Init => Silent
  BY DEF Init, Silent, Idle
<1>3. Spec => []Silent
  BY <1>2, SilentKept, Invariance, PTL DEF Spec
<1>4. Inv /\ Silent /\ [Next]_vars => [\A d \in Docs : Exists(d) => Told(d)]_vars
  BY <1>1
<1> QED
  BY <1>3, <1>4, Invariance, PTL DEF Spec, VisibilityIsAnnounced

=============================================================================
