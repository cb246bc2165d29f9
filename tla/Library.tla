------------------------------ MODULE Library ------------------------------
(***************************************************************************)
(* The media library: POST and DELETE /media, the two systems an asset     *)
(* lives in, and the sweep that finishes what a request could not.         *)
(*                                                                         *)
(* An asset is a row in Postgres and one object per rendition in the       *)
(* object store.  The store is external: a put it was sent may be stored   *)
(* late, or never, whatever the client of the store has concluded; a       *)
(* deletion may fail before or after the object went.  Documents are       *)
(* external too: ContentStore models them.  Here one starts and stops      *)
(* naming an asset, under the foreign key.                                 *)
(***************************************************************************)
EXTENDS Admission

CONSTANTS
  Renditions,   \* avif, webp
  Deleters,     \* DELETE requests the server runs at once
  Files,        \* what the client of each upload may send
  OrphanBatch,  \* objects one sweep tries
  Stuck,        \* objects the store never agrees to delete
  Inserting,      \* how an insert may end: "ok", "failed", or "lost", committed
                \*   without its answer
  Recording,    \* how the note of abandoned objects may end: "ok", "failed"
  Deleting,     \* what a deletion the store answers may leave: "none", or
                \*   "some", keys its answer lists as errors
  None

ASSUME LibraryAssumption ==
  /\ IsFiniteSet(Renditions)
  /\ OrphanBatch \in Nat \ {0}
  /\ Inserting \subseteq {"ok", "failed", "lost"}
  /\ Recording \subseteq {"ok", "failed"}
  /\ Deleting \subseteq {"none", "some"}

Keys == Uploads \X Renditions
KeysOf(u) == {u} \X Renditions

VARIABLES
  step,      \* how far the handler of each upload is
  owed,      \* keys whose putObject has not settled
  written,   \* the array the handler pushes a key to when its put resolves
  flight,    \* puts the store may still carry out
  objects,   \* what the store holds
  rows,      \* assets with a row
  orphans,   \* media_orphans, oldest first
  used,      \* assets a live document names, as content_media says
  deletion,  \* what each DELETE is doing
  sweep      \* the keys the running pass still has to try, None between passes

store == <<flight, objects>>
tables == <<rows, orphans, used>>
vars == <<gate, step, owed, written, store, tables, deletion, sweep>>

Steps == {"idle", "putting", "inserting", "recording", "removing"}
Idle == [phase |-> "idle", asset |-> None]

-----------------------------------------------------------------------------
(* The gate, with the handlers left alone.                                 *)

Gated(action) == action /\ UNCHANGED <<step, owed, written, store, tables, deletion, sweep>>

Enter(u) == Gated(Admit(u) \/ Saturated(u) \/ Wait(u))
GiveUp(u) == Gated(TimeOut(u) \/ Abort(u))

\* `finally { slot.release() }`, with whatever the last await did.
Finish(u) ==
  /\ Release(u)
  /\ step' = [step EXCEPT ![u] = "idle"]

-----------------------------------------------------------------------------
(* Refusing a file, in the order the route and processImage look at it.    *)

Refusal(file) ==
  CASE ~file.sent                -> "no_file"
    [] ~file.accepted            -> "unsupported_media_type"
    [] file.large                -> "file_too_large"
    [] file.format = "bomb"      -> "too-many-pixels"
    [] file.format = "broken"    -> "not-an-image"
    [] file.format = "svg"       -> "not-an-image"
    [] file.format = "wide"      -> "too-many-pixels"
    [] file.format = "animated"  -> "animated"
    [] OTHER                     -> None

Refuse(u) ==
  /\ turn[u] = "admitted" /\ step[u] = "idle"
  /\ \E file \in Files[u] : Refusal(file) # None
  /\ Finish(u)
  /\ UNCHANGED <<owed, written, store, tables, deletion, sweep>>

\* Both puts are sent before either answers.
StartPuts(u) ==
  /\ turn[u] = "admitted" /\ step[u] = "idle"
  /\ \E file \in Files[u] : Refusal(file) = None
  /\ step' = [step EXCEPT ![u] = "putting"]
  /\ owed' = owed \cup KeysOf(u)
  /\ flight' = flight \cup KeysOf(u)
  /\ UNCHANGED <<gate, written, objects, tables, deletion, sweep>>

\* The store carries a put out, or drops it.
StorePut(k) ==
  /\ k \in flight
  /\ flight' = flight \ {k}
  /\ objects' \in {objects, objects \cup {k}}
  /\ UNCHANGED <<gate, step, owed, written, tables, deletion, sweep>>

\* Mutant: the row is written when the first put has resolved.
FirstPutResolves(k) ==
  LET u == k[1] IN
  /\ k \in owed /\ k \in objects
  /\ owed' = owed \ {k}
  /\ written' = written \cup {k}
  /\ step' = IF step[u] = "putting" THEN [step EXCEPT ![u] = "inserting"] ELSE step
  /\ UNCHANGED <<gate, store, tables, deletion, sweep>>

\* A put resolves.  Its key is pushed even when Promise.all has already
\* rejected, to the array abandonObjects was given.
PutResolves(k) ==
  LET u == k[1] IN
  /\ k \in owed /\ k \in objects
  /\ owed' = owed \ {k}
  /\ written' = written \cup {k}
  /\ step' = IF step[u] = "putting" /\ KeysOf(u) \subseteq written'
             THEN [step EXCEPT ![u] = "inserting"] ELSE step
  /\ UNCHANGED <<gate, store, tables, deletion, sweep>>

\* A put rejects: the first one settles Promise.all, whatever the other does.
PutRejects(k) ==
  LET u == k[1] IN
  /\ k \in owed
  /\ owed' = owed \ {k}
  /\ step' = IF step[u] = "putting" THEN [step EXCEPT ![u] = "recording"] ELSE step
  /\ UNCHANGED <<gate, written, store, tables, deletion, sweep>>

Insert(u) ==
  /\ step[u] = "inserting"
  /\ \E end \in Inserting :
       /\ rows' = IF end = "failed" THEN rows ELSE rows \cup {u}
       /\ IF end = "ok" THEN Finish(u)
          ELSE step' = [step EXCEPT ![u] = "recording"] /\ UNCHANGED gate
  /\ UNCHANGED <<owed, written, store, orphans, used, deletion, sweep>>

-----------------------------------------------------------------------------
(* Orphans: a key is listed once, and keeps the place it had.              *)

Listed == {orphans[i] : i \in DOMAIN orphans}

Listing(keys) == orphans \o SetToSeq(keys \ Listed)
Unlisted(keys) ==
  LET rest[i \in 0..Len(orphans)] ==
        IF i = 0 THEN <<>>
        ELSE IF orphans[i] \in keys THEN rest[i - 1] ELSE Append(rest[i - 1], orphans[i])
  IN rest[Len(orphans)]

\* What deleteObjects may do to the store, and whether it resolves.  The keys
\* its answer names as errors are still there, and nobody looks at them.
StoreDeletes(keys, resolves) ==
  \E gone \in SUBSET (keys \ Stuck) :
    /\ resolves => gone = keys \/ "some" \in Deleting
    /\ objects' = objects \ gone
    /\ UNCHANGED flight

\* abandonObjects: nothing to do when no key was pushed, else the note first.
Record(u) ==
  LET keys == written \cap KeysOf(u) IN
  /\ step[u] = "recording"
  /\ IF keys = {}
     THEN Finish(u) /\ UNCHANGED orphans
     ELSE /\ step' = [step EXCEPT ![u] = "removing"] /\ UNCHANGED gate
          /\ \E end \in Recording :
               orphans' = IF end = "ok" THEN Listing(keys) ELSE orphans
  /\ UNCHANGED <<owed, written, store, rows, used, deletion, sweep>>

\* Then the objects, and the note of each once they are gone.
Abandon(u) ==
  LET keys == written \cap KeysOf(u) IN
  /\ step[u] = "removing"
  /\ \E resolves \in BOOLEAN :
       /\ StoreDeletes(keys, resolves)
       /\ \E forgotten \in SUBSET keys :
            /\ ~resolves => forgotten = {}
            /\ orphans' = Unlisted(forgotten)
  /\ Finish(u)
  /\ UNCHANGED <<owed, written, rows, used, deletion, sweep>>

-----------------------------------------------------------------------------
(* DELETE /media/:id                                                       *)

\* findMediaReferences reads what the foreign key refuses by.
InUse(u) == u \in used

\* The question asked first; 409 when some document names the asset.
CheckReferences(d, u) ==
  /\ deletion[d] = Idle
  /\ ~InUse(u)
  /\ deletion' = [deletion EXCEPT ![d] = [phase |-> "checked", asset |-> u]]
  /\ UNCHANGED <<gate, step, owed, written, store, tables, sweep>>

\* The row and the note of its objects in one transaction.  The foreign key
\* refuses an asset a document has come to name; no row answers 404.
DeleteRow(d) ==
  LET u == deletion[d].asset IN
  /\ deletion[d].phase = "checked"
  /\ IF u \in rows /\ ~InUse(u)
     THEN /\ rows' = rows \ {u}
          /\ orphans' = Listing(KeysOf(u))
          /\ deletion' = [deletion EXCEPT ![d].phase = "removing"]
     ELSE /\ deletion' = [deletion EXCEPT ![d] = Idle]
          /\ UNCHANGED <<rows, orphans>>
  /\ UNCHANGED <<gate, step, owed, written, store, used, sweep>>

\* Mutant: the notes go whatever the store said.
RemoveUnchecked(d) ==
  LET keys == KeysOf(deletion[d].asset) IN
  /\ deletion[d].phase = "removing"
  /\ \E resolves \in BOOLEAN : StoreDeletes(keys, resolves)
  /\ orphans' = Unlisted(keys)
  /\ deletion' = [deletion EXCEPT ![d] = Idle]
  /\ UNCHANGED <<gate, step, owed, written, rows, used, sweep>>

RemoveObjects(d) ==
  LET keys == KeysOf(deletion[d].asset) IN
  /\ deletion[d].phase = "removing"
  /\ \E resolves \in BOOLEAN :
       /\ StoreDeletes(keys, resolves)
       /\ \E forgotten \in SUBSET keys :
            /\ ~resolves => forgotten = {}
            /\ orphans' = Unlisted(forgotten)
  /\ deletion' = [deletion EXCEPT ![d] = Idle]
  /\ UNCHANGED <<gate, step, owed, written, rows, used, sweep>>

\* A document starts to name an asset, which needs its row, or stops.
Use(u) ==
  /\ u \in rows
  /\ used' = (used \ {u}) \cup ({u} \ used)
  /\ UNCHANGED <<gate, step, owed, written, store, rows, orphans, deletion, sweep>>

-----------------------------------------------------------------------------
(* The sweep: one pass at a time, the oldest first, one object at a time.  *)

StartSweep ==
  /\ sweep = None
  /\ orphans # <<>>
  /\ sweep' = SubSeq(orphans, 1, IF Len(orphans) < OrphanBatch THEN Len(orphans)
                                 ELSE OrphanBatch)
  /\ UNCHANGED <<gate, step, owed, written, store, tables, deletion>>

NextOfBatch == IF Len(sweep) = 1 THEN None ELSE Tail(sweep)

SweepRemoves ==
  /\ sweep # None
  /\ StoreDeletes({Head(sweep)}, TRUE)
  /\ orphans' = Unlisted({Head(sweep)})
  /\ sweep' = NextOfBatch
  /\ UNCHANGED <<gate, step, owed, written, rows, used, deletion>>

\* Mutant: one failure ends the pass.
SweepStops ==
  /\ sweep # None
  /\ StoreDeletes({Head(sweep)}, FALSE)
  /\ sweep' = None
  /\ UNCHANGED <<gate, step, owed, written, tables, deletion>>

\* The store, or Postgres after it, failed: noted, and on with the rest; a
\* note that fails as well ends the pass.
SweepFails ==
  /\ sweep # None
  /\ StoreDeletes({Head(sweep)}, FALSE)
  /\ sweep' \in {NextOfBatch, None}
  /\ UNCHANGED <<gate, step, owed, written, tables, deletion>>

-----------------------------------------------------------------------------
\* The process dies: what it held in memory goes, what it sent stays sent.
Crash ==
  /\ Restart
  /\ step' = [u \in Uploads |-> "idle"]
  /\ owed' = {} /\ written' = {}
  /\ deletion' = [d \in Deleters |-> Idle]
  /\ sweep' = None
  /\ UNCHANGED <<store, tables>>

Init ==
  /\ GateInit
  /\ step = [u \in Uploads |-> "idle"]
  /\ owed = {} /\ written = {}
  /\ flight = {} /\ objects = {}
  /\ rows = {} /\ orphans = <<>> /\ used = {}
  /\ deletion = [d \in Deleters |-> Idle]
  /\ sweep = None

Upload(u) ==
  Enter(u) \/ GiveUp(u) \/ Refuse(u) \/ StartPuts(u) \/ Insert(u) \/ Record(u) \/ Abandon(u)
Put(k) == StorePut(k) \/ PutResolves(k) \/ PutRejects(k)
Sweep == StartSweep \/ SweepRemoves \/ SweepFails

Next ==
  \/ \E u \in Uploads : Upload(u) \/ Use(u)
  \/ \E k \in Keys : Put(k)
  \/ \E d \in Deleters :
       (\E u \in Uploads : CheckReferences(d, u)) \/ DeleteRow(d) \/ RemoveObjects(d)
  \/ Sweep
  \/ Crash

Spec == Init /\ [][Next]_vars

-----------------------------------------------------------------------------
(* Fairness.  A waiter's timer fires; each await of a handler settles, the *)
(* put of a rejected Promise.all excepted; sweeps keep starting.  The      *)
(* store agrees again and again to delete what is not stuck, and Postgres  *)
(* to note a failure: neither fails for ever.                              *)

Noted(k) == SweepFails /\ Head(sweep) = k /\ sweep' = NextOfBatch
Removed(k) == SweepRemoves /\ Head(sweep) = k

Fairness ==
  /\ \A u \in Uploads :
       /\ WF_vars(Gated(TimeOut(u)))
       /\ WF_vars(Refuse(u) \/ StartPuts(u) \/ Insert(u) \/ Record(u) \/ Abandon(u))
  /\ \A k \in Keys :
       WF_vars(PutResolves(k) \/ PutRejects(k)) /\ SF_vars(Noted(k)) /\ SF_vars(Removed(k))
  /\ WF_vars(Sweep)

FairSpec == Spec /\ Fairness

-----------------------------------------------------------------------------
LibraryTypeOK ==
  /\ GateTypeOK
  /\ step \in [Uploads -> Steps]
  /\ owed \subseteq Keys /\ written \subseteq Keys
  /\ flight \subseteq Keys /\ objects \subseteq Keys
  /\ rows \subseteq Uploads /\ used \subseteq rows
  /\ orphans \in Seq(Keys)
  /\ deletion \in [Deleters -> [phase : {"idle", "checked", "removing"},
                                asset : Uploads \cup {None}]]
  /\ sweep = None \/ sweep \in Seq(Keys) \ {<<>>}

\* A row names only objects the store has, whatever uploads, deletions and
\* sweeps are doing and wherever the process dies: an object with no row costs
\* storage, a row with no object breaks every page that shows it.
RowsAreStored == \A u \in rows : KeysOf(u) \subseteq objects

\* No key of an asset that has a row is ever listed for removal, or under a
\* sweep that read the list before.
RowsAreNotOrphans ==
  \A u \in rows : KeysOf(u) \cap (Listed \cup (IF sweep = None THEN {}
                                               ELSE {sweep[i] : i \in DOMAIN sweep})) = {}

\* The step that takes a row away lists what it named, so that no crash after
\* it can lose sight of the objects.
DeletionsAreListed ==
  [][\A u \in rows \ rows' : KeysOf(u) \subseteq {orphans'[i] : i \in DOMAIN orphans'}]_vars

\* A note is removed once the object is actually gone.
NotesOutliveObjects ==
  [][\A k \in Listed : k \notin {orphans'[i] : i \in DOMAIN orphans'} => k \notin objects']_vars

\* A waiting request holds a connection no longer than its timer allows, even
\* when no handler ever returns its permit.
WaitersAnswered == \A u \in Uploads : turn[u] = "waiting" ~> turn[u] # "waiting"

\* A handler that got a permit gives it back.
PermitsReturn == \A u \in Uploads : turn[u] = "admitted" ~> turn[u] # "admitted"

\* Whatever is listed and can be deleted is deleted in the end, in spite of
\* the objects ahead of it that the store keeps refusing.
OrphansCleared ==
  \A k \in Keys \ Stuck : (k \in Listed) ~> (k \notin Listed /\ k \notin objects)

\* An asset has its objects, and none of them is on its way out (POST and DELETE /media).
AssetsHold == LibraryTypeOK /\ RowsAreStored /\ RowsAreNotOrphans

\* From the step that takes a row away to the removal of its objects, they are listed
\* (deleteMedia, forgetOrphan).
ObjectsStayListed == DeletionsAreListed /\ NotesOutliveObjects

\* Whoever waits is answered, permits come back, and what is left over goes
\* (createAdmission, POST /media, sweepOrphans).
UploadsEnd == WaitersAnswered /\ PermitsReturn /\ OrphansCleared
=============================================================================
