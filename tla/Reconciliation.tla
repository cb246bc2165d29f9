--------------------------- MODULE Reconciliation ---------------------------
(***************************************************************************)
(* `pnpm db:reconcile` and what depends on it: the relational mirror of    *)
(* the media the documents name, the durable marker that says it is        *)
(* complete, and the server that starts only when it is.                   *)
(*                                                                         *)
(* A reconciliation is one READ COMMITTED transaction under two locks, the *)
(* marker's row and `contents` in SHARE mode.  Each statement sees what is *)
(* committed when it runs.  Saves are those of ContentStore, reduced to    *)
(* what they do to the references of one document.                         *)
(***************************************************************************)
EXTENDS Naturals, FiniteSets

CONSTANTS
  Docs, Media,
  Runs,      \* reconciliations an operator may start at once
  Servers,
  Writers,   \* transactions the servers have open at once
  MaxInterrupts,  \* bound
  None

VARIABLES
  refs,      \* the media each document names, in its blocks and metadata
  foreign,   \* documents of a type this build does not declare
  media,     \* assets with a row
  mirror,    \* content_media
  marker,    \* media_reference_sync.state
  run,       \* where each reconciliation is, and what it has read
  server,    \* "up" or "down"
  saving,    \* the save each writer has under way, which holds ROW EXCLUSIVE on
             \*   contents, or None
  interrupts

vars == <<refs, foreign, media, mirror, marker, run, server, saving, interrupts>>

ReferencesOf(r) == {p \in Docs \X Media : p[2] \in r[p[1]]}
NamedBy(pairs) == {p[2] : p \in pairs}

Resting == [phase |-> "resting", wanted |-> {}, stale |-> {}, fresh |-> {}]

TableLocked == \E r \in Runs : run[r].phase \in {"reading", "checking", "comparing",
                                                 "writing", "settling"}

To(r, phase) == run' = [run EXCEPT ![r].phase = phase]
End(r) == run' = [run EXCEPT ![r] = Resting]

-----------------------------------------------------------------------------
(* The reconciliation, statement by statement.                             *)

\* `select ... for update` on the marker: one reconciliation at a time.
LockMarker(r) ==
  /\ \A other \in Runs : run[other] = Resting
  /\ To(r, "locking")
  /\ UNCHANGED <<refs, foreign, media, mirror, marker, server, saving, interrupts>>

\* `lock table contents in share mode` waits for every save under way.
LockTable(r) ==
  /\ run[r].phase = "locking"
  /\ \A w \in Writers : saving[w] = None
  /\ To(r, "reading")
  /\ UNCHANGED <<refs, foreign, media, mirror, marker, server, saving, interrupts>>

ReadDocuments(r) ==
  /\ run[r].phase = "reading"
  /\ run' = [run EXCEPT ![r].phase = "checking",
                        ![r].wanted = {p \in ReferencesOf(refs) : p[1] \notin foreign}]
  /\ UNCHANGED <<refs, foreign, media, mirror, marker, server, saving, interrupts>>

\* Mutant: what can be mirrored is, and the installation is called ready.
DiagnoseNothing(r) ==
  /\ run[r].phase = "checking"
  /\ run' = [run EXCEPT ![r].phase = "comparing",
                        ![r].wanted = {p \in run[r].wanted : p[2] \in media}]
  /\ UNCHANGED <<refs, foreign, media, mirror, marker, server, saving, interrupts>>

\* A reference to no asset, or a type nobody declares: the marker goes back to
\* pending, which is committed, and no row of the mirror is touched.
Diagnose(r) ==
  /\ run[r].phase = "checking"
  /\ IF NamedBy(run[r].wanted) \subseteq media /\ foreign = {}
     THEN To(r, "comparing") /\ UNCHANGED marker
     ELSE marker' = "pending" /\ End(r)
  /\ UNCHANGED <<refs, foreign, media, mirror, server, saving, interrupts>>

Compare(r) ==
  /\ run[r].phase = "comparing"
  /\ run' = [run EXCEPT ![r].phase = "writing",
                        ![r].stale = mirror \ run[r].wanted,
                        ![r].fresh = run[r].wanted \ mirror]
  /\ UNCHANGED <<refs, foreign, media, mirror, marker, server, saving, interrupts>>

\* The rows are written under the foreign key: an asset deleted since it was
\* found present fails the transaction.
WriteRows(r) ==
  /\ run[r].phase = "writing"
  /\ IF NamedBy(run[r].fresh) \subseteq media THEN To(r, "settling") ELSE End(r)
  /\ UNCHANGED <<refs, foreign, media, mirror, marker, server, saving, interrupts>>

\* Mutant: the rows are there and the marker is forgotten.
SettleRunSilently(r) ==
  /\ run[r].phase = "settling"
  /\ mirror' = (mirror \ run[r].stale) \cup run[r].fresh
  /\ End(r)
  /\ UNCHANGED <<refs, foreign, media, marker, server, saving, interrupts>>

\* Read back, compared with what should be there, and committed.
SettleRun(r) ==
  LET settled == (mirror \ run[r].stale) \cup run[r].fresh IN
  /\ run[r].phase = "settling"
  /\ IF settled = run[r].wanted
     THEN mirror' = settled /\ marker' = "ready"
     ELSE UNCHANGED <<mirror, marker, interrupts>>
  /\ End(r)
  /\ UNCHANGED <<refs, foreign, media, server, saving, interrupts>>

\* The command dies, or its connection does: nothing of it is left.
Interrupt(r) ==
  /\ run[r] # Resting
  /\ interrupts < MaxInterrupts
  /\ interrupts' = interrupts + 1
  /\ End(r)
  /\ UNCHANGED <<refs, foreign, media, mirror, marker, server, saving>>

-----------------------------------------------------------------------------
(* The servers.                                                            *)

\* buildApp reads the marker before anything else exists.
Boot(s) ==
  /\ server[s] = "down"
  /\ marker = "ready"
  /\ server' = [server EXCEPT ![s] = "up"]
  /\ UNCHANGED <<refs, foreign, media, mirror, marker, run, saving, interrupts>>

\* The last server to stop takes the saves under way with it.
Stop(s) ==
  /\ server[s] = "up"
  /\ server' = [server EXCEPT ![s] = "down"]
  /\ saving' = IF \A other \in Servers \ {s} : server[other] = "down"
               THEN [w \in Writers |-> None] ELSE saving
  /\ UNCHANGED <<refs, foreign, media, mirror, marker, run, interrupts>>

Serving == \E s \in Servers : server[s] = "up"

BeginSave(w, d, names) ==
  /\ Serving /\ saving[w] = None
  /\ ~TableLocked
  /\ d \notin foreign
  /\ \A other \in Writers : saving[other] # None => saving[other].doc # d
  /\ saving' = [saving EXCEPT ![w] = [doc |-> d, names |-> names]]
  /\ UNCHANGED <<refs, foreign, media, mirror, marker, run, server, interrupts>>

\* The document and its mirror rows in one transaction, under the foreign key.
CommitSave(w) ==
  /\ saving[w] # None
  /\ LET d == saving[w].doc
         names == saving[w].names
     IN IF names \subseteq media
        THEN /\ refs' = [refs EXCEPT ![d] = names]
             /\ mirror' = {p \in mirror : p[1] # d} \cup ({d} \X names)
        ELSE UNCHANGED <<refs, mirror, interrupts>>
  /\ saving' = [saving EXCEPT ![w] = None]
  /\ UNCHANGED <<foreign, media, marker, run, server, interrupts>>

\* DELETE /media: the constraint refuses an asset the mirror names, and waits
\* for a reconciliation that is writing rows about it.
DeleteMedia(m) ==
  /\ Serving
  /\ m \in media
  /\ m \notin NamedBy(mirror)
  /\ \A r \in Runs : run[r].phase = "settling" => m \notin NamedBy(run[r].fresh)
  /\ media' = media \ {m}
  /\ UNCHANGED <<refs, foreign, mirror, marker, run, server, saving, interrupts>>

-----------------------------------------------------------------------------
\* What the report asks a person to do: repair a document, declare a type.
Repair(d) ==
  /\ marker = "pending"
  /\ ~TableLocked
  /\ refs[d] \ media # {}
  /\ refs' = [refs EXCEPT ![d] = @ \cap media]
  /\ UNCHANGED <<foreign, media, mirror, marker, run, server, saving, interrupts>>

\* Another build is deployed, with modules that declare other types.
Deploy(types) ==
  /\ \A r \in Runs : run[r] = Resting
  /\ \A w \in Writers : saving[w] = None
  /\ foreign' = types
  /\ UNCHANGED <<refs, media, mirror, marker, run, server, saving, interrupts>>

\* The migration: an empty mirror, and a marker that is ready when there was
\* no document to mirror.
Init ==
  /\ refs \in [Docs -> SUBSET Media]
  /\ media \in SUBSET Media
  /\ foreign \in SUBSET Docs
  /\ mirror = {}
  /\ marker = IF foreign = {} /\ ReferencesOf(refs) = {} THEN "ready" ELSE "pending"
  /\ run = [r \in Runs |-> Resting]
  /\ server = [s \in Servers |-> "down"]
  /\ saving = [w \in Writers |-> None]
  /\ interrupts = 0

Reconcile(r) ==
  \/ LockMarker(r) \/ LockTable(r) \/ ReadDocuments(r) \/ Diagnose(r)
  \/ Compare(r) \/ WriteRows(r) \/ SettleRun(r)

Save(w) == (\E d \in Docs, names \in SUBSET Media : BeginSave(w, d, names)) \/ CommitSave(w)

Next ==
  \/ \E r \in Runs : Reconcile(r) \/ Interrupt(r)
  \/ \E s \in Servers : Boot(s) \/ Stop(s)
  \/ \E w \in Writers : Save(w)
  \/ \E m \in Media : DeleteMedia(m)
  \/ \E d \in Docs : Repair(d)
  \/ \E types \in SUBSET Docs : Deploy(types)

\* Postgres queues lock requests, so that LOCK TABLE gets its turn among saves.
\* The operator runs the command again, after the repairs it asked for, and in
\* the end with one build.
Fairness ==
  /\ \A r \in Runs : WF_vars(Reconcile(r)) /\ SF_vars(LockTable(r))
  /\ \A d \in Docs : SF_vars(Repair(d))
  /\ \A w \in Writers : WF_vars(CommitSave(w))
  /\ <>[](foreign = {})

FairSpec == Init /\ [][Next]_vars /\ Fairness

-----------------------------------------------------------------------------
\* Types; and the documents a reconciliation reads stay as they are until it
\* ends: no save is under way beside one that holds the table.
ReconciliationTypeOK ==
  /\ refs \in [Docs -> SUBSET Media]
  /\ foreign \subseteq Docs /\ media \subseteq Media
  /\ mirror \subseteq Docs \X Media
  /\ marker \in {"pending", "ready"}
  /\ run \in [Runs -> [phase : {"resting", "locking", "reading", "checking", "comparing",
                                "writing", "settling"},
                       wanted : SUBSET (Docs \X Media), stale : SUBSET (Docs \X Media),
                       fresh : SUBSET (Docs \X Media)]]
  /\ server \in [Servers -> {"up", "down"}]
  /\ \A w \in Writers : saving[w] = None
                          \/ saving[w] \in [doc : Docs, names : SUBSET Media]
  /\ interrupts \in 0..MaxInterrupts
  /\ TableLocked => \A w \in Writers : saving[w] = None

\* While the marker says ready the mirror is what the documents say, each one
\* and whatever was saved or deleted while a reconciliation ran.
ReadyMeansMirrored == marker = "ready" => mirror = ReferencesOf(refs)

\* A server that runs enforces: no asset a document names is missing, and none
\* can be deleted.
ServedMeansEnforced ==
  Serving => ReferencesOf(refs) \subseteq mirror /\ NamedBy(ReferencesOf(refs)) \subseteq media

\* An installation that is repaired when it is told to be ends up ready, again
\* and again.
ReadyInTheEnd == []<>(marker = "ready")

\* The mirror is what its marker says it is, and a server that trusts the marker enforces
\* by it (reconcileMediaReferences, buildApp).
MirrorHolds == ReconciliationTypeOK /\ ReadyMeansMirrored /\ ServedMeansEnforced
=============================================================================
