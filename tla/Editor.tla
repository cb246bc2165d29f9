------------------------------- MODULE Editor -------------------------------
(***************************************************************************)
(* The document editor in one browser tab: the draft, the query cache it   *)
(* was seeded from, the writes it sends and the page it lives on, against  *)
(* the document's row, which colleagues write too.                         *)
(*                                                                         *)
(* The network, the query cache's library and the router are external.     *)
(* What a document says is the set of changes it contains.                 *)
(***************************************************************************)
EXTENDS Naturals, FiniteSets

CONSTANTS
  Edits,         \* the changes the author may make
  Image,         \* the block an upload adds
  Others,        \* the changes colleagues make
  MaxVersion,    \* bound: how often the document is written
  MaxSends,      \* bound: how many writes the tab sends
  Keep,          \* how many revisions of a document are kept
  None

ASSUME EditorAssumption ==
  MaxVersion \in Nat \ {0} /\ MaxSends \in Nat /\ Keep \in Nat \ {0}

VARIABLES
  row,           \* the document as stored: its version, 0 before it exists, and its text
  revisions,     \* the states it superseded, by version
  cache,         \* the document query: its data, whether it failed, and its fetch
  page,          \* the screen
  save, restore, \* the two mutations
  wire,          \* the writes sent, with the server's answers
  upload,        \* the picker, and the draft an upload under way was started with
  panel          \* the revision history

editorVars == <<row, revisions, cache, page, save, restore, wire, upload, panel>>

Texts == SUBSET (Edits \union Others \union {Image})
Rows  == [version : 0..MaxVersion, text : Texts]

-----------------------------------------------------------------------------
(* What the screen shows.                                                  *)

NoRow == [version |-> 0, text |-> {}]

FreshPage(at) ==
  [at |-> at, draft |-> None, seed |-> {}, dirty |-> FALSE, blocked |-> FALSE, leave |-> FALSE]
Idle     == [status |-> "idle", attempt |-> 0, submitted |-> {}]
NoUpload == [open |-> FALSE, pending |-> FALSE, closure |-> {}]
NoPanel  == [open |-> FALSE, selected |-> 0, detail |-> "none", confirming |-> FALSE,
             attempted |-> 0, restored |-> 0]

Pending  == save.status = "pending" \/ restore.status = "pending"
Rendered == /\ page.draft # None
            /\ \/ page.at = "new"
               \/ page.at = "edit" /\ cache.data # None /\ ~cache.failed
Enabled  == Rendered /\ ~Pending

\* A native dialog is modal: nothing behind it can be reached.
InFront == CASE page.blocked -> "leaving"
             [] panel.open   -> "history"
             [] upload.open  -> "picker"
             [] OTHER        -> "editor"

SavedShown == Rendered /\ save.status = "success" /\ ~page.dirty

\* The text a page starts from is its seed until one of its own writes is answered.
Seed(p, data) == [p EXCEPT !.draft = data.text, !.seed = data.text]

\* Loaded once: an unseeded draft takes the first data there is.
Seeded(p, data) ==
  IF p.at = "edit" /\ p.draft = None /\ data # None THEN Seed(p, data) ELSE p

\* Leaving unmounts the screen; what it asked for goes on without it.
Left == /\ page' = FreshPage("left")
        /\ save' = Idle /\ restore' = Idle /\ upload' = NoUpload /\ panel' = NoPanel

-----------------------------------------------------------------------------
(* Typing, and the picker.                                                 *)

Patch(draft) == page' = [page EXCEPT !.draft = draft, !.dirty = TRUE]

Type(e) ==
  /\ Enabled /\ InFront = "editor" /\ e \notin page.draft
  /\ Patch(page.draft \union {e})
  /\ UNCHANGED <<row, revisions, cache, save, restore, wire, upload, panel>>

\* A pending upload goes on while the picker is closed.
OpenOrClosePicker ==
  /\ \/ Enabled /\ InFront = "editor"
     \/ Rendered /\ InFront = "picker"
  /\ upload' = [upload EXCEPT !.open = ~@]
  /\ UNCHANGED <<row, revisions, cache, page, save, restore, wire, panel>>

\* The callback is the one of the render in which the file was chosen, and so is
\* the draft it adds the image to.
ChooseFile ==
  /\ Enabled /\ InFront = "picker" /\ ~upload.pending
  /\ upload' = [upload EXCEPT !.pending = TRUE, !.closure = page.draft]
  /\ UNCHANGED <<row, revisions, cache, page, save, restore, wire, panel>>

UploadLands ==
  /\ upload.pending
  /\ Patch(upload.closure \union {Image})
  /\ upload' = NoUpload
  /\ UNCHANGED <<row, revisions, cache, save, restore, wire, panel>>

UploadFails ==
  /\ upload.pending
  /\ upload' = [NoUpload EXCEPT !.open = upload.open]
  /\ UNCHANGED <<row, revisions, cache, page, save, restore, wire, panel>>

-----------------------------------------------------------------------------
(* Writing.                                                                *)

Attempt == Cardinality(wire) + 1

Unsent == [n |-> 0, kind |-> "update", expected |-> 0, text |-> {}, revision |-> 0,
           answer |-> "none", got |-> NoRow, heard |-> FALSE]

SendWrite(kind, expected, text, revision) ==
  /\ Attempt <= MaxSends
  /\ wire' = wire \union {[Unsent EXCEPT !.n = Attempt, !.kind = kind, !.expected = expected,
                            !.text = text, !.revision = revision]}

\* onSave; an edit states the version the query holds by now.
OnSave ==
  /\ save' = [status |-> "pending", attempt |-> Attempt, submitted |-> page.draft]
  /\ IF page.at = "new" THEN SendWrite("create", 0, page.draft, 0)
                        ELSE SendWrite("update", cache.data.version, page.draft, 0)

Save ==
  /\ Enabled /\ InFront = "editor"
  /\ OnSave
  /\ UNCHANGED <<row, revisions, cache, page, restore, upload, panel>>

\* A write that was both answered and heard of matters no longer.
Becomes(w, later) ==
  wire' = (wire \ {w}) \union
            {IF later.heard /\ later.answer # "none"
               THEN [Unsent EXCEPT !.n = w.n, !.answer = later.answer, !.heard = TRUE] ELSE later}

Heard(w) == Becomes(w, [w EXCEPT !.heard = TRUE])

\* The hook's own success: the cache takes the answer, and the document's query
\* is fetched anew where a screen shows it.
CacheTakes(got) ==
  cache' = [cache EXCEPT !.data = got, !.failed = FALSE,
                         !.fetch = IF page.at = "edit" THEN "asked" ELSE @,
                         !.read = IF page.at = "edit" THEN NoRow ELSE @]

\* The page's part of it: only the submitted snapshot is saved.  A creation moves
\* to the new document's own screen; "save and leave" leaves.
Saved(got) ==
  CASE page.draft # save.submitted ->
         /\ save' = [save EXCEPT !.status = "success"]
         /\ UNCHANGED <<page, restore, upload, panel>>
    [] page.draft = save.submitted /\ page.at = "new" ->
         /\ page' = Seed(FreshPage("edit"), got)
         /\ save' = Idle /\ restore' = Idle /\ upload' = NoUpload /\ panel' = NoPanel
    [] page.draft = save.submitted /\ page.at = "edit" /\ page.leave -> Left
    [] OTHER ->
         /\ page' = [page EXCEPT !.dirty = FALSE, !.seed = got.text]
         /\ save' = [save EXCEPT !.status = "success"]
         /\ UNCHANGED <<restore, upload, panel>>

SaveAnswered(w) ==
  /\ ~w.heard /\ w.kind # "restore" /\ w.answer # "none"
  /\ Heard(w)
  /\ IF w.answer = "ok" THEN CacheTakes(w.got) ELSE UNCHANGED cache
  /\ IF w.n = save.attempt
       THEN IF w.answer = "ok"
              THEN Saved(w.got)
              ELSE /\ save' = [save EXCEPT !.status = "error"]
                   /\ UNCHANGED <<page, restore, upload, panel>>
       ELSE UNCHANGED <<page, save, restore, upload, panel>>
  /\ UNCHANGED <<row, revisions>>

-----------------------------------------------------------------------------
(* The history.                                                            *)

OpenPanel ==
  /\ Enabled /\ page.at = "edit" /\ InFront = "editor"
  /\ panel' = [panel EXCEPT !.open = TRUE]
  /\ UNCHANGED <<row, revisions, cache, page, save, restore, wire, upload>>

Settled == restore.status \in {"success", "error"}

ClosePanel ==
  /\ Rendered /\ InFront = "history" /\ ~Pending
  /\ panel' = [panel EXCEPT !.open = FALSE, !.confirming = FALSE, !.restored = 0]
  /\ restore' = IF Settled THEN Idle ELSE restore
  /\ UNCHANGED <<row, revisions, cache, page, save, wire, upload>>

\* Mutant: choosing another revision keeps the outcome of the last one.
ChosenPlainly(v) == /\ panel' = [panel EXCEPT !.selected = v, !.detail = "loading"]
                    /\ UNCHANGED restore

Chosen(v) ==
  IF v = panel.selected
    THEN UNCHANGED <<panel, restore>>
    ELSE /\ panel' = [panel EXCEPT !.selected = v, !.detail = "loading", !.restored = 0]
         /\ restore' = IF Settled THEN Idle ELSE restore

\* The question takes the place of the list only while there is a revision to ask
\* about: one that is gone gives the list back, and the next is asked about at once.
Choose(v) ==
  /\ Enabled /\ InFront = "history" /\ ~(panel.confirming /\ panel.detail = "shown")
  /\ Chosen(v)
  /\ UNCHANGED <<row, revisions, cache, page, save, wire, upload>>

Known(v) == \E r \in revisions : r.version = v

\* The detail is fetched, and fetched again when the history moves on; a revision
\* that is gone is no longer selected.
DetailAnswered ==
  /\ Rendered /\ panel.open /\ panel.selected # 0
  /\ panel' = IF Known(panel.selected)
                THEN [panel EXCEPT !.detail = "shown"]
                ELSE [panel EXCEPT !.detail = "none", !.selected = 0]
  /\ UNCHANGED <<row, revisions, cache, page, save, restore, wire, upload>>

Confirm ==
  /\ Enabled /\ InFront = "history" /\ panel.detail = "shown"
  /\ panel' = [panel EXCEPT !.confirming = ~@]
  /\ UNCHANGED <<row, revisions, cache, page, save, restore, wire, upload>>

RestoreNow ==
  /\ Enabled /\ InFront = "history" /\ panel.confirming /\ panel.detail = "shown"
  /\ panel' = [panel EXCEPT !.attempted = panel.selected]
  /\ restore' = [status |-> "pending", attempt |-> Attempt, submitted |-> {}]
  /\ SendWrite("restore", cache.data.version, {}, panel.selected)
  /\ UNCHANGED <<row, revisions, cache, page, save, upload>>

\* A restore that lands seeds the draft anew.
Restored(w) ==
  /\ page' = [Seed(page, w.got) EXCEPT !.dirty = FALSE]
  /\ panel' = [panel EXCEPT !.confirming = FALSE, !.restored = panel.attempted]
  /\ restore' = [restore EXCEPT !.status = "success"]

RestoreRefused(reason) ==
  /\ panel' = IF reason = "gone"
                THEN [panel EXCEPT !.confirming = FALSE, !.selected = 0, !.detail = "none"]
                ELSE [panel EXCEPT !.confirming = FALSE]
  /\ restore' = [restore EXCEPT !.status = "error"]
  /\ UNCHANGED page

RestoreAnswered(w) ==
  /\ ~w.heard /\ w.kind = "restore" /\ w.answer # "none"
  /\ Heard(w)
  /\ IF w.answer = "ok" THEN CacheTakes(w.got) ELSE UNCHANGED cache
  /\ IF w.n = restore.attempt
       THEN IF w.answer = "ok" THEN Restored(w) ELSE RestoreRefused(w.answer)
       ELSE UNCHANGED <<page, panel, restore>>
  /\ UNCHANGED <<row, revisions, save, upload>>

-----------------------------------------------------------------------------
(* Deadlines.                                                              *)

\* Mutant: a fetch has no deadline of its own.
DeadlinePassesOnceAnswered(w) == ~w.heard /\ w.answer # "none"

DeadlinePasses(w) == ~w.heard

\* Nothing was heard in time, whatever became of the write.
TimeOut(w) ==
  /\ DeadlinePasses(w)
  /\ Heard(w)
  /\ IF w.n = save.attempt
       THEN save' = [save EXCEPT !.status = "error"] /\ UNCHANGED <<page, panel, restore>>
       ELSE IF w.n = restore.attempt
              THEN RestoreRefused("timeout") /\ UNCHANGED save
              ELSE UNCHANGED <<page, panel, save, restore>>
  /\ UNCHANGED <<row, revisions, cache, upload>>

-----------------------------------------------------------------------------
(* The document's query.                                                   *)

\* It is fetched again when the connection comes back.
Refetch ==
  /\ page.at = "edit" /\ cache.fetch = "idle"
  /\ cache' = [cache EXCEPT !.fetch = "asked"]
  /\ UNCHANGED <<row, revisions, page, save, restore, wire, upload, panel>>

FetchRead ==
  /\ cache.fetch = "asked"
  /\ cache' = [cache EXCEPT !.fetch = "read", !.read = row]
  /\ UNCHANGED <<row, revisions, page, save, restore, wire, upload, panel>>

FetchAnswered ==
  /\ cache.fetch = "read"
  /\ cache' = [cache EXCEPT !.data = cache.read, !.failed = FALSE, !.fetch = "idle",
                         !.read = NoRow]
  /\ page' = Seeded(page, cache.read)
  /\ UNCHANGED <<row, revisions, save, restore, wire, upload, panel>>

\* The retries are used up.  The screen says "not found", and what it was made of
\* is unmounted: the picker with its upload, and the history.
FetchFails ==
  /\ cache.fetch # "idle"
  /\ cache' = [cache EXCEPT !.failed = TRUE, !.fetch = "idle", !.read = NoRow]
  /\ IF page.at = "edit"
       THEN /\ upload' = [NoUpload EXCEPT !.open = upload.open]
            /\ panel' = [NoPanel EXCEPT !.open = panel.open]
       ELSE UNCHANGED <<upload, panel>>
  /\ UNCHANGED <<row, revisions, page, save, restore, wire>>

-----------------------------------------------------------------------------
(* Leaving, and coming back.                                               *)

Navigate ==
  /\ page.at # "left" /\ ~page.blocked
  /\ IF page.dirty
       THEN page' = [page EXCEPT !.blocked = TRUE] /\ UNCHANGED <<save, restore, upload, panel>>
       ELSE Left
  /\ UNCHANGED <<row, revisions, cache, wire>>

\* Staying answers this navigation: a leave put off for it will find nothing to do.
Stay ==
  /\ page.blocked /\ Rendered
  /\ page' = [page EXCEPT !.blocked = FALSE, !.leave = FALSE]
  /\ UNCHANGED <<row, revisions, cache, save, restore, wire, upload, panel>>

Discard ==
  /\ page.blocked /\ Enabled
  /\ Left
  /\ UNCHANGED <<row, revisions, cache, wire>>

SaveThenLeave ==
  /\ page.blocked /\ Enabled
  /\ OnSave
  /\ page' = [page EXCEPT !.leave = TRUE]
  /\ UNCHANGED <<row, revisions, cache, restore, upload, panel>>

\* The cache outlives the screen, and a document in it is shown at once, while it
\* is fetched again.
Open ==
  /\ page.at = "left" /\ row.version > 0
  /\ page' = Seeded(FreshPage("edit"), cache.data)
  /\ cache' = [cache EXCEPT !.failed = @ /\ cache.data # None,
                 !.fetch = IF @ = "idle" THEN "asked" ELSE @]
  /\ UNCHANGED <<row, revisions, save, restore, wire, upload, panel>>

-----------------------------------------------------------------------------
(* The server, and the colleagues.                                         *)

Write(text) ==
  /\ row.version < MaxVersion
  /\ row' = [version |-> row.version + 1, text |-> text]
  /\ revisions' = IF row.version = 0 THEN {}
                  ELSE {r \in revisions \union {row} : r.version > row.version - Keep}

Revision(v) == CHOOSE r \in revisions : r.version = v

\* Mutant: the version is not compared.
AcceptsAnyVersion(w) == w.kind = "restore" => Known(w.revision)

Accepts(w) == row.version = w.expected /\ (w.kind = "restore" => Known(w.revision))

\* A write is carried out whether or not anybody still waits for it.  A restore
\* looks its revision up before anything else.
Serve(w) ==
  /\ w.answer = "none"
  /\ \/ /\ Accepts(w)
        /\ LET text == IF w.kind = "restore" THEN Revision(w.revision).text ELSE w.text
           IN Write(text)
        /\ Becomes(w, [w EXCEPT !.answer = "ok", !.got = row'])
     \/ /\ ~Accepts(w)
        /\ Becomes(w, [w EXCEPT !.answer =
                         IF w.kind = "restore" /\ ~Known(w.revision) THEN "gone" ELSE "stale"])
        /\ UNCHANGED <<row, revisions>>
  /\ UNCHANGED <<cache, page, save, restore, upload, panel>>

Colleague(o) ==
  /\ row.version > 0 /\ o \notin row.text
  /\ Write(row.text \union {o})
  /\ UNCHANGED <<cache, page, save, restore, wire, upload, panel>>

-----------------------------------------------------------------------------

EditorInit ==
  /\ revisions = {} /\ wire = {}
  /\ save = Idle /\ restore = Idle /\ upload = NoUpload /\ panel = NoPanel
  /\ \/ /\ row = NoRow
        /\ page = Seed(FreshPage("new"), row)
        /\ cache = [data |-> None, failed |-> FALSE, fetch |-> "idle", read |-> NoRow]
     \/ /\ row = [version |-> 1, text |-> {}]
        /\ page = FreshPage("edit")
        /\ cache = [data |-> None, failed |-> FALSE, fetch |-> "asked", read |-> NoRow]

EditorNext ==
  \/ \E e \in Edits : Type(e)
  \/ OpenOrClosePicker \/ ChooseFile \/ UploadLands \/ UploadFails
  \/ Save \/ (\E w \in wire : SaveAnswered(w) \/ RestoreAnswered(w) \/ TimeOut(w) \/ Serve(w))
  \/ OpenPanel \/ ClosePanel \/ (\E v \in 1..(row.version - 1) : Choose(v))
  \/ DetailAnswered \/ Confirm \/ RestoreNow
  \/ Refetch \/ FetchRead \/ FetchAnswered \/ FetchFails
  \/ Navigate \/ Stay \/ Discard \/ SaveThenLeave \/ Open
  \/ \E o \in Others : Colleague(o)

\* Deadlines pass.
EditorFairness == \A n \in 1..MaxSends :
  WF_editorVars(\E w \in wire : w.n = n /\ (SaveAnswered(w) \/ RestoreAnswered(w) \/ TimeOut(w)))

-----------------------------------------------------------------------------
(* Properties.                                                             *)

WriteRecords ==
  [n : 0..MaxSends, kind : {"create", "update", "restore"}, expected : 0..MaxVersion,
   text : Texts, revision : 0..MaxVersion, answer : {"none", "ok", "stale", "gone"},
   got : Rows, heard : BOOLEAN]

EditorTypeOK ==
  /\ row \in Rows /\ revisions \subseteq Rows
  /\ cache \in [data : Rows \union {None}, failed : BOOLEAN,
                fetch : {"idle", "asked", "read"}, read : Rows]
  /\ page \in [at : {"new", "edit", "left"}, draft : Texts \union {None}, seed : Texts,
               dirty : BOOLEAN, blocked : BOOLEAN, leave : BOOLEAN]
  /\ page.leave => page.blocked
  /\ {save, restore} \subseteq [status : {"idle", "pending", "success", "error"},
                                attempt : 0..MaxSends, submitted : Texts]
  /\ wire \subseteq WriteRecords
  /\ upload \in [open : BOOLEAN, pending : BOOLEAN, closure : Texts]
  /\ panel \in [open : BOOLEAN, selected : 0..MaxVersion, confirming : BOOLEAN,
                detail : {"none", "loading", "shown"}, attempted : 0..MaxVersion,
                restored : 0..MaxVersion]

\* "Saved" is never on the screen over a draft that is not what the server last
\* answered it had stored, whatever changed the draft while the save was under
\* way (content-editor.tsx, onSave's onSuccess).
SavedIsTrue == SavedShown => page.draft = page.seed

\* The screen is left without asking only when its draft is what it was seeded
\* with or what the server has accepted; "save and leave" included.
NothingLeftBehind ==
  [][page.at # "left" /\ page'.at = "left" /\ ~Discard
       => \/ page.draft \in {None, page.seed}
          \/ \E w \in wire : w.kind # "restore" /\ w.answer = "ok" /\ page.draft = w.got.text]_editorVars

\* What the history says of a restore stands under the revision it was attempted
\* on, whatever was chosen, closed or pruned in between.
OutcomeBelongs ==
  Rendered /\ panel.open /\ panel.selected # 0 =>
    /\ panel.detail = "shown" /\ panel.restored # 0 /\ restore.status = "success"
         => panel.restored = panel.selected
    /\ restore.status = "error" => panel.attempted = panel.selected

\* While the screen is there, what was typed goes from it in two ways only: a restore
\* that was confirmed replaces the draft, and an upload that lands puts back the draft
\* it began with, and with it drops what was typed meanwhile (content-editor.tsx:389).
\* No save, refetch, creation or late answer takes a word of it.
TypedStays ==
  [][page.at # "left" /\ page.draft # None /\ page'.draft # None
       /\ ~(page.draft \subseteq page'.draft)
       => \/ UploadLands
          \/ \E w \in wire : RestoreAnswered(w) /\ w.answer = "ok"]_editorVars

\* A write whose answer never came cannot land on top of one sent after it.
LateWritesLose ==
  [][\A w, later \in wire :
       later.n > w.n /\ later.answer = "ok" /\ w.answer = "none" => ~(Serve(w) /\ Accepts(w))]_editorVars

\* The fields are never frozen for good: every write is answered, or its deadline
\* passes.
WritesSettle == []<>~Pending

\* A save that replaces the document loses no change its author never saw.
NothingUnseenReplaced ==
  [][\A w \in wire : w.kind = "update" /\ Serve(w)
       => row.text \cap Others \subseteq row'.text]_editorVars

\* What the screen says of a save or a restore is so, and is said of that one
\* (content-editor.tsx onSave, revision-history.tsx).
OutcomesHold == EditorTypeOK /\ SavedIsTrue /\ OutcomeBelongs

\* A screen with something typed on it is not left unasked, nothing but a restore and an
\* upload's end takes typed text off it, and what was stored is not undone by a write
\* that arrives late (content-editor.tsx, api.ts).
WorkIsKept == NothingLeftBehind /\ TypedStays /\ LateWritesLose
=============================================================================
