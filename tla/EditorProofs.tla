----------------------------- MODULE EditorProofs -----------------------------
(***************************************************************************)
(* What Editor keeps true, for any changes, versions and writes, and what  *)
(* Blocks does, for any texts, marks and identities.                       *)
(***************************************************************************)
EXTENDS Editor, Blocks, FiniteSetTheorems, FunctionTheorems, SequenceTheorems,
        NaturalsInduction, WellFoundedInduction, TLAPS

-----------------------------------------------------------------------------
(* The writes under way are numbered in the order they were sent.          *)

Numbered(W) ==
  /\ IsFiniteSet(W) /\ Cardinality(W) \in 0..MaxSends
  /\ \A w \in W : w.n \in 1..Cardinality(W)
  /\ \A v, w \in W : v.n = w.n => v = w

LEMMA SendingNumbers ==
  ASSUME NEW W, Numbered(W), NEW w, w.n = Cardinality(W) + 1, w.n <= MaxSends
  PROVE  /\ Numbered(W \cup {w}) /\ Cardinality(W \cup {w}) = Cardinality(W) + 1
         /\ \A v \in W : v.n # w.n
<1>1. MaxSends \in Nat BY EditorAssumption
<1>2. PICK c : c = Cardinality(W) OBVIOUS
<1>3. c \in 0..MaxSends /\ IsFiniteSet(W) BY <1>2 DEF Numbered
<1>4. \A v \in W : v.n \in 1..c BY <1>2 DEF Numbered
<1>5. \A v \in W : v.n # w.n BY <1>1, <1>2, <1>3, <1>4
<1>6. w \notin W BY <1>5
<1>7. Cardinality(W \cup {w}) = c + 1 /\ IsFiniteSet(W \cup {w})
  BY <1>2, <1>3, <1>6, FS_AddElement
<1>8. c + 1 \in 0..MaxSends /\ c + 1 \in 1..c + 1 /\ 1..c \subseteq 1..c + 1
  BY <1>1, <1>2, <1>3
<1>9. \A v \in W \cup {w} : v.n \in 1..c + 1 BY <1>2, <1>4, <1>8
<1>10. \A u, v \in W \cup {w} : u.n = v.n => u = v BY <1>5 DEF Numbered
<1> QED BY <1>2, <1>5, <1>7, <1>8, <1>9, <1>10 DEF Numbered

LEMMA AnsweringNumbers ==
  ASSUME NEW W, Numbered(W), NEW w \in W, NEW v, v.n = w.n
  PROVE  /\ Numbered((W \ {w}) \cup {v}) /\ Cardinality((W \ {w}) \cup {v}) = Cardinality(W)
<1>1. MaxSends \in Nat BY EditorAssumption
<1>2. PICK c : c = Cardinality(W) OBVIOUS
<1>3. PICK U : U = W \ {w} OBVIOUS
<1>4. c \in Nat /\ IsFiniteSet(W) BY <1>1, <1>2 DEF Numbered
<1>5. IsFiniteSet(U) /\ Cardinality(U) = c - 1 BY <1>2, <1>3, <1>4, FS_RemoveElement
<1>6. \A u \in U : u.n # v.n BY <1>3 DEF Numbered
<1>7. v \notin U BY <1>6
<1>8. IsFiniteSet(U \cup {v}) /\ Cardinality(U \cup {v}) = (c - 1) + 1
  BY <1>5, <1>7, FS_AddElement
<1>9. Cardinality(U \cup {v}) = c BY <1>4, <1>8
<1>10. \A u \in U \cup {v} : u.n \in 1..c BY <1>2, <1>3 DEF Numbered
<1>11. \A x, y \in U \cup {v} : x.n = y.n => x = y BY <1>3, <1>6 DEF Numbered
<1>12. Numbered(U \cup {v}) BY <1>2, <1>8, <1>9, <1>10, <1>11 DEF Numbered
<1> QED BY <1>2, <1>3, <1>9, <1>12

-----------------------------------------------------------------------------
(* The inductive invariant.                                                *)

\* A mutation knows its own write by its number.
Attempts ==
  /\ Numbered(wire)
  /\ save.attempt \in 0..Cardinality(wire) /\ restore.attempt \in 0..Cardinality(wire)

\* What a save that is still waited for will be told is what it submitted.
Submitted ==
  /\ \A w \in wire : w.n = save.attempt /\ ~w.heard => w.text = save.submitted
  /\ \A w \in wire : w.kind # "restore" /\ w.answer = "ok" /\ ~w.heard => w.got.text = w.text

\* No write expects a version the document has yet to reach, and one that was
\* overtaken expects one it has left behind.
Versions ==
  /\ cache.data # None => cache.data.version <= row.version
  /\ cache.read.version <= row.version
  /\ \A w \in wire : w.expected <= row.version /\ w.got.version <= row.version
  /\ \A w, later \in wire :
       later.n > w.n /\ later.answer = "ok" /\ w.answer = "none" => w.expected < row.version

\* A draft that is not dirty is the one it was seeded with.
CleanDraft == ~page.dirty => page.draft \in {None, page.seed}

\* A restore that is under way or over is of the revision that is selected.
Outcomes ==
  /\ panel.open => page.at = "edit"
  /\ restore.status \in {"pending", "error"} => panel.selected \in {0, panel.attempted}
  /\ restore.status = "success" /\ panel.restored # 0 => panel.selected \in {0, panel.restored}
  /\ \A w \in wire : w.n = restore.attempt /\ ~w.heard => restore.status = "pending"

EditorInv == EditorTypeOK /\ Attempts /\ Submitted /\ Versions /\ CleanDraft /\ Outcomes

LEMMA EmptyPartsTyped ==
  /\ {} \in Texts /\ NoRow \in Rows /\ 0 \in 0..MaxVersion
  /\ Idle \in [status : {"idle", "pending", "success", "error"},
               attempt : 0..MaxSends, submitted : Texts]
  /\ NoUpload \in [open : BOOLEAN, pending : BOOLEAN, closure : Texts]
  /\ NoPanel \in [open : BOOLEAN, selected : 0..MaxVersion, confirming : BOOLEAN,
                  detail : {"none", "loading", "shown"}, attempted : 0..MaxVersion,
                  restored : 0..MaxVersion]
  /\ \A at \in {"new", "edit", "left"} :
       FreshPage(at) \in [at : {"new", "edit", "left"}, draft : Texts \union {None}, seed : Texts,
                          dirty : BOOLEAN, blocked : BOOLEAN, leave : BOOLEAN]
BY EditorAssumption DEF Texts, NoRow, Rows, Idle, NoUpload, NoPanel, FreshPage

LEMMA EditorStarts == EditorInit => EditorInv
<1> SUFFICES ASSUME EditorInit PROVE EditorInv
  OBVIOUS
<1>1. MaxVersion \in Nat \ {0} /\ MaxSends \in Nat BY EditorAssumption
<1>2. {} \in Texts /\ NoRow \in Rows /\ [version |-> 1, text |-> {}] \in Rows
  BY <1>1 DEF Texts, NoRow, Rows
<1>3. /\ revisions = {} /\ wire = {} /\ save = Idle /\ restore = Idle /\ upload = NoUpload
      /\ panel = NoPanel
  BY DEF EditorInit
<1>4. /\ cache \in [data : {None}, failed : BOOLEAN, fetch : {"idle", "asked"}, read : {NoRow}]
      /\ row \in {NoRow, [version |-> 1, text |-> {}]}
  <2>1. cache = [data |-> None, failed |-> FALSE, fetch |-> "idle", read |-> NoRow]
        \/ cache = [data |-> None, failed |-> FALSE, fetch |-> "asked", read |-> NoRow]
    BY DEF EditorInit
  <2>2. cache \in [data : {None}, failed : BOOLEAN, fetch : {"idle", "asked"}, read : {NoRow}]
    <3>1. ASSUME NEW f \in {"idle", "asked"},
                 cache = [data |-> None, failed |-> FALSE, fetch |-> f, read |-> NoRow]
          PROVE  cache \in [data : {None}, failed : BOOLEAN, fetch : {"idle", "asked"},
                             read : {NoRow}]
      BY <3>1
    <3> QED BY <2>1, <3>1
  <2>3. row = NoRow \/ row = [version |-> 1, text |-> {}] BY DEF EditorInit
  <2> QED BY <2>2, <2>3
<1>5. /\ page.dirty = FALSE /\ page.draft \in {None, page.seed} /\ page.leave = FALSE
      /\ page.at \in {"new", "edit"} /\ page.seed = {} /\ page.blocked = FALSE
      /\ page \in [at : {"new", "edit", "left"}, draft : Texts \union {None}, seed : Texts,
                   dirty : BOOLEAN, blocked : BOOLEAN, leave : BOOLEAN]
  <2>1. CASE page = FreshPage("edit") BY <2>1, EmptyPartsTyped DEF FreshPage
  <2>2. CASE page = Seed(FreshPage("new"), NoRow)
    <3>1. page = [at |-> "new", draft |-> {}, seed |-> {}, dirty |-> FALSE, blocked |-> FALSE,
                  leave |-> FALSE]
      BY <2>2 DEF Seed, FreshPage, NoRow
    <3> QED BY <3>1, EmptyPartsTyped
  <2> QED BY <2>1, <2>2 DEF EditorInit
<1>6. EditorTypeOK
  <2>1. cache \in [data : Rows \union {None}, failed : BOOLEAN,
                   fetch : {"idle", "asked", "read"}, read : Rows]
    BY <1>2, <1>4
  <2>2. row \in Rows BY <1>2, <1>4
  <2> QED BY <1>3, <1>5, <2>1, <2>2, EmptyPartsTyped DEF EditorTypeOK
<1>7. Attempts
  <2>1. IsFiniteSet({}) /\ Cardinality({}) = 0 BY FS_EmptySet
  <2> QED BY <1>1, <1>3, <2>1 DEF Attempts, Numbered, Idle
<1>8. Versions
  <2>1. row.version \in {0, 1} /\ cache.data = None /\ cache.read.version = 0
    BY <1>4 DEF NoRow
  <2> QED BY <1>3, <2>1 DEF Versions
<1> QED BY <1>3, <1>5, <1>6, <1>7, <1>8 DEF EditorInv, Submitted, CleanDraft, Outcomes, Idle, NoPanel

-----------------------------------------------------------------------------
(* Steps that send, answer and store nothing.                              *)

\* A mutation that is left as it was or reset asks for nothing new.
LEMMA QuietKeepsTheWire ==
  ASSUME EditorInv, UNCHANGED <<row, wire>>,
         save' \in {save, Idle}, restore' \in {restore, Idle},
         cache'.data \in {cache.data, cache.read}, cache'.read \in {cache.read, row, NoRow}
  PROVE  Attempts' /\ Submitted' /\ Versions'
         /\ \A w \in wire : w.n = restore'.attempt /\ ~w.heard => restore'.status = "pending"
<1>1. \A w \in wire : w.n # 0 BY DEF EditorInv, Attempts, Numbered
<1>2. Cardinality(wire) \in Nat BY EditorAssumption DEF EditorInv, Attempts, Numbered
<1>3. Attempts' BY <1>2 DEF EditorInv, Attempts, Idle
<1>4. Submitted' BY <1>1 DEF EditorInv, Submitted, Idle
<1>5. row.version \in Nat BY EditorAssumption DEF EditorInv, EditorTypeOK, Rows
<1>6. NoRow.version <= row.version /\ row.version <= row.version BY <1>5 DEF NoRow
<1>7. Versions' BY <1>6 DEF EditorInv, Versions
<1> QED BY <1>1, <1>3, <1>4, <1>7 DEF EditorInv, Outcomes, Idle

\* What the parts are, for the steps below.
LEMMA PartsTyped ==
  ASSUME EditorInv
  PROVE  /\ row \in Rows /\ revisions \subseteq Rows
         /\ cache \in [data : Rows \union {None}, failed : BOOLEAN,
                       fetch : {"idle", "asked", "read"}, read : Rows]
         /\ page \in [at : {"new", "edit", "left"}, draft : Texts \union {None}, seed : Texts,
                      dirty : BOOLEAN, blocked : BOOLEAN, leave : BOOLEAN]
         /\ page.leave => page.blocked
         /\ save \in [status : {"idle", "pending", "success", "error"},
                      attempt : 0..MaxSends, submitted : Texts]
         /\ restore \in [status : {"idle", "pending", "success", "error"},
                         attempt : 0..MaxSends, submitted : Texts]
         /\ wire \subseteq WriteRecords
         /\ upload \in [open : BOOLEAN, pending : BOOLEAN, closure : Texts]
         /\ panel \in [open : BOOLEAN, selected : 0..MaxVersion, confirming : BOOLEAN,
                       detail : {"none", "loading", "shown"}, attempted : 0..MaxVersion,
                       restored : 0..MaxVersion]
BY DEF EditorInv, EditorTypeOK

\* Typing and the picker.
LEMMA TypingKeeps ==
  ASSUME EditorInv,
         (\E e \in Edits : Type(e)) \/ OpenOrClosePicker \/ ChooseFile \/ UploadLands \/ UploadFails
  PROVE  EditorInv'
<1>1. UNCHANGED <<row, revisions, cache, save, restore, wire, panel>>
  BY DEF Type, OpenOrClosePicker, ChooseFile, UploadLands, UploadFails
<1>2. Attempts' /\ Submitted' /\ Versions'
      /\ \A w \in wire : w.n = restore'.attempt /\ ~w.heard => restore'.status = "pending"
  BY <1>1, QuietKeepsTheWire
<1>3. page' = page \/ \E text \in Texts : page' = [page EXCEPT !.draft = text, !.dirty = TRUE]
  <2>1. ASSUME NEW e \in Edits, Type(e) PROVE \E text \in Texts : Patch(text)
    BY <2>1, PartsTyped DEF Type, Enabled, Rendered, Texts
  <2>2. CASE UploadLands
    <3>1. upload.closure \union {Image} \in Texts BY PartsTyped DEF Texts
    <3> QED BY <2>2, <3>1 DEF UploadLands, Patch
  <2> QED BY <2>1, <2>2 DEF Patch, OpenOrClosePicker, ChooseFile, UploadFails
<1>4. upload' \in [open : BOOLEAN, pending : BOOLEAN, closure : Texts]
  <2>1. ASSUME NEW e \in Edits, Type(e) PROVE upload' = upload BY <2>1 DEF Type
  <2>2. CASE ChooseFile BY <2>2, PartsTyped DEF ChooseFile, Enabled, Rendered
  <2>3. CASE OpenOrClosePicker BY <2>3, PartsTyped DEF OpenOrClosePicker
  <2>4. CASE UploadLands BY <2>4, EmptyPartsTyped DEF UploadLands
  <2>5. CASE UploadFails BY <2>5, PartsTyped, EmptyPartsTyped DEF UploadFails, NoUpload
  <2> QED BY <2>1, <2>2, <2>3, <2>4, <2>5, PartsTyped
<1>5. page' \in [at : {"new", "edit", "left"}, draft : Texts \union {None}, seed : Texts,
                 dirty : BOOLEAN, blocked : BOOLEAN, leave : BOOLEAN]
      /\ (page'.leave => page'.blocked) /\ page'.at = page.at
      /\ (~page'.dirty => page' = page)
  BY ZenonT(60), <1>3, PartsTyped
<1>6. EditorTypeOK' BY <1>1, <1>4, <1>5 DEF EditorInv, EditorTypeOK
<1>7. CleanDraft' BY <1>5 DEF EditorInv, CleanDraft
<1>8. Outcomes' BY <1>1, <1>2, <1>5 DEF EditorInv, Outcomes
<1> QED BY <1>2, <1>6, <1>7, <1>8 DEF EditorInv

\* The history, but for the restore itself.
LEMMA HistoryKeeps ==
  ASSUME EditorInv,
         OpenPanel \/ ClosePanel \/ (\E v \in 1..(row.version - 1) : Choose(v))
         \/ DetailAnswered \/ Confirm
  PROVE  EditorInv'
<1>1. UNCHANGED <<row, revisions, cache, page, save, wire, upload>>
  BY DEF OpenPanel, ClosePanel, Choose, DetailAnswered, Confirm
<1>2. restore' \in {restore, Idle}
  BY DEF OpenPanel, ClosePanel, Choose, Chosen, DetailAnswered, Confirm
<1>3. Attempts' /\ Submitted' /\ Versions'
      /\ \A w \in wire : w.n = restore'.attempt /\ ~w.heard => restore'.status = "pending"
  BY <1>1, <1>2, QuietKeepsTheWire
<1>4. row.version \in 0..MaxVersion BY PartsTyped DEF Rows
<1>5. panel' \in [open : BOOLEAN, selected : 0..MaxVersion, confirming : BOOLEAN,
                  detail : {"none", "loading", "shown"}, attempted : 0..MaxVersion,
                  restored : 0..MaxVersion]
  <2>1. CASE OpenPanel BY <2>1, PartsTyped DEF OpenPanel
  <2>2. CASE ClosePanel BY <2>2, PartsTyped, EmptyPartsTyped DEF ClosePanel
  <2>3. ASSUME NEW v \in 1..(row.version - 1), Choose(v)
        PROVE  panel' \in [open : BOOLEAN, selected : 0..MaxVersion, confirming : BOOLEAN,
                  detail : {"none", "loading", "shown"}, attempted : 0..MaxVersion,
                  restored : 0..MaxVersion]
    <3>1. v \in 0..MaxVersion /\ 0 \in 0..MaxVersion BY <1>4, <2>3, EditorAssumption
    <3> QED BY ZenonT(60), <2>3, <3>1, PartsTyped DEF Choose, Chosen
  <2>4. CASE DetailAnswered BY <2>4, PartsTyped, EmptyPartsTyped DEF DetailAnswered
  <2>5. CASE Confirm BY <2>5, PartsTyped DEF Confirm
  <2> QED BY <2>1, <2>2, <2>3, <2>4, <2>5
<1>6. EditorTypeOK'
  BY <1>1, <1>2, <1>5, EmptyPartsTyped DEF EditorInv, EditorTypeOK
<1>7. /\ panel'.open => page'.at = "edit"
      /\ restore'.status \in {"pending", "error"} => panel'.selected \in {0, panel'.attempted}
      /\ restore'.status = "success" /\ panel'.restored # 0 => panel'.selected \in {0, panel'.restored}
  <2>1. CASE OpenPanel BY <1>1, <2>1, PartsTyped DEF OpenPanel, EditorInv, Outcomes
  <2>2. CASE ClosePanel
    <3>1. restore.status \in {"idle", "success", "error"}
      BY <2>2, PartsTyped DEF ClosePanel, Pending
    <3>2. restore'.status = "idle"
      <4>1. CASE Settled BY <2>2, <4>1 DEF ClosePanel, Idle
      <4>2. CASE ~Settled BY <2>2, <3>1, <4>2 DEF ClosePanel, Settled
      <4> QED BY <4>1, <4>2
    <3> QED BY <1>1, <2>2, <3>2, PartsTyped DEF ClosePanel
  <2>3. ASSUME NEW v \in 1..(row.version - 1), Choose(v)
        PROVE  /\ panel'.open => page'.at = "edit"
               /\ restore'.status \in {"pending", "error"} => panel'.selected \in {0, panel'.attempted}
               /\ restore'.status = "success" /\ panel'.restored # 0
                    => panel'.selected \in {0, panel'.restored}
    <3>1. CASE v = panel.selected
      BY <1>1, <2>3, <3>1 DEF Choose, Chosen, EditorInv, Outcomes
    <3>2. CASE v # panel.selected
      <4>1. restore.status \in {"idle", "success", "error"}
        BY <2>3, PartsTyped DEF Choose, Enabled, Pending
      <4>2. restore'.status = "idle"
        <5>1. CASE Settled
          <6>1. restore' = Idle BY <2>3, <3>2, <5>1 DEF Choose, Chosen
          <6> QED BY <6>1 DEF Idle
        <5>2. CASE ~Settled BY <2>3, <3>2, <4>1, <5>2 DEF Choose, Chosen, Settled
        <5> QED BY <5>1, <5>2
      <4>3. panel'.open = panel.open BY <2>3, <3>2, PartsTyped DEF Choose, Chosen
      <4> QED BY <1>1, <4>2, <4>3 DEF EditorInv, Outcomes
    <3> QED BY <3>1, <3>2
  <2>4. CASE DetailAnswered BY <1>1, <2>4, PartsTyped DEF DetailAnswered, EditorInv, Outcomes
  <2>5. CASE Confirm BY <1>1, <2>5, PartsTyped DEF Confirm, EditorInv, Outcomes
  <2> QED BY <2>1, <2>2, <2>3, <2>4, <2>5
<1>8. Outcomes' BY <1>1, <1>3, <1>7 DEF Outcomes
<1>9. CleanDraft' BY <1>1 DEF EditorInv, CleanDraft
<1> QED BY <1>3, <1>6, <1>8, <1>9 DEF EditorInv

\* The document's query.
LEMMA FetchingKeeps ==
  ASSUME EditorInv, Refetch \/ FetchRead \/ FetchAnswered \/ FetchFails
  PROVE  EditorInv'
<1>1. UNCHANGED <<row, revisions, save, restore, wire>>
  BY DEF Refetch, FetchRead, FetchAnswered, FetchFails
<1>2. cache' \in [data : Rows \union {None}, failed : BOOLEAN,
                  fetch : {"idle", "asked", "read"}, read : Rows]
      /\ cache'.data \in {cache.data, cache.read} /\ cache'.read \in {cache.read, row, NoRow}
  BY ZenonT(60), PartsTyped, EmptyPartsTyped DEF Refetch, FetchRead, FetchAnswered, FetchFails
<1>3. Attempts' /\ Submitted' /\ Versions'
      /\ \A w \in wire : w.n = restore'.attempt /\ ~w.heard => restore'.status = "pending"
  BY <1>1, <1>2, QuietKeepsTheWire
<1>4. page' = page \/ \E text \in Texts : page.draft = None /\ page' = [page EXCEPT !.draft = text, !.seed = text]
  <2>1. CASE FetchAnswered
    <3>1. cache.read.text \in Texts BY PartsTyped DEF Rows
    <3> QED BY <2>1, <3>1 DEF FetchAnswered, Seeded, Seed
  <2> QED BY <2>1 DEF Refetch, FetchRead, FetchFails
<1>5. page' \in [at : {"new", "edit", "left"}, draft : Texts \union {None}, seed : Texts,
                 dirty : BOOLEAN, blocked : BOOLEAN, leave : BOOLEAN]
      /\ (page'.leave => page'.blocked) /\ page'.at = page.at
      /\ (page' = page \/ page'.draft = page'.seed) /\ page'.dirty = page.dirty
  BY ZenonT(60), <1>4, PartsTyped
<1>6. /\ upload' \in {upload, [NoUpload EXCEPT !.open = upload.open]}
      /\ panel' \in {panel, [NoPanel EXCEPT !.open = panel.open]}
  BY DEF Refetch, FetchRead, FetchAnswered, FetchFails
<1>7. upload' \in [open : BOOLEAN, pending : BOOLEAN, closure : Texts]
  BY <1>6, PartsTyped, EmptyPartsTyped
<1>8. panel' \in [open : BOOLEAN, selected : 0..MaxVersion, confirming : BOOLEAN,
                  detail : {"none", "loading", "shown"}, attempted : 0..MaxVersion,
                  restored : 0..MaxVersion]
  BY <1>6, PartsTyped, EmptyPartsTyped
<1>9. EditorTypeOK' BY <1>1, <1>2, <1>5, <1>7, <1>8 DEF EditorInv, EditorTypeOK
<1>10. CleanDraft' BY <1>5 DEF EditorInv, CleanDraft
<1>11. panel' = panel \/ (panel'.open = panel.open /\ panel'.selected = 0)
  BY <1>6 DEF NoPanel
<1>12. Outcomes' BY <1>1, <1>3, <1>5, <1>11 DEF EditorInv, Outcomes
<1> QED BY <1>3, <1>9, <1>10, <1>12 DEF EditorInv

\* Leaving, and coming back.
LEMMA LeavingKeeps ==
  ASSUME EditorInv, Left, UNCHANGED <<row, revisions, cache, wire>>
  PROVE  EditorInv'
<1>1. page' = FreshPage("left") /\ save' = Idle /\ restore' = Idle /\ upload' = NoUpload
      /\ panel' = NoPanel
  BY DEF Left
<1>2. Attempts' /\ Submitted' /\ Versions' BY <1>1, QuietKeepsTheWire
<1>3. EditorTypeOK'
  BY <1>1, EmptyPartsTyped DEF EditorInv, EditorTypeOK, FreshPage
<1>4. CleanDraft' BY <1>1 DEF CleanDraft, FreshPage
<1>5. \A w \in wire : w.n = restore'.attempt /\ ~w.heard => restore'.status = "pending"
  BY <1>1, QuietKeepsTheWire
<1>6. Outcomes' BY <1>1, <1>5 DEF Outcomes, Idle, NoPanel
<1> QED BY <1>2, <1>3, <1>4, <1>6 DEF EditorInv

LEMMA NavigationKeeps ==
  ASSUME EditorInv, Navigate \/ Stay \/ Discard \/ Open
  PROVE  EditorInv'
<1>1. ASSUME UNCHANGED <<row, revisions, save, restore, wire, upload, panel>>,
             cache'.data = cache.data, cache'.read = cache.read,
             cache' \in [data : Rows \union {None}, failed : BOOLEAN,
                         fetch : {"idle", "asked", "read"}, read : Rows],
             page' \in [at : {"new", "edit", "left"}, draft : Texts \union {None}, seed : Texts,
                        dirty : BOOLEAN, blocked : BOOLEAN, leave : BOOLEAN],
             page'.leave => page'.blocked, page.at = "edit" => page'.at = "edit",
             ~page'.dirty => page'.draft \in {None, page'.seed}
      PROVE  EditorInv'
  <2>1. Attempts' /\ Submitted' /\ Versions'
        /\ \A w \in wire : w.n = restore'.attempt /\ ~w.heard => restore'.status = "pending"
    BY <1>1, QuietKeepsTheWire
  <2>2. EditorTypeOK' BY <1>1 DEF EditorInv, EditorTypeOK
  <2>3. Outcomes' BY <1>1, <2>1 DEF EditorInv, Outcomes
  <2> QED BY <1>1, <2>1, <2>2, <2>3 DEF EditorInv, CleanDraft
<1>2. CASE Navigate
  <2>1. CASE page.dirty
    BY ZenonT(60), <1>1, <1>2, <2>1, PartsTyped DEF Navigate
  <2>2. CASE ~page.dirty
    <3>1. Left /\ UNCHANGED <<row, revisions, cache, wire>> BY <1>2, <2>2 DEF Navigate
    <3> QED BY <3>1, LeavingKeeps
  <2> QED BY <2>1, <2>2
<1>3. CASE Stay
  <2>1. ~page'.dirty => page'.draft \in {None, page'.seed}
    BY <1>3, PartsTyped DEF Stay, EditorInv, CleanDraft
  <2> QED BY <1>1, <1>3, <2>1, PartsTyped DEF Stay
<1>4. CASE Discard
  <2>1. Left /\ UNCHANGED <<row, revisions, cache, wire>> BY <1>4 DEF Discard
  <2> QED BY <2>1, LeavingKeeps
<1>5. CASE Open
  <2>1. page' = FreshPage("edit")
        \/ \E text \in Texts : page' = [FreshPage("edit") EXCEPT !.draft = text, !.seed = text]
    <3>1. cache.data # None => cache.data.text \in Texts BY PartsTyped DEF Rows
    <3>2. CASE cache.data = None BY <1>5, <3>2 DEF Open, Seeded
    <3>3. CASE cache.data # None /\ page' # FreshPage("edit")
      <4>1. page' = Seed(FreshPage("edit"), cache.data) BY <1>5, <3>3 DEF Open, Seeded
      <4> QED BY <3>1, <3>3, <4>1 DEF Seed
    <3> QED BY <3>2, <3>3
  <2>2. /\ page' \in [at : {"new", "edit", "left"}, draft : Texts \union {None}, seed : Texts,
                      dirty : BOOLEAN, blocked : BOOLEAN, leave : BOOLEAN]
        /\ page'.leave = FALSE /\ page'.at = "edit" /\ page'.draft \in {None, page'.seed}
    <3>1. PICK p : p = FreshPage("edit") OBVIOUS
    <3>2. /\ p \in [at : {"new", "edit", "left"}, draft : Texts \union {None}, seed : Texts,
                    dirty : BOOLEAN, blocked : BOOLEAN, leave : BOOLEAN]
          /\ p.leave = FALSE /\ p.at = "edit" /\ p.draft = None
      BY <3>1, EmptyPartsTyped DEF FreshPage
    <3>3. page' = p \/ \E text \in Texts : page' = [p EXCEPT !.draft = text, !.seed = text]
      BY <2>1, <3>1
    <3> QED BY ZenonT(60), <3>2, <3>3
  <2>3. cache'.data = cache.data /\ cache'.read = cache.read
        /\ cache' \in [data : Rows \union {None}, failed : BOOLEAN,
                       fetch : {"idle", "asked", "read"}, read : Rows]
    BY <1>5, PartsTyped DEF Open
  <2> QED BY <1>1, <1>5, <2>2, <2>3 DEF Open
<1> QED BY <1>2, <1>3, <1>4, <1>5

-----------------------------------------------------------------------------
(* Sending.                                                                *)

\* A write is sent under the next number, and nothing was answered to it yet.
Sent(w) ==
  /\ wire' = wire \union {w} /\ w \in WriteRecords
  /\ w.n = Attempt /\ w.answer = "none" /\ ~w.heard
  /\ w.expected <= row.version /\ w.got.version <= row.version

LEMMA SendingIsNumbered ==
  ASSUME EditorInv, NEW kind \in {"create", "update", "restore"}, NEW expected \in 0..MaxVersion,
         expected <= row.version, NEW text \in Texts, NEW revision \in 0..MaxVersion,
         SendWrite(kind, expected, text, revision)
  PROVE  \E w : Sent(w) /\ w.kind = kind /\ w.text = text
<1>1. PICK a : a = Attempt OBVIOUS
<1>2. a \in 0..MaxSends
  <2>1. PICK c : c = Cardinality(wire) OBVIOUS
  <2>2. c \in 0..MaxSends BY <2>1 DEF EditorInv, Attempts, Numbered
  <2> QED BY <1>1, <2>1, <2>2, EditorAssumption DEF SendWrite, Attempt
<1>3. PICK u : u = Unsent OBVIOUS
<1>4. /\ u \in WriteRecords /\ u.got.version = 0 /\ u.answer = "none" /\ ~u.heard
  BY <1>3, EmptyPartsTyped, EditorAssumption DEF Unsent, WriteRecords, NoRow
<1>5. PICK w : w = [u EXCEPT !.n = a, !.kind = kind, !.expected = expected,
                             !.text = text, !.revision = revision]
  OBVIOUS
<1>6. w \in WriteRecords BY <1>2, <1>4, <1>5 DEF WriteRecords
<1>7. /\ w.n = a /\ w.kind = kind /\ w.text = text /\ w.expected = expected
      /\ w.got = u.got /\ w.answer = "none" /\ ~w.heard
  BY <1>4, <1>5 DEF WriteRecords
<1>8. wire' = wire \union {w} BY <1>1, <1>3, <1>5 DEF SendWrite
<1>9. w.got.version <= row.version
  BY <1>4, <1>7, PartsTyped DEF Rows
<1> QED BY <1>1, <1>6, <1>7, <1>8, <1>9 DEF Sent

LEMMA SendingKeeps ==
  ASSUME EditorInv, NEW w, Sent(w), UNCHANGED <<row, cache>>
  PROVE  /\ Numbered(wire') /\ Versions' /\ wire' \subseteq WriteRecords
         /\ Cardinality(wire') = Attempt /\ Attempt \in 1..MaxSends
         /\ \A v \in wire : v.n < Attempt
         /\ save.attempt < Attempt /\ restore.attempt < Attempt
<1>1. PICK c : c = Cardinality(wire) OBVIOUS
<1>2. c \in 0..MaxSends /\ Numbered(wire) BY <1>1 DEF EditorInv, Attempts, Numbered
<1>3. Attempt = c + 1 BY <1>1 DEF Attempt
<1>4. w.n = c + 1 /\ w.n <= MaxSends
  BY <1>3, EditorAssumption DEF Sent, WriteRecords
<1>5. PICK W : W = wire \union {w} OBVIOUS
<1>6. Numbered(W) /\ Cardinality(W) = c + 1
  BY <1>1, <1>2, <1>4, <1>5, SendingNumbers
<1>7. wire' = W BY <1>5 DEF Sent
<1>8. \A v \in wire : v.n < c + 1
  BY <1>1, <1>2 DEF Numbered
<1>9. save.attempt < c + 1 /\ restore.attempt < c + 1
  BY <1>1, <1>2 DEF EditorInv, Attempts
<1>10. Versions'
  <2>1. \A v \in wire' : v.expected <= row.version /\ v.got.version <= row.version
    BY DEF Sent, EditorInv, Versions
  <2>2. ASSUME NEW v \in wire', NEW later \in wire', later.n > v.n, later.answer = "ok",
               v.answer = "none"
        PROVE  v.expected < row.version
    <3>1. later \in wire BY <2>2 DEF Sent
    <3>2. v # w
      <4>1. ~(later.n > c + 1) BY <1>2, <1>8, <3>1, PartsTyped DEF WriteRecords
      <4> QED BY <1>4, <2>2, <4>1
    <3>3. v \in wire BY <3>2 DEF Sent
    <3> QED BY <2>2, <3>1, <3>3 DEF EditorInv, Versions
  <2> QED BY <2>1, <2>2 DEF EditorInv, Versions
<1>11. wire' \subseteq WriteRecords BY PartsTyped DEF Sent
<1>12. c + 1 \in 1..MaxSends BY <1>2, <1>4, EditorAssumption
<1> QED BY <1>3, <1>6, <1>7, <1>8, <1>9, <1>10, <1>11, <1>12

\* What the query holds is a version the document has reached.
LEMMA HeldVersions ==
  ASSUME EditorInv
  PROVE  /\ row.version \in 0..MaxVersion /\ 0 <= row.version
         /\ cache.data # None => cache.data.version \in 0..MaxVersion
                                 /\ cache.data.version <= row.version
BY PartsTyped, EditorAssumption DEF Rows, EditorInv, Versions

LEMMA SavingKeeps ==
  ASSUME EditorInv, Enabled, OnSave, UNCHANGED <<row, revisions, cache, restore, upload, panel>>,
         page' \in {page, [page EXCEPT !.leave = TRUE]}, page' = page \/ page.blocked
  PROVE  EditorInv'
<1>1. page.draft \in Texts BY PartsTyped DEF Enabled, Rendered
<1>2. PICK w : Sent(w) /\ w.text = page.draft
  <2>1. CASE page.at = "new"
    BY <1>1, <2>1, SendingIsNumbered, HeldVersions, EmptyPartsTyped DEF OnSave
  <2>2. CASE page.at # "new"
    <3>1. cache.data # None BY <2>2 DEF Enabled, Rendered
    <3> QED BY <1>1, <2>2, <3>1, SendingIsNumbered, HeldVersions, EmptyPartsTyped DEF OnSave
  <2> QED BY <2>1, <2>2
<1>3. PICK a : a = Attempt OBVIOUS
<1>4. save' = [status |-> "pending", attempt |-> a, submitted |-> page.draft]
  BY <1>3 DEF OnSave
<1>5. /\ Numbered(wire') /\ Versions' /\ wire' \subseteq WriteRecords
      /\ Cardinality(wire') = a /\ a \in 1..MaxSends
      /\ \A v \in wire : v.n < a
      /\ save.attempt < a /\ restore.attempt < a
  BY <1>2, <1>3, SendingKeeps
<1>6. wire' = wire \union {w} /\ w.n = a /\ w.answer = "none" /\ ~w.heard
  BY <1>2, <1>3 DEF Sent
<1>7. save'.status = "pending" /\ save'.attempt = a /\ save'.submitted = page.draft
      /\ save' \in [status : {"idle", "pending", "success", "error"},
                    attempt : 0..MaxSends, submitted : Texts]
  BY <1>1, <1>4, <1>5
<1>8. /\ page' \in [at : {"new", "edit", "left"}, draft : Texts \union {None}, seed : Texts,
                    dirty : BOOLEAN, blocked : BOOLEAN, leave : BOOLEAN]
      /\ page'.leave => page'.blocked
      /\ page'.dirty = page.dirty /\ page'.draft = page.draft /\ page'.seed = page.seed
      /\ page'.at = page.at
  BY PartsTyped
<1>9. EditorTypeOK' BY <1>5, <1>7, <1>8, PartsTyped DEF EditorTypeOK
<1>10. Attempts'
  <2>1. restore.attempt \in 0..a BY <1>5, PartsTyped
  <2> QED BY <1>5, <1>7, <2>1 DEF Attempts
<1>11. Submitted'
  <2>1. \A v \in wire : v.n # a BY <1>5, PartsTyped DEF WriteRecords
  <2> QED BY <1>2, <1>6, <1>7, <2>1 DEF EditorInv, Submitted
<1>12. Outcomes'
  <2>1. a # restore.attempt BY <1>5, PartsTyped
  <2> QED BY <1>6, <1>8, <2>1 DEF EditorInv, Outcomes
<1> QED BY <1>5, <1>8, <1>9, <1>10, <1>11, <1>12 DEF EditorInv, CleanDraft

LEMMA RestoringKeeps ==
  ASSUME EditorInv, RestoreNow
  PROVE  EditorInv'
<1>1. cache.data # None \/ page.at = "new" BY DEF RestoreNow, Enabled, Rendered
<1>2. panel.open /\ page.at = "edit"
  <2>1. panel.open BY DEF RestoreNow, InFront
  <2> QED BY <2>1 DEF EditorInv, Outcomes
<1>3. PICK w : Sent(w) /\ w.kind = "restore"
  BY <1>1, <1>2, SendingIsNumbered, HeldVersions, PartsTyped, EmptyPartsTyped DEF RestoreNow
<1>4. PICK a : a = Attempt OBVIOUS
<1>5. restore' = [status |-> "pending", attempt |-> a, submitted |-> {}]
  BY <1>4 DEF RestoreNow
<1>6. /\ Numbered(wire') /\ Versions' /\ wire' \subseteq WriteRecords
      /\ Cardinality(wire') = a /\ a \in 1..MaxSends
      /\ \A v \in wire : v.n < a
      /\ save.attempt < a /\ restore.attempt < a
  BY <1>3, <1>4, SendingKeeps DEF RestoreNow
<1>7. wire' = wire \union {w} /\ w.n = a /\ w.answer = "none" /\ ~w.heard
  BY <1>3, <1>4 DEF Sent
<1>8. restore'.status = "pending" /\ restore'.attempt = a
      /\ restore' \in [status : {"idle", "pending", "success", "error"},
                       attempt : 0..MaxSends, submitted : Texts]
  BY <1>5, <1>6, EmptyPartsTyped
<1>9. /\ panel' \in [open : BOOLEAN, selected : 0..MaxVersion, confirming : BOOLEAN,
                     detail : {"none", "loading", "shown"}, attempted : 0..MaxVersion,
                     restored : 0..MaxVersion]
      /\ panel'.selected = panel.selected /\ panel'.attempted = panel.selected
  BY PartsTyped DEF RestoreNow
<1>10. UNCHANGED <<row, revisions, cache, page, save, upload>> BY DEF RestoreNow
<1>11. EditorTypeOK' BY <1>6, <1>8, <1>9, <1>10, PartsTyped DEF EditorTypeOK
<1>12. Attempts'
  <2>1. save.attempt \in 0..a /\ a \in 0..a BY <1>6, PartsTyped
  <2> QED BY <1>6, <1>8, <1>10, <2>1 DEF Attempts
<1>13. Submitted'
  <2>1. a # save.attempt BY <1>6, PartsTyped
  <2> QED BY <1>7, <1>10, <2>1 DEF EditorInv, Submitted
<1>14. Outcomes' BY <1>2, <1>8, <1>9, <1>10 DEF Outcomes
<1> QED BY <1>6, <1>10, <1>11, <1>12, <1>13, <1>14 DEF EditorInv, CleanDraft

-----------------------------------------------------------------------------
(* Hearing, and answering.                                                 *)

\* A write takes the place of what it was; one that is over is not remembered.
Became(w, later, v) ==
  /\ wire' = (wire \ {w}) \union {v}
  /\ v \in WriteRecords /\ v.n = w.n /\ v.heard = later.heard /\ v.answer = later.answer
  /\ v = later \/ (later.heard /\ later.answer # "none" /\ v.expected = 0 /\ v.got = NoRow)

LEMMA Becoming ==
  ASSUME EditorInv, NEW w \in wire, NEW later \in WriteRecords, later.n = w.n, Becomes(w, later)
  PROVE  \E v : Became(w, later, v)
<1>1. CASE later.heard /\ later.answer # "none"
  <2>1. PICK u : u = Unsent OBVIOUS
  <2>2. u \in WriteRecords /\ u.expected = 0 /\ u.got = NoRow
    BY <2>1, EmptyPartsTyped, EditorAssumption DEF Unsent, WriteRecords
  <2>3. PICK v : v = [u EXCEPT !.n = w.n, !.answer = later.answer, !.heard = TRUE] OBVIOUS
  <2>4. w.n \in 0..MaxSends /\ later.answer \in {"none", "ok", "stale", "gone"}
    BY PartsTyped DEF WriteRecords
  <2>5. v \in WriteRecords BY <2>2, <2>3, <2>4 DEF WriteRecords
  <2>6. /\ v.n = w.n /\ v.answer = later.answer /\ v.heard = TRUE
        /\ v.expected = 0 /\ v.got = NoRow
    BY <2>2, <2>3 DEF WriteRecords
  <2>7. wire' = (wire \ {w}) \union {v} BY <1>1, <2>1, <2>3 DEF Becomes
  <2>8. later.heard = TRUE BY <1>1 DEF WriteRecords
  <2> QED BY <1>1, <2>5, <2>6, <2>7, <2>8 DEF Became
<1>2. CASE ~(later.heard /\ later.answer # "none")
  BY <1>2 DEF Becomes, Became
<1> QED BY <1>1, <1>2

LEMMA BecomingNumbers ==
  ASSUME EditorInv, NEW w \in wire, NEW later, NEW v, Became(w, later, v)
  PROVE  /\ Numbered(wire') /\ Cardinality(wire') = Cardinality(wire)
         /\ wire' \subseteq WriteRecords
         /\ \A u \in wire' : u # v => u \in wire /\ u # w /\ u.n # w.n
<1>1. PICK W : W = (wire \ {w}) \union {v} OBVIOUS
<1>2. wire' = W /\ v.n = w.n BY <1>1 DEF Became
<1>3. Numbered(wire) BY DEF EditorInv, Attempts
<1>4. Numbered(W) /\ Cardinality(W) = Cardinality(wire)
  BY <1>1, <1>2, <1>3, AnsweringNumbers
<1>5. \A u \in W : u # v => u \in wire /\ u # w /\ u.n # w.n
  BY <1>1, <1>3 DEF Numbered
<1>6. W \subseteq WriteRecords BY <1>1, PartsTyped DEF Became
<1> QED BY <1>2, <1>4, <1>5, <1>6

\* Hearing of a write changes nothing but what the tab knows.
LEMMA HearingKeeps ==
  ASSUME EditorInv, NEW w \in wire, Heard(w), UNCHANGED row,
         cache'.data \in {cache.data, w.got}, cache'.read \in {cache.read, NoRow},
         save'.attempt \in {save.attempt, 0}, save'.submitted = save.submitted \/ save' = Idle,
         restore'.attempt \in {restore.attempt, 0}
  PROVE  /\ Attempts' /\ Submitted' /\ Versions' /\ wire' \subseteq WriteRecords
         /\ \A v \in wire' : ~v.heard => v \in wire /\ v.n # w.n
<1>1. PICK later : later = [w EXCEPT !.heard = TRUE] OBVIOUS
<1>2. w \in WriteRecords BY PartsTyped
<1>3. later \in WriteRecords /\ later.n = w.n /\ later.heard = TRUE /\ later.answer = w.answer
      /\ later.expected = w.expected /\ later.got = w.got
  BY <1>1, <1>2 DEF WriteRecords
<1>4. PICK v : Became(w, later, v)
  <2>1. Becomes(w, later) BY <1>1 DEF Heard
  <2> QED BY <1>3, <2>1, Becoming
<1>5. /\ Numbered(wire') /\ Cardinality(wire') = Cardinality(wire)
      /\ wire' \subseteq WriteRecords
      /\ \A u \in wire' : u # v => u \in wire /\ u # w /\ u.n # w.n
  BY <1>4, BecomingNumbers
<1>6. /\ v.n = w.n /\ v.heard /\ v.answer = w.answer
      /\ v.expected \in {w.expected, 0} /\ v.got \in {w.got, NoRow}
      /\ v.answer = "none" => v.expected = w.expected
  BY <1>3, <1>4 DEF Became
<1>7. row.version \in 0..MaxVersion /\ row.version \in Nat /\ NoRow.version = 0
  BY HeldVersions, EditorAssumption DEF NoRow
<1>8. Attempts'
  <2>1. PICK c : c = Cardinality(wire) OBVIOUS
  <2>2. c \in 0..MaxSends BY <2>1 DEF EditorInv, Attempts, Numbered
  <2>3. save'.attempt \in 0..c /\ restore'.attempt \in 0..c
    BY <2>1, <2>2, EditorAssumption DEF EditorInv, Attempts
  <2> QED BY <1>5, <2>1, <2>3 DEF Attempts
<1>9. \A u \in wire' : ~u.heard => u \in wire /\ u.n # w.n
  BY <1>5, <1>6
<1>10. Submitted'
  <2>1. ASSUME NEW u \in wire', u.n = save'.attempt, ~u.heard PROVE u.text = save'.submitted
    <3>1. u \in wire BY <1>9, <2>1
    <3>2. u.n # 0 BY <3>1 DEF EditorInv, Attempts, Numbered
    <3>3. save' # Idle BY <2>1, <3>2 DEF Idle
    <3> QED BY <2>1, <3>1, <3>2, <3>3 DEF EditorInv, Submitted
  <2>2. \A u \in wire' : u.kind # "restore" /\ u.answer = "ok" /\ ~u.heard => u.got.text = u.text
    BY <1>9 DEF EditorInv, Submitted
  <2> QED BY <2>1, <2>2 DEF Submitted
<1>11. Versions'
  <2>1. cache'.data # None => cache'.data.version <= row.version
    BY DEF EditorInv, Versions
  <2>2. cache'.read.version <= row.version BY <1>7 DEF EditorInv, Versions
  <2>3. \A u \in wire' : u.expected <= row.version /\ u.got.version <= row.version
    BY <1>5, <1>6, <1>7 DEF EditorInv, Versions
  <2>4. ASSUME NEW u \in wire', NEW x \in wire', x.n > u.n, x.answer = "ok", u.answer = "none"
        PROVE  u.expected < row.version
    <3>1. PICK u0 \in wire : u0.n = u.n /\ u0.answer = u.answer /\ u0.expected = u.expected
      BY <1>5, <1>6, <2>4
    <3>2. PICK x0 \in wire : x0.n = x.n /\ x0.answer = x.answer
      BY <1>5, <1>6
    <3> QED BY <2>4, <3>1, <3>2 DEF EditorInv, Versions
  <2> QED BY <2>1, <2>2, <2>3, <2>4 DEF Versions
<1> QED BY <1>5, <1>8, <1>9, <1>10, <1>11

LEMMA HeardKeeps ==
  ASSUME EditorInv, NEW w \in wire, ~w.heard, Heard(w), UNCHANGED <<row, revisions>>,
         cache' = cache \/ (w.answer = "ok" /\ CacheTakes(w.got)),
         save' \in [status : {"idle", "pending", "success", "error"},
                    attempt : 0..MaxSends, submitted : Texts],
         save' = Idle \/ (save'.attempt = save.attempt /\ save'.submitted = save.submitted),
         restore' \in [status : {"idle", "pending", "success", "error"},
                       attempt : 0..MaxSends, submitted : Texts],
         restore' \in {restore, Idle} \/ (restore'.attempt = restore.attempt /\ restore.attempt = w.n),
         page' \in [at : {"new", "edit", "left"}, draft : Texts \union {None}, seed : Texts,
                    dirty : BOOLEAN, blocked : BOOLEAN, leave : BOOLEAN],
         page'.leave => page'.blocked, CleanDraft',
         upload' \in [open : BOOLEAN, pending : BOOLEAN, closure : Texts],
         panel' \in [open : BOOLEAN, selected : 0..MaxVersion, confirming : BOOLEAN,
                     detail : {"none", "loading", "shown"}, attempted : 0..MaxVersion,
                     restored : 0..MaxVersion],
         panel'.open => page'.at = "edit",
         restore'.status \in {"pending", "error"} => panel'.selected \in {0, panel'.attempted},
         restore'.status = "success" /\ panel'.restored # 0 => panel'.selected \in {0, panel'.restored}
  PROVE  EditorInv'
<1>1. w.got \in Rows BY PartsTyped DEF WriteRecords
<1>2. cache' \in [data : Rows \union {None}, failed : BOOLEAN,
                  fetch : {"idle", "asked", "read"}, read : Rows]
      /\ cache'.data \in {cache.data, w.got} /\ cache'.read \in {cache.read, NoRow}
  <2>1. CASE cache' = cache BY <2>1, PartsTyped
  <2>2. CASE CacheTakes(w.got)
    <3>1. PICK f \in {"idle", "asked", "read"} :
            f = IF page.at = "edit" THEN "asked" ELSE cache.fetch
      BY PartsTyped
    <3>2. PICK r \in Rows : r \in {cache.read, NoRow}
                          /\ r = IF page.at = "edit" THEN NoRow ELSE cache.read
      BY PartsTyped, EmptyPartsTyped
    <3>3. PICK g \in Rows : g = w.got BY <1>1
    <3>4. cache' = [cache EXCEPT !.data = g, !.failed = FALSE, !.fetch = f, !.read = r]
      BY <2>2, <3>1, <3>2, <3>3 DEF CacheTakes
    <3>5. cache' \in [data : Rows \union {None}, failed : BOOLEAN,
                      fetch : {"idle", "asked", "read"}, read : Rows]
          /\ cache'.data = g /\ cache'.read = r
      BY <3>4, PartsTyped
    <3> QED BY <3>2, <3>3, <3>5
  <2> QED BY <2>1, <2>2
<1>3. /\ save'.attempt \in {save.attempt, 0} /\ restore'.attempt \in {restore.attempt, 0}
      /\ save'.submitted = save.submitted \/ save' = Idle
  BY DEF Idle
<1>4. /\ Attempts' /\ Submitted' /\ Versions' /\ wire' \subseteq WriteRecords
      /\ \A v \in wire' : ~v.heard => v \in wire /\ v.n # w.n
  BY <1>2, <1>3, HearingKeeps
<1>5. EditorTypeOK' BY <1>2, <1>4, PartsTyped DEF EditorTypeOK
<1>6. ASSUME NEW v \in wire', v.n = restore'.attempt, ~v.heard PROVE restore'.status = "pending"
  <2>1. v \in wire /\ v.n # w.n BY <1>4, <1>6
  <2>2. v.n # 0 BY <2>1 DEF EditorInv, Attempts, Numbered
  <2>3. restore' = restore BY <1>6, <2>1, <2>2 DEF Idle
  <2> QED BY <1>6, <2>1, <2>3 DEF EditorInv, Outcomes
<1>7. Outcomes' BY <1>6 DEF Outcomes
<1> QED BY <1>4, <1>5, <1>7 DEF EditorInv

\* A new status for a mutation.
LEMMA StatusTyped ==
  ASSUME NEW m \in [status : {"idle", "pending", "success", "error"},
                    attempt : 0..MaxSends, submitted : Texts],
         NEW s \in {"success", "error"}
  PROVE  \E x : /\ x = [m EXCEPT !.status = s] /\ x.status = s
                /\ x \in [status : {"idle", "pending", "success", "error"},
                          attempt : 0..MaxSends, submitted : Texts]
                /\ x.attempt = m.attempt /\ x.submitted = m.submitted
<1>1. PICK x : x = [m EXCEPT !.status = s] OBVIOUS
<1>2. x \in [status : {"idle", "pending", "success", "error"},
             attempt : 0..MaxSends, submitted : Texts]
  BY <1>1
<1>3. x.status = s /\ x.attempt = m.attempt /\ x.submitted = m.submitted BY <1>1
<1> QED BY <1>1, <1>2, <1>3

\* What a save is told is what it submitted.
LEMMA SaveAnsweredKeeps ==
  ASSUME EditorInv, NEW w \in wire, SaveAnswered(w)
  PROVE  EditorInv'
<1>1. ~w.heard /\ Heard(w) /\ UNCHANGED <<row, revisions>>
      /\ (cache' = cache \/ (w.answer = "ok" /\ CacheTakes(w.got)))
  BY DEF SaveAnswered
<1>2. CleanDraft /\ (panel.open => page.at = "edit")
      /\ (restore.status \in {"pending", "error"} => panel.selected \in {0, panel.attempted})
      /\ (restore.status = "success" /\ panel.restored # 0 => panel.selected \in {0, panel.restored})
  BY DEF EditorInv, Outcomes
<1>3. CASE UNCHANGED <<page, restore, upload, panel>>
  <2>1. save' = save \/ (\E s \in {"success", "error"} : save' = [save EXCEPT !.status = s])
    <3>1. CASE w.n = save.attempt /\ w.answer = "ok" /\ page.draft = save.submitted
      <4>1. page.at = "new" => page'.at = "edit"
        BY <1>1, <3>1, PartsTyped DEF SaveAnswered, Saved, Seed, FreshPage
      <4>2. ~(page.at = "new") BY <1>3, <4>1
      <4>3. page.at = "edit" /\ page.leave => page'.at = "left"
        BY <3>1, <4>2 DEF SaveAnswered, Saved, Left, FreshPage
      <4>4. ~(page.at = "edit" /\ page.leave) BY <1>3, <4>3
      <4> QED BY <3>1, <4>2, <4>4 DEF SaveAnswered, Saved
    <3>2. CASE w.n = save.attempt /\ w.answer = "ok" /\ page.draft # save.submitted
      BY <3>2 DEF SaveAnswered, Saved
    <3>3. CASE ~(w.n = save.attempt /\ w.answer = "ok")
      BY <3>3 DEF SaveAnswered
    <3> QED BY <3>1, <3>2, <3>3
  <2>2. /\ save' \in [status : {"idle", "pending", "success", "error"},
                      attempt : 0..MaxSends, submitted : Texts]
        /\ save'.attempt = save.attempt /\ save'.submitted = save.submitted
    BY ZenonT(60), <2>1, StatusTyped, PartsTyped
  <2> QED BY <1>1, <1>2, <1>3, <2>2, HeardKeeps, PartsTyped DEF CleanDraft
<1>4. CASE ~UNCHANGED <<page, restore, upload, panel>>
  <2>1. w.n = save.attempt /\ w.answer = "ok" /\ page.draft = save.submitted /\ Saved(w.got)
    BY <1>4 DEF SaveAnswered, Saved
  <2>2. w.got.text = page.draft /\ w.got.text \in Texts
    <3>1. w.kind # "restore" BY DEF SaveAnswered
    <3>2. w.got.text = w.text /\ w.text = save.submitted
      BY <1>1, <2>1, <3>1 DEF EditorInv, Submitted
    <3>3. save.submitted \in Texts BY PartsTyped
    <3> QED BY <2>1, <3>2, <3>3
  <2>3. PICK got : got = w.got OBVIOUS
  <2>4. CASE page.at = "new"
    <3>1. /\ page' = Seed(FreshPage("edit"), w.got)
          /\ save' = Idle /\ restore' = Idle /\ upload' = NoUpload /\ panel' = NoPanel
      BY <2>1, <2>4 DEF Saved
    <3>2. PICK p : p = FreshPage("edit") OBVIOUS
    <3>3. /\ p \in [at : {"new", "edit", "left"}, draft : Texts \union {None}, seed : Texts,
                    dirty : BOOLEAN, blocked : BOOLEAN, leave : BOOLEAN]
          /\ p.leave = FALSE
      BY <3>2, EmptyPartsTyped DEF FreshPage
    <3>4. PICK t \in Texts : t = w.got.text BY <2>2
    <3>5. page' = [p EXCEPT !.draft = t, !.seed = t] BY <3>1, <3>2, <3>4 DEF Seed
    <3>6. /\ page' \in [at : {"new", "edit", "left"}, draft : Texts \union {None}, seed : Texts,
                        dirty : BOOLEAN, blocked : BOOLEAN, leave : BOOLEAN]
          /\ page'.leave = FALSE /\ page'.draft = page'.seed
      BY <3>3, <3>5
    <3>7. CleanDraft' BY <3>6 DEF CleanDraft
    <3>8. ~panel'.open /\ restore'.status = "idle" BY <3>1 DEF NoPanel, Idle
    <3> QED BY <1>1, <3>1, <3>6, <3>7, <3>8, HeardKeeps, EmptyPartsTyped
  <2>5. CASE page.at = "edit" /\ page.leave
    <3>1. Left BY <2>1, <2>5 DEF Saved
    <3>2. PICK p : p = FreshPage("left") OBVIOUS
    <3>3. page' = p /\ save' = Idle /\ restore' = Idle /\ upload' = NoUpload /\ panel' = NoPanel
      BY <3>1, <3>2 DEF Left
    <3>4. /\ p \in [at : {"new", "edit", "left"}, draft : Texts \union {None}, seed : Texts,
                    dirty : BOOLEAN, blocked : BOOLEAN, leave : BOOLEAN]
          /\ p.leave = FALSE /\ p.draft = None
      BY <3>2, EmptyPartsTyped DEF FreshPage
    <3>5. CleanDraft' BY <3>3, <3>4 DEF CleanDraft
    <3>6. ~panel'.open /\ restore'.status = "idle" BY <3>3 DEF NoPanel, Idle
    <3> QED BY <1>1, <3>3, <3>4, <3>5, <3>6, HeardKeeps, EmptyPartsTyped
  <2>6. CASE page.at # "new" /\ ~(page.at = "edit" /\ page.leave)
    <3>1. /\ page' = [page EXCEPT !.dirty = FALSE, !.seed = w.got.text]
          /\ save' = [save EXCEPT !.status = "success"]
          /\ UNCHANGED <<restore, upload, panel>>
      BY <2>1, <2>6 DEF Saved
    <3>2. PICK t \in Texts : t = w.got.text BY <2>2
    <3>3. /\ page' \in [at : {"new", "edit", "left"}, draft : Texts \union {None}, seed : Texts,
                        dirty : BOOLEAN, blocked : BOOLEAN, leave : BOOLEAN]
          /\ (page'.leave => page'.blocked) /\ page'.at = page.at
          /\ page'.draft = t /\ page'.seed = t
      BY <2>2, <3>1, <3>2, PartsTyped
    <3>4. /\ save' \in [status : {"idle", "pending", "success", "error"},
                        attempt : 0..MaxSends, submitted : Texts]
          /\ save'.attempt = save.attempt /\ save'.submitted = save.submitted
      BY <3>1, StatusTyped, PartsTyped
    <3>5. CleanDraft' BY <3>3 DEF CleanDraft
    <3> QED BY <1>1, <1>2, <3>1, <3>3, <3>4, <3>5, HeardKeeps, PartsTyped
  <2> QED BY <2>4, <2>5, <2>6
<1> QED BY <1>3, <1>4

LEMMA RefusalTyped ==
  ASSUME EditorInv, NEW reason, RestoreRefused(reason)
  PROVE  /\ panel' \in [open : BOOLEAN, selected : 0..MaxVersion, confirming : BOOLEAN,
                        detail : {"none", "loading", "shown"}, attempted : 0..MaxVersion,
                        restored : 0..MaxVersion]
         /\ panel'.selected \in {0, panel.selected} /\ panel'.attempted = panel.attempted
         /\ panel'.open = panel.open
         /\ restore' \in [status : {"idle", "pending", "success", "error"},
                          attempt : 0..MaxSends, submitted : Texts]
         /\ restore'.status = "error" /\ restore'.attempt = restore.attempt
         /\ page' = page
<1>1. PICK v \in 0..MaxVersion : v = 0 BY EmptyPartsTyped
<1>2. panel' = [panel EXCEPT !.confirming = FALSE, !.selected = v, !.detail = "none"]
      \/ panel' = [panel EXCEPT !.confirming = FALSE]
  BY <1>1 DEF RestoreRefused
<1>3. restore' = [restore EXCEPT !.status = "error"] /\ page' = page BY DEF RestoreRefused
<1>4. /\ restore' \in [status : {"idle", "pending", "success", "error"},
                       attempt : 0..MaxSends, submitted : Texts]
      /\ restore'.status = "error" /\ restore'.attempt = restore.attempt
  BY <1>3, StatusTyped, PartsTyped
<1>5. CASE panel' = [panel EXCEPT !.confirming = FALSE]
  BY <1>3, <1>4, <1>5, PartsTyped
<1>6. CASE panel' = [panel EXCEPT !.confirming = FALSE, !.selected = v, !.detail = "none"]
  BY <1>1, <1>3, <1>4, <1>6, PartsTyped
<1> QED BY <1>2, <1>5, <1>6

LEMMA RestoreAnsweredKeeps ==
  ASSUME EditorInv, NEW w \in wire, RestoreAnswered(w)
  PROVE  EditorInv'
<1>1. ~w.heard /\ Heard(w) /\ UNCHANGED <<row, revisions, save, upload>>
      /\ (cache' = cache \/ (w.answer = "ok" /\ CacheTakes(w.got)))
  BY DEF RestoreAnswered
<1>2. CleanDraft /\ (panel.open => page.at = "edit")
      /\ (restore.status \in {"pending", "error"} => panel.selected \in {0, panel.attempted})
      /\ (restore.status = "success" /\ panel.restored # 0 => panel.selected \in {0, panel.restored})
  BY DEF EditorInv, Outcomes
<1>3. w.n = restore.attempt => restore.status = "pending"
  BY <1>1 DEF EditorInv, Outcomes
<1>4. CASE w.n = restore.attempt /\ w.answer = "ok"
  <2>1. Restored(w) BY <1>4 DEF RestoreAnswered
  <2>2. PICK t \in Texts : t = w.got.text BY PartsTyped DEF WriteRecords, Rows
  <2>3. page' = [[page EXCEPT !.draft = t, !.seed = t] EXCEPT !.dirty = FALSE]
    BY <2>1, <2>2 DEF Restored, Seed
  <2>4. /\ page' \in [at : {"new", "edit", "left"}, draft : Texts \union {None}, seed : Texts,
                      dirty : BOOLEAN, blocked : BOOLEAN, leave : BOOLEAN]
        /\ (page'.leave => page'.blocked) /\ page'.at = page.at /\ page'.draft = page'.seed
    BY <2>3, PartsTyped
  <2>5. PICK v \in 0..MaxVersion : v = panel.attempted BY PartsTyped
  <2>6. panel' = [panel EXCEPT !.confirming = FALSE, !.restored = v]
    BY <2>1, <2>5 DEF Restored
  <2>7. /\ panel' \in [open : BOOLEAN, selected : 0..MaxVersion, confirming : BOOLEAN,
                       detail : {"none", "loading", "shown"}, attempted : 0..MaxVersion,
                       restored : 0..MaxVersion]
        /\ panel'.restored = panel.attempted /\ panel'.selected = panel.selected
        /\ panel'.open = panel.open
    BY <2>5, <2>6, PartsTyped
  <2>8. restore' = [restore EXCEPT !.status = "success"] BY <2>1 DEF Restored
  <2>9. /\ restore' \in [status : {"idle", "pending", "success", "error"},
                         attempt : 0..MaxSends, submitted : Texts]
        /\ restore'.status = "success" /\ restore'.attempt = restore.attempt
    BY <2>8, StatusTyped, PartsTyped
  <2>10. CleanDraft' BY <2>4 DEF CleanDraft
  <2>11. panel'.selected \in {0, panel'.restored} BY <1>2, <1>3, <1>4, <2>7
  <2> QED BY <1>1, <1>2, <1>4, <2>4, <2>7, <2>9, <2>10, <2>11, HeardKeeps, PartsTyped
<1>5. CASE w.n = restore.attempt /\ w.answer # "ok"
  <2>1. RestoreRefused(w.answer) BY <1>5 DEF RestoreAnswered
  <2>2. /\ panel' \in [open : BOOLEAN, selected : 0..MaxVersion, confirming : BOOLEAN,
                       detail : {"none", "loading", "shown"}, attempted : 0..MaxVersion,
                       restored : 0..MaxVersion]
        /\ panel'.selected \in {0, panel.selected} /\ panel'.attempted = panel.attempted
        /\ panel'.open = panel.open
        /\ restore' \in [status : {"idle", "pending", "success", "error"},
                         attempt : 0..MaxSends, submitted : Texts]
        /\ restore'.status = "error" /\ restore'.attempt = restore.attempt
        /\ page' = page
    BY <2>1, RefusalTyped
  <2>3. CleanDraft' BY <1>2, <2>2 DEF CleanDraft
  <2>4. panel'.selected \in {0, panel'.attempted} BY <1>2, <1>3, <1>5, <2>2
  <2> QED BY <1>1, <1>2, <1>5, <2>2, <2>3, <2>4, HeardKeeps, PartsTyped
<1>6. CASE w.n # restore.attempt
  <2>1. UNCHANGED <<page, panel, restore>> BY <1>6 DEF RestoreAnswered
  <2>2. CleanDraft' BY <1>2, <2>1 DEF CleanDraft
  <2> QED BY <1>1, <1>2, <2>1, <2>2, HeardKeeps, PartsTyped
<1> QED BY <1>4, <1>5, <1>6

LEMMA TimeOutKeeps ==
  ASSUME EditorInv, NEW w \in wire, TimeOut(w)
  PROVE  EditorInv'
<1>1. ~w.heard /\ Heard(w) /\ UNCHANGED <<row, revisions, cache, upload>>
  BY DEF TimeOut, DeadlinePasses
<1>2. CleanDraft /\ (panel.open => page.at = "edit")
      /\ (restore.status \in {"pending", "error"} => panel.selected \in {0, panel.attempted})
      /\ (restore.status = "success" /\ panel.restored # 0 => panel.selected \in {0, panel.restored})
  BY DEF EditorInv, Outcomes
<1>3. page' = page /\ CleanDraft'
  <2>1. page' = page BY DEF TimeOut, RestoreRefused
  <2> QED BY <1>2, <2>1 DEF CleanDraft
<1>4. CASE w.n = save.attempt
  <2>1. save' = [save EXCEPT !.status = "error"] /\ UNCHANGED <<page, panel, restore>>
    BY <1>4 DEF TimeOut
  <2>2. /\ save' \in [status : {"idle", "pending", "success", "error"},
                      attempt : 0..MaxSends, submitted : Texts]
        /\ save'.attempt = save.attempt /\ save'.submitted = save.submitted
    BY <2>1, StatusTyped, PartsTyped
  <2> QED BY <1>1, <1>2, <1>3, <2>1, <2>2, HeardKeeps, PartsTyped
<1>5. CASE w.n # save.attempt /\ w.n = restore.attempt
  <2>1. RestoreRefused("timeout") /\ save' = save BY <1>5 DEF TimeOut
  <2>2. /\ panel' \in [open : BOOLEAN, selected : 0..MaxVersion, confirming : BOOLEAN,
                       detail : {"none", "loading", "shown"}, attempted : 0..MaxVersion,
                       restored : 0..MaxVersion]
        /\ panel'.selected \in {0, panel.selected} /\ panel'.attempted = panel.attempted
        /\ panel'.open = panel.open
        /\ restore' \in [status : {"idle", "pending", "success", "error"},
                         attempt : 0..MaxSends, submitted : Texts]
        /\ restore'.status = "error" /\ restore'.attempt = restore.attempt
    BY <2>1, RefusalTyped
  <2>3. panel'.selected \in {0, panel'.attempted}
    <3>1. restore.status = "pending" BY <1>1, <1>5 DEF EditorInv, Outcomes
    <3> QED BY <1>2, <2>2, <3>1
  <2> QED BY <1>1, <1>2, <1>3, <1>5, <2>1, <2>2, <2>3, HeardKeeps, PartsTyped
<1>6. CASE w.n # save.attempt /\ w.n # restore.attempt
  <2>1. UNCHANGED <<page, panel, save, restore>> BY <1>6 DEF TimeOut
  <2> QED BY <1>1, <1>2, <1>3, <2>1, HeardKeeps, PartsTyped
<1> QED BY <1>4, <1>5, <1>6

-----------------------------------------------------------------------------
(* The server, and the colleagues.                                         *)

LEMMA WritingIsTyped ==
  ASSUME EditorInv, NEW text \in Texts, Write(text)
  PROVE  /\ row' \in Rows /\ row'.version = row.version + 1 /\ row'.text = text
         /\ row.version \in 0..MaxVersion /\ row'.version \in 0..MaxVersion
         /\ revisions' \subseteq Rows
<1>1. row.version \in 0..MaxVersion BY HeldVersions
<1>2. row.version + 1 \in 0..MaxVersion BY <1>1, EditorAssumption DEF Write
<1>3. row' = [version |-> row.version + 1, text |-> text] BY DEF Write
<1>4. row' \in Rows BY <1>2, <1>3 DEF Rows
<1>5. revisions' \subseteq Rows BY PartsTyped DEF Write
<1> QED BY <1>1, <1>2, <1>3, <1>4, <1>5

LEMMA ColleagueKeeps ==
  ASSUME EditorInv, NEW o \in Others, Colleague(o)
  PROVE  EditorInv'
<1>1. UNCHANGED <<cache, page, save, restore, wire, upload, panel>> BY DEF Colleague
<1>2. row.text \union {o} \in Texts BY PartsTyped DEF Texts, Rows
<1>3. /\ row' \in Rows /\ row'.version = row.version + 1 /\ row.version \in 0..MaxVersion
      /\ revisions' \subseteq Rows
  BY <1>2, WritingIsTyped DEF Colleague
<1>4. EditorTypeOK' BY <1>1, <1>3 DEF EditorInv, EditorTypeOK
<1>5. Attempts' /\ Submitted' /\ CleanDraft' /\ Outcomes'
  BY <1>1 DEF EditorInv, Attempts, Submitted, CleanDraft, Outcomes
<1>6. Versions'
  <2>1. cache.data # None => cache.data.version \in Nat /\ cache.data.version <= row.version
    BY HeldVersions, EditorAssumption
  <2>2. cache.read.version \in Nat /\ cache.read.version <= row.version
    BY PartsTyped, EditorAssumption DEF Rows, EditorInv, Versions
  <2>3. \A w \in wire : /\ w.expected \in Nat /\ w.got.version \in Nat
                        /\ w.expected <= row.version /\ w.got.version <= row.version
    BY PartsTyped, EditorAssumption DEF WriteRecords, Rows, EditorInv, Versions
  <2>4. row.version \in Nat BY <1>3, EditorAssumption
  <2>5. \A w \in wire : w.expected < row'.version BY <1>3, <2>3, <2>4
  <2> QED BY <1>1, <1>3, <2>1, <2>2, <2>3, <2>4, <2>5 DEF Versions
<1> QED BY <1>4, <1>5, <1>6 DEF EditorInv

\* What is served is of the same write, heard of or not.
LEMMA ServedKeeps ==
  ASSUME EditorInv, NEW w \in wire, NEW later \in WriteRecords, NEW v, Became(w, later, v),
         later.n = w.n, later.heard = w.heard, later.text = w.text, later.kind = w.kind,
         later.answer # "none",
         later.kind # "restore" /\ later.answer = "ok" => later.got.text = later.text,
         UNCHANGED <<cache, page, save, restore, upload, panel>>
  PROVE  Attempts' /\ Submitted' /\ CleanDraft' /\ Outcomes' /\ wire' \subseteq WriteRecords
<1>1. /\ Numbered(wire') /\ Cardinality(wire') = Cardinality(wire)
      /\ wire' \subseteq WriteRecords
      /\ \A u \in wire' : u # v => u \in wire /\ u # w /\ u.n # w.n
  BY BecomingNumbers
<1>2. ~v.heard => v = later BY DEF Became
<1>3. Attempts' BY <1>1 DEF EditorInv, Attempts
<1>4. Submitted'
  <2>1. ASSUME NEW u \in wire', u.n = save.attempt, ~u.heard PROVE u.text = save.submitted
    <3>1. CASE u = v BY <1>2, <2>1, <3>1 DEF EditorInv, Submitted
    <3>2. CASE u # v BY <1>1, <2>1, <3>2 DEF EditorInv, Submitted
    <3> QED BY <3>1, <3>2
  <2>2. ASSUME NEW u \in wire', u.kind # "restore", u.answer = "ok", ~u.heard
        PROVE  u.got.text = u.text
    <3>1. CASE u = v BY <1>2, <2>2, <3>1
    <3>2. CASE u # v BY <1>1, <2>2, <3>2 DEF EditorInv, Submitted
    <3> QED BY <3>1, <3>2
  <2> QED BY <2>1, <2>2 DEF Submitted
<1>5. CleanDraft' BY DEF EditorInv, CleanDraft
<1>6. Outcomes'
  <2>1. ASSUME NEW u \in wire', u.n = restore.attempt, ~u.heard PROVE restore.status = "pending"
    <3>1. CASE u = v BY <1>2, <2>1, <3>1 DEF EditorInv, Outcomes
    <3>2. CASE u # v BY <1>1, <2>1, <3>2 DEF EditorInv, Outcomes
    <3> QED BY <3>1, <3>2
  <2> QED BY <2>1 DEF EditorInv, Outcomes
<1> QED BY <1>1, <1>3, <1>4, <1>5, <1>6

LEMMA ServeKeeps ==
  ASSUME EditorInv, NEW w \in wire, Serve(w)
  PROVE  EditorInv'
<1>1. w \in WriteRecords /\ w.answer = "none" /\ UNCHANGED <<cache, page, save, restore, upload, panel>>
  BY PartsTyped DEF Serve
<1>2. CASE ~Accepts(w)
  <2>1. PICK a \in {"gone", "stale"} : Becomes(w, [w EXCEPT !.answer = a])
    BY <1>2 DEF Serve
  <2>2. UNCHANGED <<row, revisions>> BY <1>2 DEF Serve
  <2>3. PICK later : later = [w EXCEPT !.answer = a] OBVIOUS
  <2>4. later \in WriteRecords /\ later.answer = a /\ later.n = w.n /\ later.heard = w.heard
        /\ later.text = w.text /\ later.kind = w.kind
        /\ later.expected = w.expected /\ later.got = w.got
    BY <1>1, <2>3 DEF WriteRecords
  <2>5. PICK v : Became(w, later, v) BY <2>1, <2>3, <2>4, Becoming
  <2>6. Attempts' /\ Submitted' /\ CleanDraft' /\ Outcomes' /\ wire' \subseteq WriteRecords
    BY <1>1, <2>4, <2>5, ServedKeeps
  <2>7. EditorTypeOK' BY <1>1, <2>2, <2>6, PartsTyped DEF EditorTypeOK
  <2>8. \A u \in wire' : u # v => u \in wire BY <2>5, BecomingNumbers
  <2>9. v.answer = a /\ v.expected \in {w.expected, 0} /\ v.got \in {w.got, NoRow}
    BY <2>4, <2>5 DEF Became
  <2>10. \A u \in wire' : u.expected <= row.version /\ u.got.version <= row.version
    BY <2>8, <2>9, HeldVersions DEF EditorInv, Versions, NoRow
  <2>11. \A u, x \in wire' :
           x.n > u.n /\ x.answer = "ok" /\ u.answer = "none" => u \in wire /\ x \in wire
    BY <2>8, <2>9
  <2>12. Versions' BY <1>1, <2>2, <2>10, <2>11 DEF EditorInv, Versions
  <2> QED BY <2>6, <2>7, <2>12 DEF EditorInv
<1>3. CASE Accepts(w)
  <2>1. PICK text : /\ text = IF w.kind = "restore" THEN Revision(w.revision).text ELSE w.text
                    /\ Write(text)
    BY <1>3 DEF Serve
  <2>2. text \in Texts /\ (w.kind # "restore" => text = w.text)
    <3>1. CASE w.kind = "restore"
      <4>1. \E r \in revisions : r.version = w.revision BY <1>3, <3>1 DEF Accepts, Known
      <4>2. Revision(w.revision) \in revisions BY <4>1 DEF Revision
      <4> QED BY <2>1, <3>1, <4>2, PartsTyped DEF Rows
    <3>2. CASE w.kind # "restore" BY <1>1, <2>1, <3>2 DEF WriteRecords
    <3> QED BY <3>1, <3>2
  <2>3. /\ row' \in Rows /\ row'.version = row.version + 1 /\ row'.text = text
        /\ row.version \in 0..MaxVersion /\ revisions' \subseteq Rows
    BY <2>1, <2>2, WritingIsTyped
  <2>4. PICK got \in Rows : got = row' BY <2>3
  <2>5. PICK later : later = [w EXCEPT !.answer = "ok", !.got = got] OBVIOUS
  <2>6. Becomes(w, later) BY <1>3, <2>4, <2>5 DEF Serve
  <2>7. later \in WriteRecords /\ later.answer = "ok" /\ later.n = w.n /\ later.heard = w.heard
        /\ later.text = w.text /\ later.kind = w.kind
        /\ later.expected = w.expected /\ later.got = got
    BY <1>1, <2>5 DEF WriteRecords
  <2>8. PICK v : Became(w, later, v) BY <2>6, <2>7, Becoming
  <2>9. Attempts' /\ Submitted' /\ CleanDraft' /\ Outcomes' /\ wire' \subseteq WriteRecords
    BY <1>1, <2>2, <2>3, <2>4, <2>7, <2>8, ServedKeeps
  <2>10. EditorTypeOK' BY <1>1, <2>3, <2>9, PartsTyped DEF EditorTypeOK
  <2>11. Versions'
    <3>1. cache.data # None => cache.data.version \in Nat /\ cache.data.version <= row.version
      BY HeldVersions, EditorAssumption
    <3>2. cache.read.version \in Nat /\ cache.read.version <= row.version
      BY PartsTyped, EditorAssumption DEF Rows, EditorInv, Versions
    <3>3. \A u \in wire : /\ u.expected \in Nat /\ u.got.version \in Nat
                          /\ u.expected <= row.version /\ u.got.version <= row.version
      BY PartsTyped, EditorAssumption DEF WriteRecords, Rows, EditorInv, Versions
    <3>4. row.version \in Nat BY <2>3, EditorAssumption
    <3>5. \A u \in wire' : u # v => u \in wire BY <2>8, BecomingNumbers
    <3>6. v.expected \in {w.expected, 0} /\ v.got \in {got, NoRow}
      BY <2>7, <2>8 DEF Became
    <3>7. NoRow.version = 0 /\ got.version = row.version + 1 BY <2>3, <2>4 DEF NoRow
    <3>8. v.expected \in Nat /\ v.expected <= row.version BY <3>3, <3>4, <3>6
    <3>9. v.got.version <= row.version + 1 BY <3>4, <3>6, <3>7
    <3>10. \A u \in wire' : u.expected < row'.version /\ u.got.version <= row'.version
      BY <2>3, <3>3, <3>4, <3>5, <3>8, <3>9
    <3>11. \A u \in wire' : u.expected <= row'.version
      BY <2>3, <3>3, <3>4, <3>5, <3>8
    <3> QED BY <1>1, <2>3, <3>1, <3>2, <3>4, <3>10, <3>11 DEF Versions
  <2> QED BY <2>9, <2>10, <2>11 DEF EditorInv
<1> QED BY <1>2, <1>3

-----------------------------------------------------------------------------
(* The theorems.                                                           *)

LEMMA EditorKept ==
  ASSUME EditorInv, [EditorNext]_editorVars
  PROVE  EditorInv'
<1>1. CASE UNCHANGED editorVars
  BY <1>1 DEF editorVars, EditorInv, EditorTypeOK, Attempts, Submitted, Versions, CleanDraft, Outcomes
<1>2. CASE (\E e \in Edits : Type(e)) \/ OpenOrClosePicker \/ ChooseFile \/ UploadLands \/ UploadFails
  BY <1>2, TypingKeeps
<1>3. CASE OpenPanel \/ ClosePanel \/ (\E v \in 1..(row.version - 1) : Choose(v))
           \/ DetailAnswered \/ Confirm
  BY <1>3, HistoryKeeps
<1>4. CASE Refetch \/ FetchRead \/ FetchAnswered \/ FetchFails BY <1>4, FetchingKeeps
<1>5. CASE Navigate \/ Stay \/ Discard \/ Open BY <1>5, NavigationKeeps
<1>6. CASE Save BY <1>6, SavingKeeps DEF Save
<1>7. CASE SaveThenLeave
  <2>1. page' = [page EXCEPT !.leave = TRUE] /\ page.blocked /\ Enabled /\ OnSave
        /\ UNCHANGED <<row, revisions, cache, restore, upload, panel>>
    BY <1>7 DEF SaveThenLeave
  <2> QED BY <2>1, SavingKeeps
<1>8. CASE RestoreNow BY <1>8, RestoringKeeps
<1>9. ASSUME NEW w \in wire, SaveAnswered(w) \/ RestoreAnswered(w) \/ TimeOut(w) \/ Serve(w)
      PROVE  EditorInv'
  BY <1>9, SaveAnsweredKeeps, RestoreAnsweredKeeps, TimeOutKeeps, ServeKeeps
<1>10. ASSUME NEW o \in Others, Colleague(o) PROVE EditorInv' BY <1>10, ColleagueKeeps
<1> QED BY <1>1, <1>2, <1>3, <1>4, <1>5, <1>6, <1>7, <1>8, <1>9, <1>10 DEF EditorNext

EditorSpec == EditorInit /\ [][EditorNext]_editorVars

\* What the screen says of a save or a restore is so, and is said of that one: with
\* any changes, any number of versions and any number of writes under way
\* (content-editor.tsx onSave, revision-history.tsx).
THEOREM OutcomesAlwaysHold == EditorSpec => []OutcomesHold
<1>1. EditorInit => EditorInv BY EditorStarts
<1>2. EditorInv /\ [EditorNext]_editorVars => EditorInv' BY EditorKept
<1>3. EditorInv => OutcomesHold
  <2> SUFFICES ASSUME EditorInv PROVE OutcomesHold
    OBVIOUS
  <2>1. EditorTypeOK BY DEF EditorInv
  <2>2. SavedIsTrue
    BY DEF EditorInv, CleanDraft, SavedIsTrue, SavedShown, Rendered
  <2>3. OutcomeBelongs BY DEF EditorInv, Outcomes, OutcomeBelongs
  <2> QED BY <2>1, <2>2, <2>3 DEF OutcomesHold
<1> QED BY <1>1, <1>2, <1>3, PTL DEF EditorSpec

\* A screen with something typed on it is not left unasked; while it is there nothing
\* but a confirmed restore and the end of an upload takes typed text off it; and what
\* was stored is not undone by a write that arrives late (content-editor.tsx, api.ts).
THEOREM WorkIsAlwaysKept == EditorSpec => WorkIsKept
<1>1. EditorInit => EditorInv BY EditorStarts
<1>2. EditorInv /\ [EditorNext]_editorVars => EditorInv' BY EditorKept
<1>3. EditorInv /\ [EditorNext]_editorVars
        => [page.at # "left" /\ page'.at = "left" /\ ~Discard
              => \/ page.draft \in {None, page.seed}
                 \/ \E w \in wire : w.kind # "restore" /\ w.answer = "ok"
                                    /\ page.draft = w.got.text]_editorVars
  <2> SUFFICES ASSUME EditorInv, EditorNext, page.at # "left", page'.at = "left", ~Discard,
                      page.draft \notin {None, page.seed}
               PROVE  \E w \in wire : w.kind # "restore" /\ w.answer = "ok"
                                      /\ page.draft = w.got.text
    BY DEF editorVars
  <2>1. page.dirty BY DEF EditorInv, CleanDraft
  <2>2. \/ \E w \in wire : SaveAnswered(w)
        \/ page'.at \in {page.at, "edit"}
    <3>1. CASE Navigate BY <2>1, <3>1, PartsTyped DEF Navigate
    <3>2. CASE \E e \in Edits : Type(e) BY <3>2, PartsTyped DEF Type, Patch
    <3>3. CASE OpenOrClosePicker \/ ChooseFile \/ UploadFails
      BY <3>3 DEF OpenOrClosePicker, ChooseFile, UploadFails
    <3>4. CASE UploadLands BY <3>4, PartsTyped DEF UploadLands, Patch
    <3>5. CASE OpenPanel \/ ClosePanel \/ (\E v \in 1..(row.version - 1) : Choose(v))
               \/ DetailAnswered \/ Confirm
      BY <3>5 DEF OpenPanel, ClosePanel, Choose, DetailAnswered, Confirm
    <3>6. CASE Save \/ RestoreNow \/ Refetch \/ FetchRead \/ FetchFails
      BY <3>6 DEF Save, RestoreNow, Refetch, FetchRead, FetchFails
    <3>7. CASE FetchAnswered
      <4>1. page' = page \/ page' = Seed(page, cache.read) BY <3>7 DEF FetchAnswered, Seeded
      <4> QED BY <4>1, PartsTyped DEF Seed
    <3>8. CASE Stay \/ SaveThenLeave BY <3>8, PartsTyped DEF Stay, SaveThenLeave
    <3>9. CASE Open BY <3>9 DEF Open
    <3>10. ASSUME NEW w \in wire, RestoreAnswered(w) PROVE page'.at = page.at
      BY ZenonT(60), <3>10, PartsTyped DEF RestoreAnswered, Restored, RestoreRefused, Seed
    <3>11. ASSUME NEW w \in wire, TimeOut(w) \/ Serve(w) PROVE page' = page
      BY <3>11 DEF TimeOut, RestoreRefused, Serve
    <3>12. ASSUME NEW o \in Others, Colleague(o) PROVE page' = page BY <3>12 DEF Colleague
    <3> QED BY <3>1, <3>2, <3>3, <3>4, <3>5, <3>6, <3>7, <3>8, <3>9, <3>10, <3>11, <3>12
            DEF EditorNext
  <2>3. PICK w \in wire : SaveAnswered(w) BY <2>2
  <2>4. w.n = save.attempt /\ w.answer = "ok" /\ page.draft = save.submitted
    BY <2>3 DEF SaveAnswered, Saved
  <2>5. w.got.text = w.text /\ w.text = save.submitted
    BY <2>3, <2>4 DEF SaveAnswered, EditorInv, Submitted
  <2> QED BY <2>3, <2>4, <2>5 DEF SaveAnswered
<1>4. EditorInv
        => [\A w, later \in wire :
              later.n > w.n /\ later.answer = "ok" /\ w.answer = "none"
                => ~(Serve(w) /\ Accepts(w))]_editorVars
  <2> SUFFICES ASSUME EditorInv, NEW w \in wire, NEW later \in wire,
                      later.n > w.n, later.answer = "ok", w.answer = "none", Accepts(w)
               PROVE  FALSE
    OBVIOUS
  <2>1. w.expected < row.version BY DEF EditorInv, Versions
  <2>2. w.expected = row.version BY DEF Accepts
  <2> QED BY <2>1, <2>2, HeldVersions, EditorAssumption
<1>5. EditorInv /\ [EditorNext]_editorVars
        => [page.at # "left" /\ page.draft # None /\ page'.draft # None
              /\ ~(page.draft \subseteq page'.draft)
              => \/ UploadLands
                 \/ \E w \in wire : RestoreAnswered(w) /\ w.answer = "ok"]_editorVars
  <2> SUFFICES ASSUME EditorInv, EditorNext, page.at # "left", page.draft # None,
                      page'.draft # None, ~UploadLands,
                      ~(\E w \in wire : RestoreAnswered(w) /\ w.answer = "ok")
               PROVE  page.draft \subseteq page'.draft
    BY DEF editorVars
  <2>1. CASE Navigate BY <2>1, PartsTyped DEF Navigate, Left, FreshPage
  <2>2. ASSUME NEW e \in Edits, Type(e) PROVE page.draft \subseteq page'.draft
    BY <2>2, PartsTyped DEF Type, Patch
  <2>3. CASE OpenOrClosePicker \/ ChooseFile \/ UploadFails
    BY <2>3 DEF OpenOrClosePicker, ChooseFile, UploadFails
  <2>4. CASE OpenPanel \/ ClosePanel \/ (\E v \in 1..(row.version - 1) : Choose(v))
             \/ DetailAnswered \/ Confirm
    BY <2>4 DEF OpenPanel, ClosePanel, Choose, DetailAnswered, Confirm
  <2>5. CASE Save \/ RestoreNow \/ Refetch \/ FetchRead \/ FetchFails
    BY <2>5 DEF Save, RestoreNow, Refetch, FetchRead, FetchFails
  <2>6. CASE FetchAnswered BY <2>6 DEF FetchAnswered, Seeded
  <2>7. CASE Stay \/ SaveThenLeave BY <2>7, PartsTyped DEF Stay, SaveThenLeave
  <2>8. CASE Discard BY <2>8, PartsTyped DEF Discard, Left, FreshPage
  <2>9. CASE Open BY <2>9 DEF Open
  <2>10. ASSUME NEW w \in wire, RestoreAnswered(w) PROVE page' = page
    BY <2>10 DEF RestoreAnswered, RestoreRefused
  <2>11. ASSUME NEW w \in wire, TimeOut(w) \/ Serve(w) PROVE page' = page
    BY <2>11 DEF TimeOut, RestoreRefused, Serve
  <2>12. ASSUME NEW o \in Others, Colleague(o) PROVE page' = page BY <2>12 DEF Colleague
  <2>13. ASSUME NEW w \in wire, SaveAnswered(w) PROVE page.draft \subseteq page'.draft
    <3>1. CASE page' = page BY <3>1
    <3>2. CASE page' # page
      <4>1. w.n = save.attempt /\ w.answer = "ok" /\ page.draft = save.submitted /\ Saved(w.got)
        BY <2>13, <3>2 DEF SaveAnswered, Saved
      <4>2. w.got.text = w.text /\ w.text = save.submitted
        BY <2>13, <4>1 DEF SaveAnswered, EditorInv, Submitted
      <4>3. CASE page' = Seed(FreshPage("edit"), w.got)
        <5>1. page'.draft = w.got.text BY <4>3 DEF Seed, FreshPage
        <5> QED BY <4>1, <4>2, <5>1
      <4>4. CASE Left BY <4>4 DEF Left, FreshPage
      <4>5. CASE page' = [page EXCEPT !.dirty = FALSE, !.seed = w.got.text]
        BY <4>5, PartsTyped
      <4> QED BY <3>2, <4>1, <4>3, <4>4, <4>5 DEF Saved
    <3> QED BY <3>1, <3>2
  <2> QED BY <2>1, <2>2, <2>3, <2>4, <2>5, <2>6, <2>7, <2>8, <2>9, <2>10, <2>11, <2>12, <2>13
          DEF EditorNext
<1> QED BY <1>1, <1>2, <1>3, <1>4, <1>5, PTL
        DEF EditorSpec, WorkIsKept, NothingLeftBehind, TypedStays, LateWritesLose

-----------------------------------------------------------------------------
(* Induction over numbers and over sequences, for a set.                   *)

LEMMA LeastNatural ==
  ASSUME NEW S \in SUBSET Nat, S # {}
  PROVE  \E n \in S : \A m \in S : n <= m
<1> DEFINE Below == {p \in Nat \X Nat : p[1] < p[2]}
<1>1. IsWellFoundedOn(Below, Nat)
  BY NatLessThanWellFounded DEF OpToRel
<1>2. \A m, n \in Nat : m < n => <<m, n>> \in Below
  OBVIOUS
<1> HIDE DEF Below
<1>3. PICK n \in S : \A m \in S : ~(<<m, n>> \in Below)
  BY <1>1, WFMin
<1>4. \A m \in S : ~(m < n)
  BY <1>2, <1>3
<1> QED
  BY <1>4

LEMMA EveryNatural ==
  ASSUME NEW S, 0 \in S, \A n \in Nat : n \in S => n + 1 \in S
  PROVE  Nat \subseteq S
<1> DEFINE Out == {n \in Nat : n \notin S}
<1>1. ASSUME Out # {} PROVE FALSE
  <2>1. PICK n \in Out : \A m \in Out : n <= m
    BY <1>1, LeastNatural
  <2>2. n \in Nat /\ n # 0 /\ n - 1 \in Nat /\ n - 1 \notin Out /\ (n - 1) + 1 = n
    BY <2>1
  <2> QED
    BY <2>1, <2>2
<1> QED
  BY <1>1

LEMMA EverySequence ==
  ASSUME NEW A, NEW S, <<>> \in S,
         \A s \in Seq(A), a \in A : s \in S => Append(s, a) \in S
  PROVE  Seq(A) \subseteq S
<1> DEFINE T == {n \in Nat : \A s \in Seq(A) : Len(s) = n => s \in S}
<1>1. 0 \in T
  BY EmptySeq
<1>2. ASSUME NEW n \in Nat, n \in T PROVE n + 1 \in T
  <2> SUFFICES ASSUME NEW s \in Seq(A), Len(s) = n + 1 PROVE s \in S
    OBVIOUS
  <2>1. s # <<>>
    BY EmptySeq
  <2>2. PICK r \in Seq(A), a \in A : s = Append(r, a)
    BY <2>1, SequenceEmptyOrAppend
  <2>3. Len(r) = n
    BY <2>2
  <2> QED
    BY <1>2, <2>2, <2>3
<1> HIDE DEF T
<1>3. Nat \subseteq T
  BY <1>1, <1>2, EveryNatural
<1> QED
  BY <1>3 DEF T

-----------------------------------------------------------------------------
(* Folding.                                                                *)

LEMMA GreatestOf ==
  ASSUME NEW k \in Nat, NEW x \in SUBSET (1..k), x # {}
  PROVE  /\ Max(x) \in x /\ \A y \in x : Max(x) >= y
         /\ x \ {Max(x)} \in SUBSET (1..(k - 1))
<1> DEFINE Above == {n \in Nat : \A y \in x : n >= y}
<1>1. k \in Above
  OBVIOUS
<1>2. PICK n \in Above : \A m \in Above : n <= m
  BY <1>1, LeastNatural
<1>3. n \in x
  <2>1. ASSUME n \notin x PROVE FALSE
    <3>1. \A y \in x : y \in Nat /\ y >= 1 /\ y <= n /\ y # n
      BY <1>2, <2>1
    <3>2. PICK z \in x : TRUE
      OBVIOUS
    <3>3. n - 1 \in Nat /\ \A y \in x : n - 1 >= y
      BY <1>2, <3>1, <3>2
    <3> QED
      BY <1>2, <3>3
  <2> QED
    BY <2>1
<1>4. Max(x) \in x /\ \A y \in x : Max(x) >= y
  BY <1>2, <1>3 DEF Max
<1>5. ASSUME NEW y \in x, y # Max(x) PROVE y \in 1..(k - 1)
  <2>1. PICK m : m = Max(x)
    OBVIOUS
  <2>2. y \in 1..k /\ m \in 1..k /\ m >= y /\ m # y
    BY <1>4, <1>5, <2>1
  <2> QED
    BY <2>2
<1> QED
  BY <1>4, <1>5

LEMMA GreatestOfSegment ==
  ASSUME NEW k \in Nat
  PROVE  /\ 1..(k + 1) # {} /\ Max(1..(k + 1)) = k + 1
         /\ (1..(k + 1)) \ {k + 1} = 1..k
<1>1. 1..(k + 1) # {} /\ k + 1 \in 1..(k + 1)
  OBVIOUS
<1>2. Max(1..(k + 1)) \in 1..(k + 1) /\ \A y \in 1..(k + 1) : Max(1..(k + 1)) >= y
  BY <1>1, k + 1 \in Nat, 1..(k + 1) \in SUBSET (1..(k + 1)), GreatestOf
<1>3. Max(1..(k + 1)) = k + 1
  BY <1>1, <1>2
<1> QED
  BY <1>1, <1>3

FoldOn(g, k, s, base, up) ==
  \A x \in SUBSET (1..k) :
    g[x] = IF x = {} THEN base ELSE up[<<g[x \ {Max(x)}], s[Max(x)]>>]

LEMMA FoldExists ==
  ASSUME NEW A, NEW D, NEW base \in A, NEW up \in [A \X D -> A], NEW s \in Seq(D)
  PROVE  \E g \in [SUBSET (DOMAIN s) -> A] : FoldOn(g, Len(s), s, base, up)
<1>0. Len(s) \in Nat /\ DOMAIN s = 1..Len(s)
  BY LenProperties
<1> DEFINE Found(k) == \E g \in [SUBSET (1..k) -> A] : FoldOn(g, k, s, base, up)
           S == {k \in Nat : k <= Len(s) => Found(k)}
<1>1. 0 \in S
  <2> DEFINE g == [x \in SUBSET (1..0) |-> base]
  <2>1. g \in [SUBSET (1..0) -> A] /\ \A x \in SUBSET (1..0) : x = {}
    OBVIOUS
  <2>2. FoldOn(g, 0, s, base, up)
    BY <2>1 DEF FoldOn
  <2> HIDE DEF g
  <2>3. Found(0)
    BY <2>1, <2>2
  <2> HIDE DEF Found
  <2> QED
    BY <2>3
<1>2. ASSUME NEW k \in Nat, k \in S PROVE k + 1 \in S
  <2>s. SUFFICES ASSUME k + 1 <= Len(s) PROVE Found(k + 1)
    <3> HIDE DEF Found
    <3> QED
      OBVIOUS
  <2>0. Found(k)
    <3> HIDE DEF Found
    <3> QED
      BY <1>0, <1>2, <2>s
  <2>1. PICK g \in [SUBSET (1..k) -> A] : FoldOn(g, k, s, base, up)
    BY <2>0
  <2> DEFINE h == [x \in SUBSET (1..(k + 1)) |->
                     IF x = {} THEN base ELSE up[<<g[x \ {Max(x)}], s[Max(x)]>>]]
  <2>2. ASSUME NEW x \in SUBSET (1..(k + 1)), x # {}
        PROVE  x \ {Max(x)} \in SUBSET (1..k) /\ Max(x) \in 1..Len(s)
    <3>1. /\ Max(x) \in x /\ x \ {Max(x)} \in SUBSET (1..((k + 1) - 1))
      BY <2>2, k + 1 \in Nat, GreatestOf
    <3>2. (k + 1) - 1 = k /\ \A n \in 1..(k + 1) : n \in 1..Len(s)
      BY <1>0, <2>s
    <3>3. PICK m : m = Max(x)
      OBVIOUS
    <3> HIDE DEF h
    <3> QED
      BY <3>1, <3>2, <3>3
  <2>3. h \in [SUBSET (1..(k + 1)) -> A]
    <3> SUFFICES ASSUME NEW x \in SUBSET (1..(k + 1)), x # {}
                 PROVE  up[<<g[x \ {Max(x)}], s[Max(x)]>>] \in A
      OBVIOUS
    <3>1. g[x \ {Max(x)}] \in A /\ s[Max(x)] \in D
      BY <2>2, ElementOfSeq
    <3> QED
      BY <3>1
  <2>4. ASSUME NEW y \in SUBSET (1..k) PROVE h[y] = g[y]
    <3>1. y \in SUBSET (1..(k + 1))
      OBVIOUS
    <3> QED
      BY <2>1, <3>1 DEF FoldOn
  <2>5. ASSUME NEW x \in SUBSET (1..(k + 1))
        PROVE  h[x] = IF x = {} THEN base ELSE up[<<h[x \ {Max(x)}], s[Max(x)]>>]
    <3>1. CASE x = {}
      BY <3>1
    <3>2. CASE x # {}
      <4>1. h[x \ {Max(x)}] = g[x \ {Max(x)}]
        BY <2>2, <2>4, <3>2
      <4>2. h[x] = up[<<g[x \ {Max(x)}], s[Max(x)]>>]
        BY <3>2
      <4> HIDE DEF h
      <4> QED
        BY <3>2, <4>1, <4>2
    <3> QED
      BY <3>1, <3>2
  <2>6. FoldOn(h, k + 1, s, base, up)
    BY <2>5 DEF FoldOn
  <2> HIDE DEF h
  <2> QED
    BY <2>3, <2>6
<1> HIDE DEF S
<1>3. Nat \subseteq S
  BY <1>1, <1>2, EveryNatural
<1>4. Found(Len(s))
  <2> HIDE DEF Found
  <2> QED
    BY <1>0, <1>3 DEF S
<1> QED
  BY <1>0, <1>4

(* A fold takes one element after the other. *)
InTurn(g, s, base, up) ==
  /\ g[1..0] = base
  /\ \A k \in Nat : k < Len(s) => g[1..(k + 1)] = up[<<g[1..k], s[k + 1]>>]

LEMMA FoldSegments ==
  ASSUME NEW A, NEW D, NEW base \in A, NEW up \in [A \X D -> A], NEW s \in Seq(D),
         NEW g, FoldOn(g, Len(s), s, base, up)
  PROVE  InTurn(g, s, base, up)
<1>1. Len(s) \in Nat
  BY LenProperties
<1>2. 1..0 \in SUBSET (1..Len(s)) /\ 1..0 = {}
  OBVIOUS
<1>3. g[1..0] = base
  BY <1>2 DEF FoldOn
<1>4. ASSUME NEW k \in Nat, k < Len(s) PROVE g[1..(k + 1)] = up[<<g[1..k], s[k + 1]>>]
  <2>1. 1..(k + 1) \in SUBSET (1..Len(s))
    BY <1>1, <1>4
  <2>2. 1..(k + 1) # {} /\ Max(1..(k + 1)) = k + 1 /\ (1..(k + 1)) \ {k + 1} = 1..k
    BY GreatestOfSegment
  <2> QED
    BY <2>1, <2>2 DEF FoldOn
<1> QED
  BY <1>3, <1>4 DEF InTurn

FoldsTo(g, s, base, up) == FoldOn(g, Len(s), s, base, up)

Follows(h, g, n, d, up) == h[1..(n + 1)] = up[<<g[1..n], d>>]

LEMMA FoldsAgree ==
  ASSUME NEW A, NEW D, NEW base \in A, NEW up \in [A \X D -> A], NEW s \in Seq(D),
         NEW d \in D, NEW g, FoldsTo(g, s, base, up),
         NEW h, FoldsTo(h, Append(s, d), base, up)
  PROVE  Follows(h, g, Len(s), d, up)
<1>0. Len(s) \in Nat
  BY LenProperties
<1>1. /\ Append(s, d) \in Seq(D) /\ Len(Append(s, d)) = Len(s) + 1
      /\ \A i \in 1..Len(s) : Append(s, d)[i] = s[i]
      /\ Append(s, d)[Len(s) + 1] = d
  BY AppendProperties
<1>2. /\ g[1..0] = base
      /\ \A k \in Nat : k < Len(s) => g[1..(k + 1)] = up[<<g[1..k], s[k + 1]>>]
  <2>1. InTurn(g, s, base, up)
    BY FoldSegments DEF FoldsTo
  <2> QED
    BY <2>1 DEF InTurn
<1>3. /\ h[1..0] = base
      /\ \A k \in Nat : k < Len(s) + 1 => h[1..(k + 1)] = up[<<h[1..k], Append(s, d)[k + 1]>>]
  <2>1. InTurn(h, Append(s, d), base, up)
    <3>1. FoldOn(h, Len(Append(s, d)), Append(s, d), base, up)
      BY DEF FoldsTo
    <3> QED
      BY <1>1, <3>1, FoldSegments
  <2> QED
    BY <1>1, <2>1 DEF InTurn
<1> DEFINE S == {k \in Nat : k <= Len(s) => g[1..k] = h[1..k]}
<1>4. 0 \in S
  BY <1>2, <1>3
<1>5. ASSUME NEW k \in Nat, k \in S PROVE k + 1 \in S
  <2> SUFFICES ASSUME k + 1 <= Len(s) PROVE g[1..(k + 1)] = h[1..(k + 1)]
    OBVIOUS
  <2>1. k < Len(s) /\ k < Len(s) + 1 /\ k + 1 \in 1..Len(s)
    BY <1>0
  <2>2. g[1..k] = h[1..k]
    BY <1>0, <1>5
  <2> QED
    BY <1>1, <1>2, <1>3, <2>1, <2>2
<1> HIDE DEF S
<1>6. Nat \subseteq S
  BY <1>4, <1>5, EveryNatural
<1>7. g[1..Len(s)] = h[1..Len(s)]
  BY <1>0, <1>6 DEF S
<1> QED
  BY <1>0, <1>1, <1>3, <1>7 DEF Follows

-----------------------------------------------------------------------------
(* Sequences of sequences, end to end.                                     *)

FlattenAll(s) ==
  CHOOSE f : f = [i \in 1..Len(s) |-> IF i = 1 THEN s[i] ELSE f[i - 1] \o s[i]]

LEMMA FlattenIs == \A s : FlattenSeq(s) = IF Len(s) = 0 THEN s ELSE FlattenAll(s)[Len(s)]
BY DEF FlattenSeq, FlattenAll

LEMMA FlattenDefined ==
  ASSUME NEW A, NEW s \in Seq(Seq(A))
  PROVE  \A i \in 1..Len(s) :
           FlattenAll(s)[i] = IF i = 1 THEN s[i] ELSE FlattenAll(s)[i - 1] \o s[i]
<1>0. Len(s) \in Nat
  BY LenProperties
<1> DEFINE Right(f, k) == \A i \in 1..k : f[i] = IF i = 1 THEN s[i] ELSE f[i - 1] \o s[i]
           Found(k) == \E f : f = [i \in 1..k |-> IF i = 1 THEN s[i] ELSE f[i - 1] \o s[i]]
           S == {k \in Nat : Found(k)}
<1>1. 0 \in S
  <2>1. [i \in 1..0 |-> i] = [i \in 1..0 |-> IF i = 1 THEN s[i] ELSE [j \in 1..0 |-> j][i - 1] \o s[i]]
    OBVIOUS
  <2>2. Found(0)
    BY <2>1
  <2> HIDE DEF Found
  <2> QED
    BY <2>2
<1>2. ASSUME NEW k \in Nat, k \in S PROVE k + 1 \in S
  <2>1. PICK f : f = [i \in 1..k |-> IF i = 1 THEN s[i] ELSE f[i - 1] \o s[i]]
    BY <1>2
  <2> DEFINE g == [i \in 1..(k + 1) |-> IF i = 1 THEN s[i] ELSE f[i - 1] \o s[i]]
  <2>2. ASSUME NEW i \in 1..(k + 1), i # 1 PROVE g[i - 1] = f[i - 1]
    <3>1. i - 1 \in 1..k /\ i - 1 \in 1..(k + 1)
      BY <2>2
    <3>2. f[i - 1] = IF i - 1 = 1 THEN s[i - 1] ELSE f[(i - 1) - 1] \o s[i - 1]
      <4> HIDE DEF g
      <4> QED
        BY <2>1, <3>1
    <3>3. g[i - 1] = IF i - 1 = 1 THEN s[i - 1] ELSE f[(i - 1) - 1] \o s[i - 1]
      BY <3>1
    <3> QED
      BY <3>2, <3>3
  <2>3. g = [i \in 1..(k + 1) |-> IF i = 1 THEN s[i] ELSE g[i - 1] \o s[i]]
    BY <2>2
  <2>4. Found(k + 1)
    BY <2>3
  <2> HIDE DEF Found
  <2> QED
    BY <2>4
<1> HIDE DEF S
<1>3. Nat \subseteq S
  BY <1>1, <1>2, EveryNatural
<1>4. Found(Len(s))
  BY <1>0, <1>3 DEF S
<1>5. FlattenAll(s) = [i \in 1..Len(s) |-> IF i = 1 THEN s[i] ELSE FlattenAll(s)[i - 1] \o s[i]]
  BY <1>4 DEF FlattenAll
<1> DEFINE F == FlattenAll(s)
           Next(f) == [i \in 1..Len(s) |-> IF i = 1 THEN s[i] ELSE f[i - 1] \o s[i]]
<1>6. F = Next(F)
  BY <1>5
<1>7. \A i \in 1..Len(s) : Next(F)[i] = IF i = 1 THEN s[i] ELSE F[i - 1] \o s[i]
  <2> HIDE DEF F
  <2> QED
    OBVIOUS
<1> HIDE DEF Next, F
<1>8. \A i \in 1..Len(s) : F[i] = IF i = 1 THEN s[i] ELSE F[i - 1] \o s[i]
  BY <1>6, <1>7
<1> QED
  BY <1>8 DEF F

LEMMA FlattenTyped ==
  ASSUME NEW A, NEW s \in Seq(Seq(A))
  PROVE  /\ \A i \in 1..Len(s) : FlattenAll(s)[i] \in Seq(A)
         /\ FlattenSeq(s) \in Seq(A)
<1>0. Len(s) \in Nat /\ \A i \in 1..Len(s) : s[i] \in Seq(A)
  BY LenProperties, ElementOfSeq
<1> DEFINE S == {k \in Nat : k + 1 <= Len(s) => FlattenAll(s)[k + 1] \in Seq(A)}
<1>1. 0 \in S
  <2>1. ASSUME 1 <= Len(s) PROVE FlattenAll(s)[1] \in Seq(A)
    <3>1. 1 \in 1..Len(s)
      BY <1>0, <2>1
    <3>2. FlattenAll(s)[1] = s[1]
      BY <3>1, FlattenDefined
    <3> QED
      BY <1>0, <3>1, <3>2
  <2> QED
    BY <2>1
<1>2. ASSUME NEW k \in Nat, k \in S PROVE k + 1 \in S
  <2> SUFFICES ASSUME (k + 1) + 1 <= Len(s) PROVE FlattenAll(s)[(k + 1) + 1] \in Seq(A)
    OBVIOUS
  <2>1. (k + 1) + 1 \in 1..Len(s) /\ (k + 1) + 1 # 1 /\ ((k + 1) + 1) - 1 = k + 1 /\ k + 1 <= Len(s)
    BY <1>0
  <2>2. FlattenAll(s)[k + 1] \in Seq(A)
    BY <1>2, <2>1
  <2>3. FlattenAll(s)[(k + 1) + 1] = FlattenAll(s)[k + 1] \o s[(k + 1) + 1]
    BY <2>1, FlattenDefined
  <2>4. s[(k + 1) + 1] \in Seq(A)
    BY <1>0, <2>1
  <2> QED
    BY <2>2, <2>3, <2>4, ConcatProperties
<1> HIDE DEF S
<1>3. Nat \subseteq S
  BY <1>1, <1>2, EveryNatural
<1>4. ASSUME NEW i \in 1..Len(s) PROVE FlattenAll(s)[i] \in Seq(A)
  <2>1. i - 1 \in S /\ (i - 1) + 1 = i /\ i <= Len(s)
    BY <1>0, <1>3
  <2> QED
    BY <2>1 DEF S
<1>5. CASE Len(s) = 0
  <2>1. s = <<>>
    BY <1>5, EmptySeq
  <2>2. FlattenSeq(s) = <<>>
    BY <1>5, <2>1, FlattenIs
  <2> QED
    BY <1>4, <2>2, EmptySeq
<1>6. CASE Len(s) # 0
  BY <1>0, <1>4, <1>6, FlattenIs
<1> QED
  BY <1>4, <1>5, <1>6

LEMMA FlattenedTyped ==
  ASSUME NEW A, NEW s \in Seq(Seq(A))
  PROVE  FlattenSeq(s) \in Seq(A)
BY FlattenTyped

LEMMA FlattenAppends ==
  ASSUME NEW A, NEW s \in Seq(Seq(A)), NEW x \in Seq(A)
  PROVE  FlattenSeq(Append(s, x)) = FlattenSeq(s) \o x
<1> DEFINE t == Append(s, x)
<1>0. /\ Len(s) \in Nat
      /\ t \in Seq(Seq(A)) /\ Len(t) = Len(s) + 1 /\ t[Len(s) + 1] = x
      /\ \A i \in 1..Len(s) : t[i] = s[i]
  BY LenProperties, AppendProperties
<1> HIDE DEF t
<1> DEFINE S == {k \in Nat : k + 1 <= Len(s) => FlattenAll(t)[k + 1] = FlattenAll(s)[k + 1]}
<1>1. 0 \in S
  BY <1>0, FlattenDefined
<1>2. ASSUME NEW k \in Nat, k \in S PROVE k + 1 \in S
  <2> SUFFICES ASSUME (k + 1) + 1 <= Len(s)
               PROVE  FlattenAll(t)[(k + 1) + 1] = FlattenAll(s)[(k + 1) + 1]
    OBVIOUS
  <2>1. /\ (k + 1) + 1 \in 1..Len(s) /\ (k + 1) + 1 \in 1..Len(t) /\ (k + 1) + 1 # 1
        /\ ((k + 1) + 1) - 1 = k + 1 /\ k + 1 <= Len(s)
    BY <1>0
  <2>2. FlattenAll(s)[k + 1] = FlattenAll(t)[k + 1]
    BY <1>2, <2>1
  <2>3. FlattenAll(s)[(k + 1) + 1] = FlattenAll(s)[k + 1] \o s[(k + 1) + 1]
    BY <2>1, FlattenDefined
  <2>4. FlattenAll(t)[(k + 1) + 1] = FlattenAll(t)[k + 1] \o t[(k + 1) + 1]
    BY <1>0, <2>1, FlattenDefined
  <2> QED
    BY <1>0, <2>1, <2>2, <2>3, <2>4
<1> HIDE DEF S
<1>3. Nat \subseteq S
  BY <1>1, <1>2, EveryNatural
<1>4. FlattenSeq(t) = FlattenAll(t)[Len(t)]
  BY <1>0, FlattenIs
<1>5. CASE Len(s) = 0
  <2>1. s = <<>> /\ FlattenSeq(s) = <<>>
    BY <1>5, FlattenIs, EmptySeq
  <2>2. FlattenAll(t)[1] = t[1]
    <3>1. 1 \in 1..Len(t)
      BY <1>0, <1>5
    <3> QED
      BY <1>0, <3>1, FlattenDefined
  <2>3. FlattenSeq(t) = x
    BY <1>0, <1>4, <1>5, <2>2
  <2> QED
    BY <2>1, <2>3, ConcatEmptySeq DEF t
<1>6. CASE Len(s) # 0
  <2>1. Len(s) - 1 \in S /\ (Len(s) - 1) + 1 = Len(s) /\ Len(s) <= Len(s)
    BY <1>0, <1>3, <1>6
  <2>2. FlattenAll(t)[Len(s)] = FlattenAll(s)[Len(s)]
    BY <2>1 DEF S
  <2>3. Len(t) \in 1..Len(t) /\ Len(t) # 1 /\ Len(t) - 1 = Len(s)
    BY <1>0, <1>6
  <2>4. FlattenAll(t)[Len(t)] = FlattenAll(t)[Len(s)] \o t[Len(t)]
    BY <1>0, <2>3, FlattenDefined
  <2> QED
    BY <1>0, <1>4, <1>6, <2>2, <2>4, FlattenIs DEF t
<1> QED
  BY <1>5, <1>6

LEMMA FlattenNothing == FlattenSeq(<<>>) = <<>>
<1>1. Len(<<>>) = 0
  BY EmptySeq
<1> QED
  BY <1>1, FlattenIs

LEMMA FlattenConcatenates ==
  ASSUME NEW A, NEW s \in Seq(Seq(A)), NEW t \in Seq(Seq(A))
  PROVE  FlattenSeq(s \o t) = FlattenSeq(s) \o FlattenSeq(t)
<1> DEFINE S == {u \in Seq(Seq(A)) : FlattenSeq(s \o u) = FlattenSeq(s) \o FlattenSeq(u)}
<1>1. <<>> \in S
  <2>1. s \o <<>> = s /\ FlattenSeq(s) \o <<>> = FlattenSeq(s)
    BY ConcatEmptySeq, FlattenedTyped
  <2>2. <<>> \in Seq(Seq(A)) /\ FlattenSeq(<<>>) = <<>>
    BY FlattenNothing, EmptySeq
  <2> QED
    BY <2>1, <2>2
<1>2. ASSUME NEW u \in Seq(Seq(A)), NEW x \in Seq(A), u \in S PROVE Append(u, x) \in S
  <2>1. s \o Append(u, x) = Append(s \o u, x) /\ s \o u \in Seq(Seq(A)) /\ Append(u, x) \in Seq(Seq(A))
    OBVIOUS
  <2>2. FlattenSeq(Append(s \o u, x)) = FlattenSeq(s \o u) \o x
    BY <2>1, FlattenAppends
  <2>3. FlattenSeq(Append(u, x)) = FlattenSeq(u) \o x
    BY FlattenAppends
  <2>4. (FlattenSeq(s) \o FlattenSeq(u)) \o x = FlattenSeq(s) \o (FlattenSeq(u) \o x)
    <3>1. PICK p \in Seq(A), q \in Seq(A) : p = FlattenSeq(s) /\ q = FlattenSeq(u)
      BY FlattenedTyped
    <3> HIDE DEF S
    <3>2. (p \o q) \o x = p \o (q \o x)
      BY ConcatAssociative
    <3> QED
      BY <3>1, <3>2
  <2> QED
    BY <1>2, <2>1, <2>2, <2>3, <2>4
<1> HIDE DEF S
<1>3. Seq(Seq(A)) \subseteq S
  BY <1>1, <1>2, EverySequence
<1> QED
  BY <1>3 DEF S

-----------------------------------------------------------------------------
(* Text, and text with its marks.                                          *)

Marking == Marks \cup {Plain}
Nodes   == [text : Seq(Characters), marks : Marking]

MarkedNode(node) == [i \in DOMAIN node.text |-> <<node.text[i], node.marks>>]

LEMMA OneLonger ==
  ASSUME NEW E, NEW n \in Nat, NEW f \in [1..n -> E], NEW g \in [1..(n + 1) -> E],
         \A i \in 1..n : g[i] = f[i]
  PROVE  g = Append(f, g[n + 1])
<1>1. f \in Seq(E) /\ g \in Seq(E) /\ Len(f) = n /\ Len(g) = n + 1
  OBVIOUS
<1>2. PICK e \in E : e = g[n + 1]
  OBVIOUS
<1>3. /\ Append(f, e) \in Seq(E) /\ Len(Append(f, e)) = n + 1
      /\ \A i \in 1..n : Append(f, e)[i] = f[i]
      /\ Append(f, e)[n + 1] = e
  BY <1>1, AppendProperties
<1>4. \A i \in 1..(n + 1) : g[i] = Append(f, e)[i]
  BY <1>2, <1>3
<1>5. g = Append(f, e)
  BY <1>1, <1>3, <1>4, SeqEqual
<1> QED
  BY <1>2, <1>5

LEMMA MarkedNodeTyped ==
  ASSUME NEW node \in Nodes
  PROVE  /\ MarkedNode(node) \in Seq(Characters \X Marking)
         /\ Len(MarkedNode(node)) = Len(node.text)
         /\ \A i \in 1..Len(node.text) : MarkedNode(node)[i] = <<node.text[i], node.marks>>
<1>1. node.text \in Seq(Characters) /\ node.marks \in Marking
  BY DEF Nodes
<1>2. Len(node.text) \in Nat /\ DOMAIN node.text = 1..Len(node.text)
  BY <1>1, LenProperties
<1>3. \A i \in 1..Len(node.text) : node.text[i] \in Characters
  BY <1>1, ElementOfSeq
<1>4. MarkedNode(node) \in [1..Len(node.text) -> Characters \X Marking]
  BY <1>1, <1>2, <1>3 DEF MarkedNode
<1>5. \A i \in 1..Len(node.text) : MarkedNode(node)[i] = <<node.text[i], node.marks>>
  BY <1>2 DEF MarkedNode
<1> HIDE DEF MarkedNode
<1> QED
  BY <1>2, <1>4, <1>5

LEMMA FunctionIsSeq ==
  ASSUME NEW E, NEW n \in Nat, NEW f \in [1..n -> E]
  PROVE  f \in Seq(E) /\ Len(f) = n
OBVIOUS

TextsOf(run)  == [k \in DOMAIN run |-> run[k].text]
MarkedsOf(run) == [k \in DOMAIN run |-> MarkedNode(run[k])]

LEMMA TextFlattens == \A run : TextOf(run) = FlattenSeq(TextsOf(run))
BY DEF TextOf, TextsOf

LEMMA MarkedFlattens == \A run : Marked(run) = FlattenSeq(MarkedsOf(run))
BY DEF Marked, MarkedsOf, MarkedNode

LEMMA TextsTyped ==
  ASSUME NEW run \in Seq(Nodes)
  PROVE  /\ TextsOf(run) \in [1..Len(run) -> Seq(Characters)]
         /\ TextsOf(run) \in Seq(Seq(Characters))
         /\ MarkedsOf(run) \in [1..Len(run) -> Seq(Characters \X Marking)]
         /\ MarkedsOf(run) \in Seq(Seq(Characters \X Marking))
<1>1. Len(run) \in Nat /\ DOMAIN run = 1..Len(run) /\ \A k \in 1..Len(run) : run[k] \in Nodes
  BY LenProperties, ElementOfSeq
<1>2. \A k \in 1..Len(run) :
        run[k].text \in Seq(Characters) /\ MarkedNode(run[k]) \in Seq(Characters \X Marking)
  BY <1>1, MarkedNodeTyped DEF Nodes
<1>3. TextsOf(run) \in [1..Len(run) -> Seq(Characters)]
  BY <1>1, <1>2 DEF TextsOf
<1>4. MarkedsOf(run) \in [1..Len(run) -> Seq(Characters \X Marking)]
  BY <1>1, <1>2 DEF MarkedsOf
<1>5. TextsOf(run) \in Seq(Seq(Characters)) /\ MarkedsOf(run) \in Seq(Seq(Characters \X Marking))
  BY <1>1, <1>3, <1>4, FunctionIsSeq
<1> QED
  BY <1>3, <1>4, <1>5

LEMMA TextAppends ==
  ASSUME NEW run \in Seq(Nodes), NEW node \in Nodes
  PROVE  /\ TextOf(Append(run, node)) = TextOf(run) \o node.text
         /\ Marked(Append(run, node)) = Marked(run) \o MarkedNode(node)
<1> DEFINE more == Append(run, node)
<1>1. Len(run) \in Nat /\ DOMAIN run = 1..Len(run)
  BY LenProperties
<1>2. /\ more \in Seq(Nodes) /\ Len(more) = Len(run) + 1 /\ DOMAIN more = 1..(Len(run) + 1)
      /\ \A k \in 1..Len(run) : more[k] = run[k]
      /\ more[Len(run) + 1] = node
  BY AppendProperties, LenProperties
<1> HIDE DEF more
<1>3. /\ \A k \in 1..Len(run) : TextsOf(more)[k] = TextsOf(run)[k]
      /\ TextsOf(more)[Len(run) + 1] = node.text
  BY <1>1, <1>2 DEF TextsOf
<1>4. /\ \A k \in 1..Len(run) : MarkedsOf(more)[k] = MarkedsOf(run)[k]
      /\ MarkedsOf(more)[Len(run) + 1] = MarkedNode(node)
  BY <1>1, <1>2 DEF MarkedsOf
<1>5. /\ TextsOf(run) \in [1..Len(run) -> Seq(Characters)] /\ TextsOf(run) \in Seq(Seq(Characters))
      /\ TextsOf(more) \in [1..(Len(run) + 1) -> Seq(Characters)]
  BY <1>2, TextsTyped
<1>6. /\ MarkedsOf(run) \in [1..Len(run) -> Seq(Characters \X Marking)]
      /\ MarkedsOf(run) \in Seq(Seq(Characters \X Marking))
      /\ MarkedsOf(more) \in [1..(Len(run) + 1) -> Seq(Characters \X Marking)]
  BY <1>2, TextsTyped
<1>7. TextsOf(more) = Append(TextsOf(run), node.text)
  BY <1>1, <1>3, <1>5, OneLonger
<1>8. MarkedsOf(more) = Append(MarkedsOf(run), MarkedNode(node))
  BY <1>1, <1>4, <1>6, OneLonger
<1>9. node.text \in Seq(Characters) /\ MarkedNode(node) \in Seq(Characters \X Marking)
  BY MarkedNodeTyped DEF Nodes
<1>10. TextOf(more) = TextOf(run) \o node.text
  BY <1>5, <1>7, <1>9, TextFlattens, FlattenAppends
<1>11. Marked(more) = Marked(run) \o MarkedNode(node)
  BY <1>6, <1>8, <1>9, MarkedFlattens, FlattenAppends
<1> QED
  BY <1>10, <1>11 DEF more

LEMMA NothingMarked == TextOf(<<>>) = <<>> /\ Marked(<<>>) = <<>>
<1>1. TextsOf(<<>>) = <<>> /\ MarkedsOf(<<>>) = <<>>
  BY DEF TextsOf, MarkedsOf
<1> QED
  BY <1>1, TextFlattens, MarkedFlattens, FlattenNothing

LEMMA TextTyped ==
  ASSUME NEW run \in Seq(Nodes)
  PROVE  TextOf(run) \in Seq(Characters) /\ Marked(run) \in Seq(Characters \X Marking)
BY TextsTyped, FlattenedTyped, TextFlattens, MarkedFlattens

(* The marked text says the same. *)
SaysTheSame(run) ==
  /\ Len(TextOf(run)) = Len(Marked(run))
  /\ \A i \in 1..Len(Marked(run)) : TextOf(run)[i] = Marked(run)[i][1]

LEMMA MarkedIsText ==
  ASSUME NEW run \in Seq(Nodes)
  PROVE  SaysTheSame(run)
<1> DEFINE S == {r \in Seq(Nodes) : SaysTheSame(r)}
<1>1. <<>> \in S
  <2>1. SaysTheSame(<<>>)
    BY NothingMarked, EmptySeq DEF SaysTheSame
  <2> QED
    BY <2>1
<1>2. ASSUME NEW r \in Seq(Nodes), NEW node \in Nodes, r \in S PROVE Append(r, node) \in S
  <2>0. Append(r, node) \in Seq(Nodes) /\ SaysTheSame(r)
    BY <1>2
  <2> DEFINE t == TextOf(r)
             m == Marked(r)
             tn == node.text
             mn == MarkedNode(node)
  <2>1. t \in Seq(Characters) /\ m \in Seq(Characters \X Marking) /\ tn \in Seq(Characters)
    BY TextTyped DEF Nodes
  <2>2. mn \in Seq(Characters \X Marking) /\ Len(mn) = Len(tn)
        /\ \A i \in 1..Len(tn) : mn[i] = <<tn[i], node.marks>>
    BY MarkedNodeTyped
  <2>3. TextOf(Append(r, node)) = t \o tn /\ Marked(Append(r, node)) = m \o mn
    BY TextAppends
  <2>4. Len(t) = Len(m) /\ \A i \in 1..Len(m) : t[i] = m[i][1]
    BY <2>0 DEF SaysTheSame
  <2> HIDE DEF t, m, tn, mn
  <2>5. /\ Len(t) \in Nat /\ Len(tn) \in Nat
        /\ Len(t \o tn) = Len(t) + Len(tn) /\ Len(m \o mn) = Len(m) + Len(mn)
        /\ \A i \in 1..(Len(t) + Len(tn)) : (t \o tn)[i] = IF i <= Len(t) THEN t[i] ELSE tn[i - Len(t)]
        /\ \A i \in 1..(Len(m) + Len(mn)) : (m \o mn)[i] = IF i <= Len(m) THEN m[i] ELSE mn[i - Len(m)]
    <3>1. Len(t) \in Nat /\ Len(tn) \in Nat
      BY <2>1, LenProperties
    <3>2. /\ Len(t \o tn) = Len(t) + Len(tn)
          /\ \A i \in 1..(Len(t) + Len(tn)) :
               (t \o tn)[i] = IF i <= Len(t) THEN t[i] ELSE tn[i - Len(t)]
      BY <2>1, ConcatProperties
    <3>3. /\ Len(m \o mn) = Len(m) + Len(mn)
          /\ \A i \in 1..(Len(m) + Len(mn)) :
               (m \o mn)[i] = IF i <= Len(m) THEN m[i] ELSE mn[i - Len(m)]
      <4>1. m \in Seq(Characters \X Marking) /\ mn \in Seq(Characters \X Marking)
        BY <2>1, <2>2
      <4> QED
        BY <4>1, ConcatProperties
    <3> QED
      BY <3>1, <3>2, <3>3
  <2>6. ASSUME NEW i \in 1..(Len(t) + Len(tn)) PROVE (t \o tn)[i] = (m \o mn)[i][1]
    <3>1. CASE i <= Len(t)
      BY <2>2, <2>4, <2>5, <3>1
    <3>2. CASE ~(i <= Len(t))
      <4>1. i - Len(t) \in 1..Len(tn)
        BY <2>5, <3>2
      <4>2. (t \o tn)[i] = tn[i - Len(t)] /\ (m \o mn)[i] = mn[i - Len(t)]
        BY <2>2, <2>4, <2>5, <3>2
      <4>3. mn[i - Len(t)] = <<tn[i - Len(t)], node.marks>>
        BY <2>2, <4>1
      <4> QED
        BY <4>2, <4>3
    <3> QED
      BY <3>1, <3>2
  <2>7. SaysTheSame(Append(r, node))
    BY <2>2, <2>3, <2>4, <2>5, <2>6 DEF SaysTheSame
  <2> QED
    BY <2>0, <2>7
<1> HIDE DEF S
<1>3. Seq(Nodes) \subseteq S
  BY <1>1, <1>2, EverySequence
<1> QED
  BY <1>3 DEF S

LEMMA MarkedConcatenates ==
  ASSUME NEW r \in Seq(Nodes), NEW s \in Seq(Nodes)
  PROVE  Marked(r \o s) = Marked(r) \o Marked(s)
<1>1. /\ Len(r) \in Nat /\ Len(s) \in Nat /\ r \o s \in Seq(Nodes) /\ Len(r \o s) = Len(r) + Len(s)
      /\ DOMAIN r = 1..Len(r) /\ DOMAIN s = 1..Len(s) /\ DOMAIN (r \o s) = 1..(Len(r) + Len(s))
      /\ \A i \in 1..(Len(r) + Len(s)) : (r \o s)[i] = IF i <= Len(r) THEN r[i] ELSE s[i - Len(r)]
  BY ConcatProperties, LenProperties
<1> DEFINE mr == MarkedsOf(r)
           ms == MarkedsOf(s)
           mrs == MarkedsOf(r \o s)
           E == Seq(Characters \X Marking)
<1>2. /\ mr \in [1..Len(r) -> E] /\ ms \in [1..Len(s) -> E] /\ mrs \in [1..(Len(r) + Len(s)) -> E]
      /\ mr \in Seq(E) /\ ms \in Seq(E) /\ mrs \in Seq(E)
  BY <1>1, TextsTyped
<1>3. /\ \A i \in 1..Len(r) : mr[i] = MarkedNode(r[i])
      /\ \A i \in 1..Len(s) : ms[i] = MarkedNode(s[i])
      /\ \A i \in 1..(Len(r) + Len(s)) : mrs[i] = MarkedNode((r \o s)[i])
  BY <1>1 DEF MarkedsOf
<1> HIDE DEF mr, ms, mrs, E
<1>4. Len(mr) = Len(r) /\ Len(ms) = Len(s) /\ Len(mrs) = Len(r) + Len(s)
  BY <1>1, <1>2
<1>5. /\ mr \o ms \in Seq(E) /\ Len(mr \o ms) = Len(r) + Len(s)
      /\ \A i \in 1..(Len(r) + Len(s)) : (mr \o ms)[i] = IF i <= Len(r) THEN mr[i] ELSE ms[i - Len(r)]
  BY <1>2, <1>4, ConcatProperties
<1>6. ASSUME NEW i \in 1..(Len(r) + Len(s)) PROVE mrs[i] = (mr \o ms)[i]
  <2>0. Len(r) \in Nat /\ Len(s) \in Nat
    BY <1>1
  <2>1. CASE i <= Len(r)
    <3>1. i \in 1..Len(r)
      BY <2>1
    <3> QED
      BY <1>1, <1>3, <1>5, <2>1, <3>1
  <2>2. CASE ~(i <= Len(r))
    <3>1. i - Len(r) \in 1..Len(s)
      BY <2>0, <2>2
    <3>2. (r \o s)[i] = s[i - Len(r)] /\ (mr \o ms)[i] = ms[i - Len(r)]
      BY <1>1, <1>5, <2>2
    <3> QED
      BY <1>3, <3>1, <3>2
  <2> QED
    BY <2>1, <2>2
<1>7. mrs = mr \o ms
  BY <1>2, <1>4, <1>5, <1>6, SeqEqual
<1>8. FlattenSeq(mr \o ms) = FlattenSeq(mr) \o FlattenSeq(ms)
  BY <1>2, FlattenConcatenates DEF E
<1> QED
  BY <1>7, <1>8, MarkedFlattens DEF mr, ms, mrs

-----------------------------------------------------------------------------
(* Merging.                                                                *)

LEMMA NodeTyped ==
  ASSUME NEW text \in Seq(Characters), NEW marks \in Marking
  PROVE  Node(text, marks) \in Nodes /\ Node(text, marks).text = text /\ Node(text, marks).marks = marks
BY DEF Node, Nodes

LEMMA FrontAndLast ==
  ASSUME NEW E, NEW s \in Seq(E), s # <<>>
  PROVE  Front(s) \in Seq(E) /\ Last(s) \in E /\ s = Append(Front(s), Last(s))
<1>1. PICK r \in Seq(E), e \in E : s = Append(r, e)
  BY SequenceEmptyOrAppend
<1>2. /\ Len(r) \in Nat /\ Len(s) = Len(r) + 1 /\ s[Len(r) + 1] = e
      /\ \A i \in 1..Len(r) : s[i] = r[i]
  BY <1>1, AppendProperties, LenProperties
<1>3. Last(s) = e
  BY <1>2 DEF Last
<1>4. Front(s) = SubSeq(s, 1, Len(r))
  BY <1>2 DEF Front
<1>5. \A i \in 1..Len(r) : s[i] \in E
  BY <1>2, ElementOfSeq
<1>6. /\ SubSeq(s, 1, Len(r)) \in Seq(E) /\ Len(SubSeq(s, 1, Len(r))) = Len(r)
      /\ \A i \in 1..Len(r) : SubSeq(s, 1, Len(r))[i] = s[i]
  <2>1. PICK n \in Nat : n = Len(r)
    BY <1>2
  <2>2. /\ SubSeq(s, 1, n) \in Seq(E) /\ Len(SubSeq(s, 1, n)) = (IF 1 <= n THEN n - 1 + 1 ELSE 0)
        /\ \A i \in 1..(n - 1 + 1) : SubSeq(s, 1, n)[i] = s[1 + i - 1]
    BY <1>5, <2>1, SubSeqProperties
  <2>3. n - 1 + 1 = n /\ \A i \in 1..n : 1 + i - 1 = i
    OBVIOUS
  <2>4. Len(SubSeq(s, 1, n)) = n
    BY <2>2
  <2> QED
    BY <2>1, <2>2, <2>3, <2>4
<1>7. SubSeq(s, 1, Len(r)) = r
  BY <1>2, <1>6, SeqEqual
<1> QED
  BY <1>1, <1>3, <1>4, <1>7

LEMMA JoinCases ==
  ASSUME NEW nodes \in Seq(Nodes), NEW node \in Nodes
  PROVE  \/ node.text = <<>> /\ Join(nodes, node) = nodes
         \/ /\ node.text # <<>> /\ nodes # <<>> /\ Last(nodes).marks = node.marks
            /\ Join(nodes, node) =
                 Append(Front(nodes), Node(Last(nodes).text \o node.text, node.marks))
         \/ /\ node.text # <<>> /\ (nodes = <<>> \/ Last(nodes).marks # node.marks)
            /\ Join(nodes, node) = Append(nodes, node)
BY DEF Join

LEMMA JoinTyped ==
  ASSUME NEW nodes \in Seq(Nodes), NEW node \in Nodes
  PROVE  Join(nodes, node) \in Seq(Nodes)
<1>1. CASE Join(nodes, node) = nodes
  BY <1>1
<1>2. CASE nodes # <<>> /\ Join(nodes, node) =
             Append(Front(nodes), Node(Last(nodes).text \o node.text, node.marks))
  <2>1. Front(nodes) \in Seq(Nodes) /\ Last(nodes) \in Nodes
    BY <1>2, FrontAndLast
  <2>2. Last(nodes).text \in Seq(Characters) /\ node.text \in Seq(Characters) /\ node.marks \in Marking
    BY <2>1 DEF Nodes
  <2>3. Last(nodes).text \o node.text \in Seq(Characters)
    BY <2>2, ConcatProperties
  <2>4. Node(Last(nodes).text \o node.text, node.marks) \in Nodes
    BY <2>2, <2>3, NodeTyped
  <2> QED
    BY <1>2, <2>1, <2>4, AppendProperties
<1>3. CASE Join(nodes, node) = Append(nodes, node)
  BY <1>3, AppendProperties
<1> QED
  BY <1>1, <1>2, <1>3, JoinCases

JoinAll(s) ==
  CHOOSE iter : iter = [x \in SUBSET (DOMAIN s) |->
                          IF x = {} THEN <<>> ELSE Join(iter[x \ {Max(x)}], s[Max(x)])]

LEMMA MergeJoins == \A s : Merge(s) = JoinAll(s)[DOMAIN s]
BY DEF Merge, FoldLeft, MapThenFoldSet, JoinAll

Joining == [p \in Seq(Nodes) \X Nodes |-> Join(p[1], p[2])]

LEMMA JoiningTyped ==
  /\ Joining \in [Seq(Nodes) \X Nodes -> Seq(Nodes)]
  /\ \A nodes \in Seq(Nodes), node \in Nodes : Joining[<<nodes, node>>] = Join(nodes, node)
BY JoinTyped DEF Joining

LEMMA MergeFolds ==
  ASSUME NEW s \in Seq(Nodes)
  PROVE  \E g \in [SUBSET (DOMAIN s) -> Seq(Nodes)] :
           FoldOn(g, Len(s), s, <<>>, Joining) /\ Merge(s) = g[1..Len(s)]
<1>0. Len(s) \in Nat /\ DOMAIN s = 1..Len(s) /\ <<>> \in Seq(Nodes)
  BY LenProperties, EmptySeq
<1>1. PICK g \in [SUBSET (DOMAIN s) -> Seq(Nodes)] : FoldOn(g, Len(s), s, <<>>, Joining)
  BY <1>0, JoiningTyped, FoldExists
<1>2. ASSUME NEW x \in SUBSET (DOMAIN s)
      PROVE  g[x] = IF x = {} THEN <<>> ELSE Join(g[x \ {Max(x)}], s[Max(x)])
  <2>1. x \in SUBSET (1..Len(s))
    BY <1>0
  <2>2. g[x] = IF x = {} THEN <<>> ELSE Joining[<<g[x \ {Max(x)}], s[Max(x)]>>]
    BY <1>1, <2>1 DEF FoldOn
  <2>3. CASE x = {}
    BY <2>2, <2>3
  <2>4. CASE x # {}
    <3>1. Max(x) \in x
      BY <1>0, <2>1, <2>4, GreatestOf
    <3>2. s[Max(x)] \in Nodes /\ x \ {Max(x)} \in SUBSET (DOMAIN s)
      BY <2>1, <3>1, ElementOfSeq
    <3> QED
      BY <1>1, <2>2, <2>4, <3>2, JoiningTyped
  <2> QED
    BY <2>3, <2>4
<1>3. g = [x \in SUBSET (DOMAIN s) |-> IF x = {} THEN <<>> ELSE Join(g[x \ {Max(x)}], s[Max(x)])]
  BY <1>1, <1>2
<1> DEFINE h == JoinAll(s)
<1>4. h = [x \in SUBSET (DOMAIN s) |-> IF x = {} THEN <<>> ELSE Join(h[x \ {Max(x)}], s[Max(x)])]
  BY <1>3 DEF JoinAll
<1> HIDE DEF h
<1> DEFINE S == {k \in Nat : k <= Len(s) => h[1..k] = g[1..k]}
<1>5. 0 \in S
  <2>1. 1..0 = {} /\ {} \in SUBSET (DOMAIN s)
    OBVIOUS
  <2>2. h[{}] = <<>> /\ g[{}] = <<>>
    BY <1>3, <1>4, <2>1
  <2> QED
    BY <2>1, <2>2
<1>6. ASSUME NEW k \in Nat, k \in S PROVE k + 1 \in S
  <2> SUFFICES ASSUME k + 1 <= Len(s) PROVE h[1..(k + 1)] = g[1..(k + 1)]
    OBVIOUS
  <2>1. 1..(k + 1) \in SUBSET (DOMAIN s) /\ h[1..k] = g[1..k]
    BY <1>0, <1>6
  <2>2. 1..(k + 1) # {} /\ Max(1..(k + 1)) = k + 1 /\ (1..(k + 1)) \ {k + 1} = 1..k
    BY GreatestOfSegment
  <2> DEFINE x == 1..(k + 1)
  <2>3. h[x] = Join(h[x \ {Max(x)}], s[Max(x)]) /\ g[x] = Join(g[x \ {Max(x)}], s[Max(x)])
    <3> HIDE DEF x
    <3>1. x \in SUBSET (DOMAIN s) /\ x # {}
      BY <2>1, <2>2 DEF x
    <3> QED
      BY <1>2, <1>4, <3>1
  <2> QED
    BY <2>1, <2>2, <2>3
<1> HIDE DEF S
<1>7. Nat \subseteq S
  BY <1>5, <1>6, EveryNatural
<1>8. h[1..Len(s)] = g[1..Len(s)]
  BY <1>0, <1>7 DEF S
<1>9. Merge(s) = g[1..Len(s)]
  BY <1>0, <1>8, MergeJoins DEF h
<1> QED
  BY <1>1, <1>9

LEMMA MergeSteps ==
  /\ Merge(<<>>) = <<>>
  /\ \A s \in Seq(Nodes) : Merge(s) \in Seq(Nodes)
  /\ \A s \in Seq(Nodes), node \in Nodes : Merge(Append(s, node)) = Join(Merge(s), node)
<1>0. <<>> \in Seq(Nodes) /\ Len(<<>>) = 0
  BY EmptySeq
<1>1. Merge(<<>>) = <<>>
  <2>1. PICK g \in [SUBSET (DOMAIN <<>>) -> Seq(Nodes)] :
          FoldOn(g, Len(<<>>), <<>>, <<>>, Joining) /\ Merge(<<>>) = g[1..Len(<<>>)]
    BY <1>0, MergeFolds
  <2>2. InTurn(g, <<>>, <<>>, Joining)
    BY <1>0, <2>1, JoiningTyped, FoldSegments
  <2> QED
    BY <1>0, <2>1, <2>2 DEF InTurn
<1>2. ASSUME NEW s \in Seq(Nodes) PROVE Merge(s) \in Seq(Nodes)
  <2>1. PICK g \in [SUBSET (DOMAIN s) -> Seq(Nodes)] :
          FoldOn(g, Len(s), s, <<>>, Joining) /\ Merge(s) = g[1..Len(s)]
    BY MergeFolds
  <2>2. 1..Len(s) \in SUBSET (DOMAIN s)
    BY LenProperties
  <2> QED
    BY <2>1, <2>2
<1>3. ASSUME NEW s \in Seq(Nodes), NEW node \in Nodes
      PROVE  Merge(Append(s, node)) = Join(Merge(s), node)
  <2>1. PICK g \in [SUBSET (DOMAIN s) -> Seq(Nodes)] :
          FoldOn(g, Len(s), s, <<>>, Joining) /\ Merge(s) = g[1..Len(s)]
    BY MergeFolds
  <2>2. Append(s, node) \in Seq(Nodes) /\ Len(Append(s, node)) = Len(s) + 1
    BY AppendProperties
  <2>3. PICK h \in [SUBSET (DOMAIN Append(s, node)) -> Seq(Nodes)] :
          /\ FoldOn(h, Len(Append(s, node)), Append(s, node), <<>>, Joining)
          /\ Merge(Append(s, node)) = h[1..Len(Append(s, node))]
    BY <2>2, MergeFolds
  <2>4. FoldsTo(g, s, <<>>, Joining) /\ FoldsTo(h, Append(s, node), <<>>, Joining)
    BY <2>1, <2>3 DEF FoldsTo
  <2>5. Follows(h, g, Len(s), node, Joining)
    BY <1>0, <2>4, JoiningTyped, FoldsAgree
  <2>6. Merge(Append(s, node)) = Joining[<<Merge(s), node>>]
    BY <2>1, <2>2, <2>3, <2>5 DEF Follows
  <2> QED
    BY <1>2, <2>6, JoiningTyped
<1> QED
  BY <1>1, <1>2, <1>3

Seamless(nodes) ==
  /\ \A n \in 1..Len(nodes) : nodes[n].text # <<>>
  /\ \A n \in 1..(Len(nodes) - 1) : nodes[n].marks # nodes[n + 1].marks

LEMMA JoinKeeps ==
  ASSUME NEW nodes \in Seq(Nodes), NEW node \in Nodes
  PROVE  /\ Marked(Join(nodes, node)) = Marked(nodes) \o MarkedNode(node)
         /\ Seamless(nodes) => Seamless(Join(nodes, node))
<1>1. CASE node.text = <<>> /\ Join(nodes, node) = nodes
  <2>1. MarkedNode(node) = <<>>
    BY <1>1, MarkedNodeTyped, EmptySeq
  <2> QED
    BY <1>1, <2>1, TextTyped, ConcatEmptySeq
<1>2. CASE /\ node.text # <<>> /\ nodes # <<>> /\ Last(nodes).marks = node.marks
           /\ Join(nodes, node) = Append(Front(nodes), Node(Last(nodes).text \o node.text, node.marks))
  <2> DEFINE f == Front(nodes)
             l == Last(nodes)
             text == l.text \o node.text
             j == Node(text, node.marks)
  <2>1. f \in Seq(Nodes) /\ l \in Nodes /\ nodes = Append(f, l)
    BY <1>2, FrontAndLast
  <2> HIDE DEF f, l
  <2>2. l.text \in Seq(Characters) /\ node.text \in Seq(Characters) /\ node.marks \in Marking
    BY <2>1 DEF Nodes
  <2>3. /\ text \in Seq(Characters) /\ Len(text) = Len(l.text) + Len(node.text)
        /\ \A i \in 1..(Len(l.text) + Len(node.text)) :
             text[i] = IF i <= Len(l.text) THEN l.text[i] ELSE node.text[i - Len(l.text)]
        /\ Len(l.text) \in Nat /\ Len(node.text) \in Nat
    BY <2>2, ConcatProperties, LenProperties
  <2>4. j \in Nodes /\ j.text = text /\ j.marks = node.marks
    BY <2>2, <2>3, NodeTyped
  <2> HIDE DEF text, j
  <2>5. MarkedNode(j) = MarkedNode(l) \o MarkedNode(node)
    <3> DEFINE ml == MarkedNode(l)
               mn == MarkedNode(node)
               mj == MarkedNode(j)
               E == Characters \X Marking
    <3>1. /\ ml \in Seq(E) /\ Len(ml) = Len(l.text)
          /\ \A i \in 1..Len(l.text) : ml[i] = <<l.text[i], l.marks>>
      BY <2>1, MarkedNodeTyped
    <3>2. /\ mn \in Seq(E) /\ Len(mn) = Len(node.text)
          /\ \A i \in 1..Len(node.text) : mn[i] = <<node.text[i], node.marks>>
      BY MarkedNodeTyped
    <3>3. /\ mj \in Seq(E) /\ Len(mj) = Len(text)
          /\ \A i \in 1..Len(text) : mj[i] = <<text[i], node.marks>>
      BY <2>4, MarkedNodeTyped
    <3> HIDE DEF ml, mn, mj, E
    <3>4. /\ ml \o mn \in Seq(E) /\ Len(ml \o mn) = Len(l.text) + Len(node.text)
          /\ \A i \in 1..(Len(l.text) + Len(node.text)) :
               (ml \o mn)[i] = IF i <= Len(l.text) THEN ml[i] ELSE mn[i - Len(l.text)]
      <4>1. /\ ml \o mn \in Seq(E) /\ Len(ml \o mn) = Len(ml) + Len(mn)
            /\ \A i \in 1..(Len(ml) + Len(mn)) :
                 (ml \o mn)[i] = IF i <= Len(ml) THEN ml[i] ELSE mn[i - Len(ml)]
        <5>1. ml \in Seq(E) /\ mn \in Seq(E)
          BY <3>1, <3>2
        <5> QED
          BY <5>1, ConcatProperties
      <4> QED
        BY <3>1, <3>2, <4>1
    <3>5. l.marks = node.marks
      BY <1>2 DEF l
    <3>6. ASSUME NEW i \in 1..Len(mj) PROVE mj[i] = (ml \o mn)[i]
      <4>1. i \in 1..(Len(l.text) + Len(node.text)) /\ mj[i] = <<text[i], node.marks>>
        BY <2>3, <3>3
      <4>2. CASE i <= Len(l.text)
        <5>1. i \in 1..Len(l.text)
          BY <2>3, <4>1, <4>2
        <5> QED
          BY <2>3, <3>1, <3>4, <3>5, <4>1, <4>2, <5>1
      <4>3. CASE ~(i <= Len(l.text))
        <5>1. i - Len(l.text) \in 1..Len(node.text)
          <6>1. PICK a, b \in Nat : a = Len(l.text) /\ b = Len(node.text)
            BY <2>3
          <6>2. i \in 1..(a + b) /\ ~(i <= a)
            BY <4>1, <4>3, <6>1
          <6>3. i - a \in 1..b
            BY <6>2
          <6> QED
            BY <6>1, <6>3
        <5>2. text[i] = node.text[i - Len(l.text)] /\ (ml \o mn)[i] = mn[i - Len(l.text)]
          BY <2>3, <3>4, <4>1, <4>3
        <5> QED
          BY <3>2, <4>1, <5>1, <5>2
      <4> QED
        BY <4>2, <4>3
    <3>7. mj = ml \o mn
      BY <2>3, <3>3, <3>4, <3>6, SeqEqual
    <3> QED
      BY <3>7 DEF ml, mn, mj
  <2>6. Marked(Append(f, j)) = Marked(f) \o MarkedNode(j) /\ Marked(nodes) = Marked(f) \o MarkedNode(l)
    BY <2>1, <2>4, TextAppends
  <2>7. (Marked(f) \o MarkedNode(l)) \o MarkedNode(node) = Marked(f) \o (MarkedNode(l) \o MarkedNode(node))
    <3>1. /\ Marked(f) \in Seq(Characters \X Marking)
          /\ MarkedNode(l) \in Seq(Characters \X Marking)
          /\ MarkedNode(node) \in Seq(Characters \X Marking)
      BY <2>1, TextTyped, MarkedNodeTyped
    <3> QED
      BY <3>1, ConcatAssociative
  <2>8. Marked(Join(nodes, node)) = Marked(nodes) \o MarkedNode(node)
    BY <1>2, <2>5, <2>6, <2>7 DEF f, j, text, l
  <2>9. ASSUME Seamless(nodes) PROVE Seamless(Append(f, j))
    <3>1. /\ Len(f) \in Nat /\ Len(nodes) = Len(f) + 1 /\ nodes[Len(f) + 1] = l
          /\ \A i \in 1..Len(f) : nodes[i] = f[i]
      BY <2>1, AppendProperties, LenProperties
    <3>2. /\ Len(Append(f, j)) = Len(f) + 1 /\ Append(f, j)[Len(f) + 1] = j
          /\ \A i \in 1..Len(f) : Append(f, j)[i] = f[i]
      BY <2>1, <2>4, AppendProperties
    <3>3. j.text # <<>>
      BY <1>2, <2>2, <2>4, ConcatEqualIffEmpty DEF text
    <3>4. j.marks = l.marks
      BY <1>2, <2>4 DEF l
    <3>5. ASSUME NEW n \in 1..(Len(f) + 1) PROVE Append(f, j)[n].text # <<>>
      <4>1. n \in 1..Len(f) \/ n = Len(f) + 1
        BY <3>1
      <4>2. CASE n \in 1..Len(f)
        <5>1. n \in 1..Len(nodes) /\ nodes[n] = Append(f, j)[n]
          BY <3>1, <3>2, <4>2
        <5> QED
          BY <2>9, <5>1 DEF Seamless
      <4>3. CASE n = Len(f) + 1
        BY <3>2, <3>3, <4>3
      <4> QED
        BY <4>1, <4>2, <4>3
    <3>6. ASSUME NEW n \in 1..((Len(f) + 1) - 1)
          PROVE  Append(f, j)[n].marks # Append(f, j)[n + 1].marks
      <4>1. n \in 1..(Len(nodes) - 1) /\ n \in 1..Len(f)
        BY <3>1
      <4>2. nodes[n].marks # nodes[n + 1].marks /\ nodes[n] = Append(f, j)[n]
        BY <2>9, <3>1, <3>2, <4>1 DEF Seamless
      <4>3. n + 1 \in 1..Len(f) \/ n + 1 = Len(f) + 1
        BY <3>1, <4>1
      <4>4. Append(f, j)[n + 1].marks = nodes[n + 1].marks
        BY <3>1, <3>2, <3>4, <4>3
      <4> QED
        BY <4>2, <4>4
    <3> QED
      BY <3>2, <3>5, <3>6 DEF Seamless
  <2> QED
    BY <1>2, <2>8, <2>9 DEF f, j, text, l
<1>3. CASE /\ node.text # <<>> /\ (nodes = <<>> \/ Last(nodes).marks # node.marks)
           /\ Join(nodes, node) = Append(nodes, node)
  <2>1. Marked(Join(nodes, node)) = Marked(nodes) \o MarkedNode(node)
    BY <1>3, TextAppends
  <2>2. ASSUME Seamless(nodes) PROVE Seamless(Append(nodes, node))
    <3>1. /\ Len(nodes) \in Nat /\ Len(Append(nodes, node)) = Len(nodes) + 1
          /\ Append(nodes, node)[Len(nodes) + 1] = node
          /\ \A i \in 1..Len(nodes) : Append(nodes, node)[i] = nodes[i]
      BY AppendProperties, LenProperties
    <3> DEFINE more == Append(nodes, node)
    <3> HIDE DEF more
    <3>2. ASSUME NEW n \in 1..(Len(nodes) + 1) PROVE more[n].text # <<>>
      <4>1. n \in 1..Len(nodes) \/ n = Len(nodes) + 1
        BY <3>1
      <4> QED
        BY <1>3, <2>2, <3>1, <4>1 DEF Seamless, more
    <3>3. ASSUME NEW n \in 1..((Len(nodes) + 1) - 1) PROVE more[n].marks # more[n + 1].marks
      <4>1. n \in 1..Len(nodes) /\ more[n] = nodes[n]
        BY <3>1 DEF more
      <4>2. CASE n = Len(nodes)
        <5>1. nodes # <<>>
          BY <4>1, <4>2, EmptySeq
        <5>2. nodes[n].marks # node.marks
          BY <1>3, <4>2, <5>1 DEF Last
        <5> QED
          BY <3>1, <4>1, <4>2, <5>2 DEF more
      <4>3. CASE n # Len(nodes)
        <5>1. n \in 1..(Len(nodes) - 1) /\ n + 1 \in 1..Len(nodes)
          BY <3>1, <4>1, <4>3
        <5> QED
          BY <2>2, <3>1, <4>1, <5>1 DEF Seamless, more
      <4> QED
        BY <4>2, <4>3
    <3> QED
      BY <3>1, <3>2, <3>3 DEF Seamless, more
  <2> QED
    BY <1>3, <2>1, <2>2
<1> QED
  BY <1>1, <1>2, <1>3, JoinCases

(* Merging changes neither the text nor the marks, and leaves no seam. *)
LEMMA MergeKeeps ==
  ASSUME NEW s \in Seq(Nodes)
  PROVE  Marked(Merge(s)) = Marked(s) /\ Seamless(Merge(s))
<1> DEFINE S == {r \in Seq(Nodes) : Marked(Merge(r)) = Marked(r) /\ Seamless(Merge(r))}
<1>1. <<>> \in S
  <2>1. Seamless(<<>>) /\ <<>> \in Seq(Nodes)
    BY EmptySeq DEF Seamless
  <2> QED
    BY <2>1, MergeSteps
<1>2. ASSUME NEW r \in Seq(Nodes), NEW node \in Nodes, r \in S PROVE Append(r, node) \in S
  <2>1. Append(r, node) \in Seq(Nodes)
    BY AppendProperties
  <2>2. Merge(Append(r, node)) = Join(Merge(r), node) /\ Merge(r) \in Seq(Nodes)
    BY MergeSteps
  <2>3. Marked(Join(Merge(r), node)) = Marked(Merge(r)) \o MarkedNode(node) /\ Seamless(Join(Merge(r), node))
    BY <1>2, <2>2, JoinKeeps
  <2>4. Marked(Append(r, node)) = Marked(r) \o MarkedNode(node)
    BY TextAppends
  <2> QED
    BY <1>2, <2>1, <2>2, <2>3, <2>4
<1> HIDE DEF S
<1>3. Seq(Nodes) \subseteq S
  BY <1>1, <1>2, EverySequence
<1> QED
  BY <1>3 DEF S

-----------------------------------------------------------------------------
(* Slicing.                                                                *)

LEMMA PartOf ==
  ASSUME NEW E, NEW s \in Seq(E), NEW m \in Int, NEW n \in Int, 1 <= m, n <= Len(s),
         NEW l, l = IF m <= n THEN n - m + 1 ELSE 0
  PROVE  /\ SubSeq(s, m, n) \in Seq(E)
         /\ Len(SubSeq(s, m, n)) = l
         /\ \A i \in 1..l : SubSeq(s, m, n)[i] = s[m + i - 1]
<1>0. Len(s) \in Nat
  BY LenProperties
<1>1. \A i \in m..n : s[i] \in E
  <2>1. \A i \in m..n : i \in 1..Len(s)
    BY <1>0
  <2> QED
    BY <2>1, ElementOfSeq
<1>2. /\ SubSeq(s, m, n) \in Seq(E)
      /\ Len(SubSeq(s, m, n)) = IF m <= n THEN n - m + 1 ELSE 0
      /\ \A i \in 1..(n - m + 1) : SubSeq(s, m, n)[i] = s[m + i - 1]
  BY <1>1, SubSeqProperties
<1>3. 1..l \subseteq 1..(n - m + 1)
  OBVIOUS
<1> QED
  BY <1>2, <1>3

(* The part of two sequences that lies between two offsets. *)
RangeSplits(s, t, from, to) ==
  SubSeq(s \o t, from + 1, Least(to, Len(s) + Len(t))) =
    SubSeq(s, from + 1, Least(to, Len(s)))
      \o SubSeq(t, Greatest(from, Len(s)) - Len(s) + 1, Least(to - Len(s), Len(t)))

LEMMA RangeOfTwo ==
  ASSUME NEW E, NEW s \in Seq(E), NEW t \in Seq(E), NEW from \in Nat, NEW to \in Nat
  PROVE  RangeSplits(s, t, from, to)
<1>1. PICK a \in Nat, b \in Nat : a = Len(s) /\ b = Len(t)
  BY LenProperties
<1> DEFINE st == s \o t
           q  == Least(to, a + b)
           q1 == Least(to, a)
           p2 == Greatest(from, a) - a + 1
           q2 == Least(to - a, b)
           n1 == IF from + 1 <= q1 THEN q1 - (from + 1) + 1 ELSE 0
           n2 == IF p2 <= q2 THEN q2 - p2 + 1 ELSE 0
           n  == IF from + 1 <= q THEN q - (from + 1) + 1 ELSE 0
<1>2. /\ st \in Seq(E) /\ Len(st) = a + b
      /\ \A i \in 1..(a + b) : st[i] = IF i <= a THEN s[i] ELSE t[i - a]
  BY <1>1, ConcatProperties
<1> HIDE DEF st
<1>3. /\ q \in Int /\ q1 \in Int /\ p2 \in Int /\ q2 \in Int /\ from + 1 \in Int
      /\ q <= a + b /\ q1 <= a /\ p2 >= 1 /\ q2 <= b
      /\ n1 \in Nat /\ n2 \in Nat /\ n \in Nat
  BY DEF Least, Greatest
<1>4. n = n1 + n2
  BY DEF Least, Greatest
<1>5. ASSUME NEW i \in 1..n
      PROVE  /\ from + 1 + i - 1 \in 1..(a + b)
             /\ i <= n1 => i \in 1..n1 /\ from + 1 + i - 1 <= a
             /\ i > n1 => /\ i - n1 \in 1..n2 /\ ~(from + 1 + i - 1 <= a)
                          /\ p2 + (i - n1) - 1 = (from + 1 + i - 1) - a
  BY DEF Least, Greatest
<1> HIDE DEF q, q1, p2, q2
<1> DEFINE x == SubSeq(st, from + 1, q)
           y == SubSeq(s, from + 1, q1)
           z == SubSeq(t, p2, q2)
<1>6. x \in Seq(E) /\ Len(x) = n /\ \A i \in 1..n : x[i] = st[from + 1 + i - 1]
  <2>1. PICK m \in Int, l \in Nat : m = from + 1 /\ l = n
    BY <1>3
  <2>2. 1 <= m /\ q <= Len(st) /\ l = IF m <= q THEN q - m + 1 ELSE 0
    BY <1>2, <1>3, <2>1
  <2>3. /\ SubSeq(st, m, q) \in Seq(E) /\ Len(SubSeq(st, m, q)) = l
        /\ \A i \in 1..l : SubSeq(st, m, q)[i] = st[m + i - 1]
    <3> HIDE DEF n, n1, n2, x, y, z
    <3> QED
      BY <1>2, <1>3, <2>2, PartOf
  <2> HIDE DEF n, n1, n2
  <2> QED
    BY <2>1, <2>3
<1>7. y \in Seq(E) /\ Len(y) = n1 /\ \A i \in 1..n1 : y[i] = s[from + 1 + i - 1]
  <2>1. 1 <= from + 1 /\ q1 <= Len(s) /\ from + 1 \in Int
    BY <1>1, <1>3
  <2> HIDE DEF n1
  <2>2. n1 = IF from + 1 <= q1 THEN q1 - (from + 1) + 1 ELSE 0
    BY DEF n1
  <2> QED
    BY <1>3, <2>1, <2>2, PartOf
<1>8. z \in Seq(E) /\ Len(z) = n2 /\ \A i \in 1..n2 : z[i] = t[p2 + i - 1]
  <2>1. 1 <= p2 /\ q2 <= Len(t)
    BY <1>1, <1>3
  <2> HIDE DEF n2
  <2>2. n2 = IF p2 <= q2 THEN q2 - p2 + 1 ELSE 0
    BY DEF n2
  <2> QED
    BY <1>3, <2>1, <2>2, PartOf
<1>9. /\ \A i \in 1..n : x[i] = st[from + 1 + i - 1]
      /\ \A i \in 1..n1 : y[i] = s[from + 1 + i - 1]
      /\ \A i \in 1..n2 : z[i] = t[p2 + i - 1]
  BY <1>6, <1>7, <1>8
<1>10. x \in Seq(E) /\ y \in Seq(E) /\ z \in Seq(E) /\ Len(x) = n /\ Len(y) = n1 /\ Len(z) = n2
  BY <1>6, <1>7, <1>8
<1> HIDE DEF x, y, z, n, n1, n2
<1>11. /\ y \o z \in Seq(E) /\ Len(y \o z) = n1 + n2
       /\ \A i \in 1..(n1 + n2) : (y \o z)[i] = IF i <= n1 THEN y[i] ELSE z[i - n1]
  BY <1>10, ConcatProperties
<1>12. ASSUME NEW i \in 1..n PROVE x[i] = (y \o z)[i]
  <2>1. x[i] = st[from + 1 + i - 1] /\ from + 1 + i - 1 \in 1..(a + b) /\ i \in 1..(n1 + n2)
    BY <1>4, <1>5, <1>9
  <2>2. CASE i <= n1
    <3>1. i \in 1..n1 /\ from + 1 + i - 1 <= a
      BY <1>5, <2>2
    <3>2. st[from + 1 + i - 1] = s[from + 1 + i - 1] /\ (y \o z)[i] = y[i]
      BY <1>2, <1>11, <2>1, <2>2, <3>1
    <3> QED
      BY <1>9, <2>1, <3>1, <3>2
  <2>3. CASE ~(i <= n1)
    <3>1. /\ i - n1 \in 1..n2 /\ ~(from + 1 + i - 1 <= a)
          /\ p2 + (i - n1) - 1 = (from + 1 + i - 1) - a
      BY <1>3, <1>5, <2>3
    <3>2. st[from + 1 + i - 1] = t[(from + 1 + i - 1) - a] /\ (y \o z)[i] = z[i - n1]
      BY <1>2, <1>11, <2>1, <2>3, <3>1
    <3>3. z[i - n1] = t[p2 + (i - n1) - 1]
      BY <1>9, <3>1
    <3> QED
      BY <2>1, <3>1, <3>2, <3>3
  <2> QED
    BY <2>2, <2>3
<1>13. x = y \o z
  BY <1>4, <1>10, <1>11, <1>12, SeqEqual
<1> QED
  BY <1>1, <1>13 DEF RangeSplits, x, y, z, st, q, q1, p2, q2

LEMMA CutKeeps ==
  ASSUME NEW node \in Nodes, NEW offset \in Nat, NEW from \in Nat, NEW to \in Nat
  PROVE  /\ Cut(node, offset, from, to) \in Seq(Nodes)
         /\ Marked(Cut(node, offset, from, to)) =
              SubSeq(MarkedNode(node), Greatest(from, offset) - offset + 1,
                                       Least(to - offset, Len(node.text)))
<1> DEFINE m == Greatest(from, offset) - offset + 1
           n == Least(to - offset, Len(node.text))
           text == SubSeq(node.text, m, n)
           l == IF m <= n THEN n - m + 1 ELSE 0
           E == Characters \X Marking
           whole == MarkedNode(node)
           part == SubSeq(whole, m, n)
<1>1. node.text \in Seq(Characters) /\ node.marks \in Marking /\ Len(node.text) \in Nat
  BY LenProperties DEF Nodes
<1>2. m \in Int /\ n \in Int /\ 1 <= m /\ n <= Len(node.text)
  <2>1. PICK k \in Nat : k = Len(node.text)
    BY <1>1
  <2> QED
    BY <2>1 DEF Greatest, Least
<1>3. whole \in Seq(E) /\ Len(whole) = Len(node.text)
      /\ \A i \in 1..Len(node.text) : whole[i] = <<node.text[i], node.marks>>
  BY MarkedNodeTyped
<1> HIDE DEF m, n, E, whole
<1>4. text \in Seq(Characters) /\ Len(text) = l /\ \A i \in 1..l : text[i] = node.text[m + i - 1]
  BY <1>1, <1>2, PartOf
<1>5. part \in Seq(E) /\ Len(part) = l /\ \A i \in 1..l : part[i] = whole[m + i - 1]
  <2>1. n <= Len(whole)
    BY <1>2, <1>3
  <2> QED
    BY <1>2, <1>3, <2>1, PartOf
<1>6. \A i \in 1..l : m + i - 1 \in 1..Len(node.text)
  <2>1. PICK k \in Nat : k = Len(node.text)
    BY <1>1
  <2> QED
    BY <1>2, <2>1
<1>7. l \in Nat
  BY <1>2
<1> HIDE DEF text, part, l
<1>8. Cut(node, offset, from, to) = IF text = <<>> THEN <<>> ELSE <<Node(text, node.marks)>>
  BY DEF Cut, text, m, n
<1>9. CASE text = <<>>
  <2>1. l = 0
    BY <1>4, <1>9, EmptySeq
  <2>2. part = <<>>
    BY <1>5, <2>1, EmptySeq
  <2> QED
    BY <1>8, <1>9, <2>2, NothingMarked, EmptySeq DEF part, whole, m, n
<1>10. CASE text # <<>>
  <2> DEFINE piece == Node(text, node.marks)
  <2>1. piece \in Nodes /\ piece.text = text /\ piece.marks = node.marks
    BY <1>1, <1>4, NodeTyped
  <2> HIDE DEF piece
  <2>2. /\ MarkedNode(piece) \in Seq(E) /\ Len(MarkedNode(piece)) = l
        /\ \A i \in 1..l : MarkedNode(piece)[i] = <<text[i], node.marks>>
    BY <1>4, <2>1, MarkedNodeTyped DEF E
  <2>3. ASSUME NEW i \in 1..l PROVE MarkedNode(piece)[i] = part[i]
    <3>1. whole[m + i - 1] = <<node.text[m + i - 1], node.marks>>
      BY <1>3, <1>6
    <3> QED
      BY <1>4, <1>5, <2>2, <3>1
  <2>4. MarkedNode(piece) = part
    BY <1>5, <2>2, <2>3, SeqEqual
  <2>5. <<piece>> = Append(<<>>, piece) /\ <<>> \in Seq(Nodes) /\ <<piece>> \in Seq(Nodes)
    BY <2>1, EmptySeq
  <2>6. Marked(<<piece>>) = Marked(<<>>) \o MarkedNode(piece)
    BY <2>1, <2>5, TextAppends
  <2>7. Marked(<<piece>>) = part
    BY <1>5, <2>4, <2>6, NothingMarked, ConcatEmptySeq
  <2> QED
    BY <1>8, <1>10, <2>5, <2>7 DEF part, whole, m, n, piece
<1> QED
  BY <1>9, <1>10

CutsOf(run, from, to) == [k \in DOMAIN run |-> Cut(run[k], Offset(run, k), from, to)]

LEMMA SliceFlattens == \A run, from, to : Slice(run, from, to) = FlattenSeq(CutsOf(run, from, to))
BY DEF Slice, CutsOf

LEMMA PrefixIs ==
  ASSUME NEW E, NEW s \in Seq(E), NEW e \in E, NEW k \in 0..Len(s)
  PROVE  SubSeq(Append(s, e), 1, k) = SubSeq(s, 1, k) /\ SubSeq(s, 1, k) \in Seq(E)
<1>1. /\ Append(s, e) \in Seq(E) /\ Len(Append(s, e)) = Len(s) + 1 /\ Len(s) \in Nat
      /\ \A i \in 1..Len(s) : Append(s, e)[i] = s[i]
  BY AppendProperties, LenProperties
<1>2. k \in Int /\ k <= Len(s) /\ k <= Len(Append(s, e)) /\ k = IF 1 <= k THEN k - 1 + 1 ELSE 0
  BY <1>1
<1>3. /\ SubSeq(s, 1, k) \in Seq(E) /\ Len(SubSeq(s, 1, k)) = k
      /\ \A i \in 1..k : SubSeq(s, 1, k)[i] = s[1 + i - 1]
  BY <1>2, PartOf
<1>4. /\ SubSeq(Append(s, e), 1, k) \in Seq(E) /\ Len(SubSeq(Append(s, e), 1, k)) = k
      /\ \A i \in 1..k : SubSeq(Append(s, e), 1, k)[i] = Append(s, e)[1 + i - 1]
  BY <1>1, <1>2, PartOf
<1>5. \A i \in 1..k : 1 + i - 1 = i /\ i \in 1..Len(s)
  BY <1>1, <1>2
<1>6. SubSeq(Append(s, e), 1, k) = SubSeq(s, 1, k)
  BY <1>1, <1>3, <1>4, <1>5, SeqEqual
<1> QED
  BY <1>3, <1>6

LEMMA OffsetTyped ==
  ASSUME NEW run \in Seq(Nodes), NEW k \in 1..(Len(run) + 1)
  PROVE  Offset(run, k) \in Nat
<1>0. Len(run) \in Nat
  BY LenProperties
<1>1. k - 1 \in Int /\ k - 1 <= Len(run)
  BY <1>0
<1>2. SubSeq(run, 1, k - 1) \in Seq(Nodes)
  BY <1>1, PartOf
<1> QED
  BY <1>2, TextTyped, LenProperties DEF Offset

LEMMA CutsTyped ==
  ASSUME NEW run \in Seq(Nodes), NEW from \in Nat, NEW to \in Nat
  PROVE  /\ CutsOf(run, from, to) \in [1..Len(run) -> Seq(Nodes)]
         /\ CutsOf(run, from, to) \in Seq(Seq(Nodes))
         /\ Slice(run, from, to) \in Seq(Nodes)
<1>1. Len(run) \in Nat /\ DOMAIN run = 1..Len(run) /\ \A k \in 1..Len(run) : run[k] \in Nodes
  BY LenProperties, ElementOfSeq
<1>2. ASSUME NEW k \in 1..Len(run) PROVE Cut(run[k], Offset(run, k), from, to) \in Seq(Nodes)
  <2>1. k \in 1..(Len(run) + 1)
    BY <1>1
  <2> QED
    BY <1>1, <2>1, OffsetTyped, CutKeeps
<1>3. CutsOf(run, from, to) \in [1..Len(run) -> Seq(Nodes)]
  BY <1>1, <1>2 DEF CutsOf
<1>4. CutsOf(run, from, to) \in Seq(Seq(Nodes))
  BY <1>1, <1>3, FunctionIsSeq
<1> QED
  BY <1>3, <1>4, SliceFlattens, FlattenedTyped

LEMMA SliceAppends ==
  ASSUME NEW run \in Seq(Nodes), NEW node \in Nodes, NEW from \in Nat, NEW to \in Nat
  PROVE  Slice(Append(run, node), from, to) =
           Slice(run, from, to) \o Cut(node, Len(TextOf(run)), from, to)
<1> DEFINE more == Append(run, node)
           f == CutsOf(run, from, to)
           g == CutsOf(more, from, to)
<1>1. /\ Len(run) \in Nat /\ DOMAIN run = 1..Len(run)
      /\ more \in Seq(Nodes) /\ Len(more) = Len(run) + 1 /\ DOMAIN more = 1..(Len(run) + 1)
      /\ \A k \in 1..Len(run) : more[k] = run[k]
      /\ more[Len(run) + 1] = node
  BY AppendProperties, LenProperties
<1>2. ASSUME NEW k \in 1..(Len(run) + 1) PROVE Offset(more, k) = Len(TextOf(SubSeq(run, 1, k - 1)))
  <2>1. k - 1 \in 0..Len(run)
    BY <1>1
  <2> QED
    BY <2>1, PrefixIs DEF Offset
<1>3. Offset(more, Len(run) + 1) = Len(TextOf(run))
  <2>1. Len(run) + 1 \in 1..(Len(run) + 1) /\ (Len(run) + 1) - 1 = Len(run)
    BY <1>1
  <2> QED
    BY <1>2, <2>1, SubSeqFull
<1> HIDE DEF more
<1>4. \A k \in 1..Len(run) : g[k] = f[k]
  <2> SUFFICES ASSUME NEW k \in 1..Len(run) PROVE g[k] = f[k]
    OBVIOUS
  <2>1. k \in 1..(Len(run) + 1) /\ k \in DOMAIN more /\ k \in DOMAIN run
    BY <1>1
  <2>2. Offset(more, k) = Offset(run, k)
    BY <1>2, <2>1 DEF Offset
  <2> QED
    BY <1>1, <2>1, <2>2 DEF CutsOf
<1>5. g[Len(run) + 1] = Cut(node, Len(TextOf(run)), from, to)
  <2>1. Len(run) + 1 \in DOMAIN more
    BY <1>1
  <2> QED
    BY <1>1, <1>3, <2>1 DEF CutsOf
<1>6. /\ f \in [1..Len(run) -> Seq(Nodes)] /\ f \in Seq(Seq(Nodes))
      /\ g \in [1..(Len(run) + 1) -> Seq(Nodes)]
  BY <1>1, CutsTyped
<1> HIDE DEF f, g
<1>7. g = Append(f, g[Len(run) + 1])
  BY <1>1, <1>4, <1>6, OneLonger
<1>8. g[Len(run) + 1] \in Seq(Nodes)
  <2>1. Len(run) + 1 \in 1..(Len(run) + 1)
    BY <1>1
  <2> QED
    BY <1>6, <2>1
<1>9. FlattenSeq(g) = FlattenSeq(f) \o g[Len(run) + 1]
  BY <1>6, <1>7, <1>8, FlattenAppends
<1> QED
  BY <1>5, <1>9, SliceFlattens DEF f, g, more

(* A slice has the marked text between two offsets. *)
Kept(run, from, to) ==
  Marked(Slice(run, from, to)) = SubSeq(Marked(run), from + 1, Least(to, Len(Marked(run))))

LEMMA SliceKeeps ==
  ASSUME NEW run \in Seq(Nodes), NEW from \in Nat, NEW to \in Nat
  PROVE  Kept(run, from, to)
<1> DEFINE S == {r \in Seq(Nodes) : Kept(r, from, to)}
           E == Characters \X Marking
<1>1. <<>> \in S
  <2>1. CutsOf(<<>>, from, to) = <<>>
    BY DEF CutsOf
  <2>2. Marked(Slice(<<>>, from, to)) = <<>>
    BY <2>1, SliceFlattens, FlattenNothing, NothingMarked
  <2>3. Least(to, 0) = 0
    BY DEF Least
  <2>4. SubSeq(<<>>, from + 1, 0) = <<>>
    BY SubSeqEmpty
  <2> QED
    BY <2>2, <2>3, <2>4, NothingMarked, EmptySeq DEF Kept
<1>2. ASSUME NEW r \in Seq(Nodes), NEW node \in Nodes, r \in S PROVE Append(r, node) \in S
  <2> DEFINE m == Marked(r)
             n == MarkedNode(node)
             cut == Cut(node, Len(TextOf(r)), from, to)
  <2>1. Append(r, node) \in Seq(Nodes) /\ Kept(r, from, to)
    BY <1>2, AppendProperties
  <2>2. /\ m \in Seq(E) /\ n \in Seq(E) /\ Len(TextOf(r)) = Len(m) /\ Len(n) = Len(node.text)
        /\ Len(m) \in Nat /\ Len(n) \in Nat
    BY TextTyped, MarkedNodeTyped, MarkedIsText, LenProperties DEF SaysTheSame
  <2>3. Marked(Append(r, node)) = m \o n
    BY TextAppends
  <2>4. /\ cut \in Seq(Nodes)
        /\ Marked(cut) = SubSeq(n, Greatest(from, Len(m)) - Len(m) + 1, Least(to - Len(m), Len(n)))
    <3>1. PICK k \in Nat : k = Len(TextOf(r)) /\ k = Len(m)
      BY <2>2
    <3>2. /\ Cut(node, k, from, to) \in Seq(Nodes)
          /\ Marked(Cut(node, k, from, to)) =
               SubSeq(n, Greatest(from, k) - k + 1, Least(to - k, Len(node.text)))
      BY CutKeeps
    <3> HIDE DEF m, n
    <3> QED
      BY <2>2, <3>1, <3>2
  <2>5. Slice(r, from, to) \in Seq(Nodes)
    BY CutsTyped
  <2>6. Marked(Slice(Append(r, node), from, to)) = Marked(Slice(r, from, to)) \o Marked(cut)
    BY <2>4, <2>5, SliceAppends, MarkedConcatenates
  <2> HIDE DEF m, n, cut, E
  <2>7. Marked(Slice(r, from, to)) = SubSeq(m, from + 1, Least(to, Len(m)))
    BY <2>1 DEF m, Kept
  <2>8. SubSeq(m \o n, from + 1, Least(to, Len(m) + Len(n))) =
          SubSeq(m, from + 1, Least(to, Len(m)))
            \o SubSeq(n, Greatest(from, Len(m)) - Len(m) + 1, Least(to - Len(m), Len(n)))
    <3>1. RangeSplits(m, n, from, to)
      BY <2>2, RangeOfTwo
    <3> QED
      BY <3>1 DEF RangeSplits
  <2>9. Len(m \o n) = Len(m) + Len(n)
    BY <2>2, ConcatProperties
  <2>10. Kept(Append(r, node), from, to)
    BY <2>3, <2>4, <2>6, <2>7, <2>8, <2>9 DEF m, Kept
  <2> QED
    BY <2>1, <2>10
<1> HIDE DEF S
<1>3. Seq(Nodes) \subseteq S
  BY <1>1, <1>2, EverySequence
<1> QED
  BY <1>3 DEF S

LEMMA SliceIs ==
  ASSUME NEW run \in Seq(Nodes), NEW from \in Nat, NEW to \in Nat, to <= Len(Marked(run))
  PROVE  Marked(Slice(run, from, to)) = SubSeq(Marked(run), from + 1, to)
<1>1. PICK n \in Nat : n = Len(Marked(run))
  BY MarkedIsText, LenProperties DEF SaysTheSame
<1>2. Least(to, n) = to
  BY <1>1 DEF Least
<1>3. Kept(run, from, to)
  BY SliceKeeps
<1> QED
  BY <1>1, <1>2, <1>3 DEF Kept

-----------------------------------------------------------------------------
(* The splice.                                                             *)

LEMMA PrefixCommon ==
  ASSUME NEW E, NEW s \in Seq(E), NEW t \in Seq(E)
  PROVE  /\ CommonPrefix(s, t) \in Nat /\ CommonPrefix(s, t) <= Len(s) /\ CommonPrefix(s, t) <= Len(t)
         /\ \A i \in 1..CommonPrefix(s, t) : s[i] = t[i]
<1>1. PICK a \in Nat, b \in Nat : a = Len(s) /\ b = Len(t)
  BY LenProperties
<1> DEFINE limit == Least(a, b)
           Ends(n) == n < limit => s[n + 1] # t[n + 1]
           Stops == {n \in Nat : n <= limit /\ Ends(n)}
<1>2. limit \in Nat /\ limit <= a /\ limit <= b
  BY DEF Least
<1> HIDE DEF limit
<1>3. limit \in Stops
  BY <1>2
<1>4. PICK n \in Stops : \A m \in Stops : n <= m
  BY <1>3, LeastNatural
<1>5. ASSUME NEW i \in 1..n PROVE s[i] = t[i]
  <2>1. i - 1 \in Nat /\ i - 1 < n /\ n <= limit /\ (i - 1) + 1 = i
    BY <1>2, <1>4
  <2>2. i - 1 \notin Stops
    BY <1>4, <2>1
  <2> QED
    BY <1>2, <2>1, <2>2
<1>6. \E m \in 0..limit : /\ \A i \in 1..m : s[i] = t[i]
                          /\ m < limit => s[m + 1] # t[m + 1]
  <2>1. n \in 0..limit
    BY <1>2, <1>4
  <2> QED
    BY <1>4, <1>5, <2>1
<1>7. CommonPrefix(s, t) = CHOOSE m \in 0..limit : /\ \A i \in 1..m : s[i] = t[i]
                                                   /\ m < limit => s[m + 1] # t[m + 1]
  BY <1>1 DEF CommonPrefix, limit
<1>8. CommonPrefix(s, t) \in 0..limit /\ \A i \in 1..CommonPrefix(s, t) : s[i] = t[i]
  BY <1>6, <1>7
<1> QED
  BY <1>1, <1>2, <1>8

(* Two sequences end alike for c characters, none of their first p. *)
EndAlike(s, t, p, c) ==
  /\ c \in Nat /\ p + c <= Len(s) /\ p + c <= Len(t)
  /\ \A j \in 1..c : s[Len(s) - j + 1] = t[Len(t) - j + 1]

LEMMA SuffixCommon ==
  ASSUME NEW E, NEW s \in Seq(E), NEW t \in Seq(E), NEW p \in Nat, p <= Len(s), p <= Len(t)
  PROVE  EndAlike(s, t, p, CommonSuffix(s, t, p))
<1>1. PICK a \in Nat, b \in Nat : a = Len(s) /\ b = Len(t)
  BY LenProperties
<1> DEFINE rs == Reverse(s)
           rt == Reverse(t)
           c == CommonPrefix(rs, rt)
<1>2. /\ \A i \in 1..a : s[i] \in E
      /\ \A i \in 1..b : t[i] \in E
  BY <1>1, ElementOfSeq
<1>3. rs \in [1..a -> E] /\ rt \in [1..b -> E]
  <2>1. \A i \in 1..a : a - i + 1 \in 1..a
    OBVIOUS
  <2>2. \A i \in 1..b : b - i + 1 \in 1..b
    OBVIOUS
  <2> QED
    BY <1>1, <1>2, <2>1, <2>2 DEF Reverse
<1>4. /\ \A i \in 1..a : rs[i] = s[a - i + 1]
      /\ \A i \in 1..b : rt[i] = t[b - i + 1]
  BY <1>1 DEF Reverse
<1> HIDE DEF rs, rt
<1>5. rs \in Seq(E) /\ rt \in Seq(E) /\ Len(rs) = a /\ Len(rt) = b
  BY <1>3, FunctionIsSeq
<1>6. c \in Nat /\ c <= a /\ c <= b /\ \A i \in 1..c : rs[i] = rt[i]
  BY <1>5, PrefixCommon
<1> HIDE DEF c
<1>7. CommonSuffix(s, t, p) = Least(c, Least(a, b) - p)
  BY <1>1 DEF CommonSuffix, rs, rt, c
<1>8. PICK d : d = CommonSuffix(s, t, p)
  OBVIOUS
<1>9. d \in Nat /\ p + d <= a /\ p + d <= b /\ d <= c
  BY <1>1, <1>6, <1>7, <1>8 DEF Least
<1>10. ASSUME NEW j \in 1..d PROVE s[a - j + 1] = t[b - j + 1]
  <2>1. j \in 1..c /\ j \in 1..a /\ j \in 1..b
    BY <1>6, <1>9
  <2> QED
    BY <1>4, <1>6, <2>1
<1> QED
  BY <1>1, <1>8, <1>9, <1>10 DEF EndAlike

LEMMA InheritedTyped ==
  ASSUME NEW run \in Seq(Nodes), NEW from \in Nat, NEW to \in Nat
  PROVE  Inherited(run, from, to) \in Marking
<1>1. ASSUME NEW offset PROVE NodeAt(run, offset) = 0 \/ NodeAt(run, offset) \in DOMAIN run
  BY DEF NodeAt
<1> DEFINE anchor == NodeAt(run, IF from = to THEN Greatest(1, from) - 1 ELSE from)
<1>2. anchor = 0 \/ anchor \in DOMAIN run
  BY <1>1
<1> HIDE DEF anchor
<1>3. Inherited(run, from, to) = Plain \/ (anchor # 0 /\ Inherited(run, from, to) = run[anchor].marks)
  BY DEF Inherited, anchor
<1>4. CASE anchor # 0 /\ Inherited(run, from, to) = run[anchor].marks
  <2>1. run[anchor] \in Nodes
    BY <1>2, <1>4, ElementOfSeq, LenProperties
  <2> QED
    BY <1>4, <2>1 DEF Nodes
<1>5. CASE Inherited(run, from, to) = Plain
  BY <1>5 DEF Marking
<1> QED
  BY <1>3, <1>4, <1>5

(* What an edit gives: what was before the change, what was typed, and what was after. *)
Spliced(was, is, before, next) ==
  LET from   == CommonPrefix(before, next)
      suffix == CommonSuffix(before, next, from)
  IN  /\ Len(is) = Len(next) /\ \A i \in 1..Len(next) : is[i][1] = next[i]
      /\ SubSeq(is, 1, from) = SubSeq(was, 1, from)
      /\ SubSeq(is, Len(is) - suffix + 1, Len(is)) = SubSeq(was, Len(was) - suffix + 1, Len(was))

(* A head of one sequence, something, and a tail of the first. *)
Assembled(is, was, mid, from, suffix, L, N) ==
  /\ Len(is) = N
  /\ \A i \in 1..N : /\ i <= from => is[i] = was[i]
                     /\ ~(i <= from) /\ i <= N - suffix => is[i] = mid[i - from]
                     /\ ~(i <= N - suffix) => is[i] = was[L - N + i]
  /\ SubSeq(is, 1, from) = SubSeq(was, 1, from)
  /\ SubSeq(is, N - suffix + 1, N) = SubSeq(was, L - suffix + 1, L)

LEMMA Assembling ==
  ASSUME NEW E, NEW was \in Seq(E), NEW mid \in Seq(E), NEW from \in Nat, NEW suffix \in Nat,
         NEW L \in Nat, NEW N \in Nat, Len(was) = L, from + suffix <= L, from + suffix <= N,
         Len(mid) = N - suffix - from
  PROVE  Assembled((SubSeq(was, 1, from) \o mid) \o SubSeq(was, L - suffix + 1, L),
                   was, mid, from, suffix, L, N)
<1> DEFINE head == SubSeq(was, 1, from)
           tail == SubSeq(was, L - suffix + 1, L)
           hm == head \o mid
           is == hm \o tail
           k == N - suffix
<1>1. k \in Nat /\ from <= k /\ k <= N /\ k - from \in Nat /\ from + (k - from) = k /\ k + suffix = N
  OBVIOUS
<1>2. Len(mid) = k - from
  OBVIOUS
<1>4. head \in Seq(E) /\ Len(head) = from /\ \A i \in 1..from : head[i] = was[i]
  <2>1. /\ head \in Seq(E) /\ Len(head) = from /\ \A i \in 1..from : head[i] = was[1 + i - 1]
    <3>1. from = (IF 1 <= from THEN from - 1 + 1 ELSE 0) /\ from <= Len(was)
      OBVIOUS
    <3> QED
      BY <3>1, PartOf
  <2>2. \A i \in 1..from : 1 + i - 1 = i
    OBVIOUS
  <2> QED
    BY <2>1, <2>2
<1>5. /\ tail \in Seq(E) /\ Len(tail) = suffix
      /\ \A i \in 1..suffix : tail[i] = was[L - suffix + i]
  <2>1. PICK m : m = L - suffix + 1
    OBVIOUS
  <2>2. /\ SubSeq(was, m, L) \in Seq(E) /\ Len(SubSeq(was, m, L)) = suffix
        /\ \A i \in 1..suffix : SubSeq(was, m, L)[i] = was[m + i - 1]
    <3>1. m \in Int /\ 1 <= m /\ L <= Len(was) /\ suffix = IF m <= L THEN L - m + 1 ELSE 0
      BY <2>1
    <3> QED
      BY <3>1, PartOf
  <2>3. \A i \in 1..suffix : m + i - 1 = L - suffix + i
    BY <2>1
  <2> QED
    BY <2>1, <2>2, <2>3
<1> HIDE DEF head, tail, hm, k
<1>7. /\ hm \in Seq(E) /\ Len(hm) = k
      /\ \A i \in 1..k : hm[i] = IF i <= from THEN head[i] ELSE mid[i - from]
  <2>1. /\ head \o mid \in Seq(E) /\ Len(head \o mid) = Len(head) + Len(mid)
        /\ \A i \in 1..(Len(head) + Len(mid)) :
             (head \o mid)[i] = IF i <= Len(head) THEN head[i] ELSE mid[i - Len(head)]
    BY <1>4, ConcatProperties
  <2>2. Len(head) = from /\ Len(head) + Len(mid) = k
    BY <1>1, <1>2, <1>4
  <2> QED
    BY <2>1, <2>2 DEF hm
<1>8. /\ is \in Seq(E) /\ Len(is) = N
      /\ \A i \in 1..N : is[i] = IF i <= k THEN hm[i] ELSE tail[i - k]
  <2>1. /\ hm \o tail \in Seq(E) /\ Len(hm \o tail) = Len(hm) + Len(tail)
        /\ \A i \in 1..(Len(hm) + Len(tail)) :
             (hm \o tail)[i] = IF i <= Len(hm) THEN hm[i] ELSE tail[i - Len(hm)]
    <3>1. hm \in Seq(E) /\ tail \in Seq(E)
      BY <1>5, <1>7
    <3> QED
      BY <3>1, ConcatProperties
  <2>2. Len(hm) = k /\ Len(hm) + Len(tail) = N
    BY <1>1, <1>5, <1>7
  <2> QED
    BY <2>1, <2>2
<1> HIDE DEF is
<1>9. ASSUME NEW i \in 1..N
      PROVE  /\ i <= from => is[i] = was[i]
             /\ ~(i <= from) /\ i <= k => is[i] = mid[i - from]
             /\ ~(i <= k) => is[i] = was[L - N + i]
  <2>1. ASSUME i <= from PROVE is[i] = was[i]
    <3>1. i \in 1..from /\ i <= k /\ i \in 1..k
      BY <1>1, <2>1
    <3> QED
      BY <1>4, <1>7, <1>8, <2>1, <3>1
  <2>2. ASSUME ~(i <= from), i <= k PROVE is[i] = mid[i - from]
    <3>1. i \in 1..k
      BY <1>1, <2>2
    <3> QED
      BY <1>7, <1>8, <2>2, <3>1
  <2>3. ASSUME ~(i <= k) PROVE is[i] = was[L - N + i]
    <3>1. i - k \in 1..suffix /\ L - suffix + (i - k) = L - N + i
      BY <1>1, <2>3
    <3> QED
      BY <1>5, <1>8, <2>3, <3>1
  <2> QED
    BY <2>1, <2>2, <2>3
<1>11. SubSeq(is, 1, from) = head
  <2>1. from = (IF 1 <= from THEN from - 1 + 1 ELSE 0) /\ from <= N
    OBVIOUS
  <2>2. /\ SubSeq(is, 1, from) \in Seq(E) /\ Len(SubSeq(is, 1, from)) = from
        /\ \A i \in 1..from : SubSeq(is, 1, from)[i] = is[1 + i - 1]
    BY <1>8, <2>1, PartOf
  <2>3. ASSUME NEW i \in 1..from PROVE SubSeq(is, 1, from)[i] = head[i]
    <3>1. 1 + i - 1 = i /\ i \in 1..N /\ i <= from
      BY <2>1
    <3> QED
      BY <1>4, <1>9, <2>2, <3>1
  <2> QED
    BY <1>4, <2>2, <2>3, SeqEqual
<1>12. SubSeq(is, N - suffix + 1, N) = tail
  <2>1. PICK m : m = N - suffix + 1
    OBVIOUS
  <2>2. /\ SubSeq(is, m, N) \in Seq(E) /\ Len(SubSeq(is, m, N)) = suffix
        /\ \A i \in 1..suffix : SubSeq(is, m, N)[i] = is[m + i - 1]
    <3>1. m \in Int /\ 1 <= m /\ suffix = IF m <= N THEN N - m + 1 ELSE 0
      BY <2>1
    <3>2. N <= Len(is)
      BY <1>8
    <3> QED
      BY <1>8, <3>1, <3>2, PartOf
  <2>3. ASSUME NEW i \in 1..suffix PROVE SubSeq(is, m, N)[i] = tail[i]
    <3>1. /\ m + i - 1 \in 1..N /\ ~(m + i - 1 <= k)
          /\ L - N + (m + i - 1) = L - suffix + i
      BY <2>1 DEF k
    <3>2. is[m + i - 1] = was[L - N + (m + i - 1)]
      BY <1>9, <3>1
    <3> QED
      BY <1>5, <2>2, <3>1, <3>2
  <2>4. SubSeq(is, m, N) = tail
    BY <1>5, <2>2, <2>3, SeqEqual
  <2> QED
    BY <2>1, <2>4
<1>13. Assembled(is, was, mid, from, suffix, L, N)
  BY <1>8, <1>9, <1>11, <1>12 DEF Assembled, head, tail, k
<1> QED
  BY <1>13 DEF is, hm, head, tail

(* The first parts of marked characters. *)
Characterised(was, before) == \A i \in 1..Len(was) : before[i] = was[i][1]
TypedFrom(mid, next, from) == \A i \in 1..Len(mid) : mid[i][1] = next[from + i]

LEMMA JoinedPartsSplice ==
  ASSUME NEW C, NEW E, NEW before \in Seq(C), NEW next \in Seq(C),
         NEW was \in Seq(E), Len(was) = Len(before), Characterised(was, before),
         NEW mid \in Seq(E),
         Len(mid) = Len(next) - CommonSuffix(before, next, CommonPrefix(before, next))
                      - CommonPrefix(before, next),
         TypedFrom(mid, next, CommonPrefix(before, next))
  PROVE  Spliced(was, (SubSeq(was, 1, CommonPrefix(before, next)) \o mid)
                        \o SubSeq(was, Len(was) - CommonSuffix(before, next, CommonPrefix(before, next)) + 1,
                                  Len(was)),
                 before, next)
<1>1. PICK L \in Nat, N \in Nat : L = Len(before) /\ L = Len(was) /\ N = Len(next)
  BY LenProperties
<1>2. PICK from \in Nat : from = CommonPrefix(before, next)
  BY PrefixCommon
<1>3. from <= L /\ from <= N /\ \A i \in 1..from : before[i] = next[i]
  BY <1>1, <1>2, PrefixCommon
<1>4. PICK suffix : suffix = CommonSuffix(before, next, from)
  OBVIOUS
<1>5. /\ suffix \in Nat /\ from + suffix <= L /\ from + suffix <= N
      /\ \A j \in 1..suffix : before[L - j + 1] = next[N - j + 1]
  <2>1. from <= Len(before) /\ from <= Len(next)
    BY <1>1, <1>3
  <2>2. EndAlike(before, next, from, suffix)
    BY <1>4, <2>1, SuffixCommon
  <2> QED
    BY <1>1, <2>2 DEF EndAlike
<1> DEFINE is == (SubSeq(was, 1, from) \o mid) \o SubSeq(was, L - suffix + 1, L)
<1>6. Len(mid) = N - suffix - from
  BY <1>1, <1>2, <1>4
<1>7. Assembled(is, was, mid, from, suffix, L, N)
  BY <1>1, <1>5, <1>6, Assembling
<1> HIDE DEF is
<1>8. ASSUME NEW i \in 1..N PROVE is[i][1] = next[i]
  <2>1. CASE i <= from
    <3>1. i \in 1..from /\ i \in 1..L
      BY <1>3, <2>1
    <3>2. is[i] = was[i]
      BY <1>7, <2>1 DEF Assembled
    <3>3. before[i] = was[i][1]
      BY <1>1, <3>1 DEF Characterised
    <3> QED
      BY <1>3, <3>1, <3>2, <3>3
  <2>2. CASE ~(i <= from) /\ i <= N - suffix
    <3>1. i - from \in 1..(N - suffix - from) /\ from + (i - from) = i
      BY <1>5, <2>2
    <3>2. mid[i - from][1] = next[from + (i - from)]
      BY <1>2, <1>6, <3>1 DEF TypedFrom
    <3>3. is[i] = mid[i - from]
      BY <1>7, <2>2 DEF Assembled
    <3> QED
      BY <3>1, <3>2, <3>3
  <2>3. CASE ~(i <= N - suffix)
    <3>1. L - N + i \in 1..L /\ N - i + 1 \in 1..suffix
      BY <1>5, <2>3
    <3>2. before[L - (N - i + 1) + 1] = next[N - (N - i + 1) + 1]
      BY <1>5, <3>1
    <3>3. L - (N - i + 1) + 1 = L - N + i /\ N - (N - i + 1) + 1 = i
      OBVIOUS
    <3>4. before[L - N + i] = next[i]
      BY <3>2, <3>3
    <3>5. before[L - N + i] = was[L - N + i][1]
      BY <1>1, <3>1 DEF Characterised
    <3>6. is[i] = was[L - N + i]
      BY <1>7, <2>3 DEF Assembled
    <3> QED
      BY <3>4, <3>5, <3>6
  <2> QED
    BY <2>1, <2>2, <2>3
<1>9. /\ Len(is) = N /\ SubSeq(is, 1, from) = SubSeq(was, 1, from)
      /\ SubSeq(is, N - suffix + 1, N) = SubSeq(was, L - suffix + 1, L)
  BY <1>7 DEF Assembled
<1>10. Spliced(was, is, before, next)
  BY <1>1, <1>2, <1>4, <1>8, <1>9 DEF Spliced
<1> QED
  BY <1>1, <1>2, <1>4, <1>10 DEF is

(* What is typed takes part as a node of its own. *)
TypedAs(middle, next, from, to) ==
  /\ middle \in Nodes
  /\ MarkedNode(middle) \in Seq(Characters \X Marking)
  /\ Len(MarkedNode(middle)) = to - from
  /\ TypedFrom(MarkedNode(middle), next, from)

LEMMA MiddleTyped ==
  ASSUME NEW next \in Seq(Characters), NEW marks \in Marking, NEW from \in Nat, NEW to \in Nat,
         from <= to, to <= Len(next)
  PROVE  TypedAs(Node(SubSeq(next, from + 1, to), marks), next, from, to)
<1> DEFINE text == SubSeq(next, from + 1, to)
           middle == Node(text, marks)
<1>1. text \in Seq(Characters) /\ Len(text) = to - from
      /\ \A i \in 1..(to - from) : text[i] = next[from + i]
  <2>1. PICK m \in Int : m = from + 1
    OBVIOUS
  <2>2. 1 <= m /\ to \in Int /\ to - from = IF m <= to THEN to - m + 1 ELSE 0
    BY <2>1
  <2>3. /\ SubSeq(next, m, to) \in Seq(Characters) /\ Len(SubSeq(next, m, to)) = to - from
        /\ \A i \in 1..(to - from) : SubSeq(next, m, to)[i] = next[m + i - 1]
    BY <2>2, PartOf
  <2>4. \A i \in 1..(to - from) : m + i - 1 = from + i
    BY <2>1
  <2> QED
    BY <2>1, <2>3, <2>4
<1> HIDE DEF text
<1>2. middle \in Nodes /\ middle.text = text /\ middle.marks = marks
  BY <1>1, NodeTyped
<1> HIDE DEF middle
<1>3. /\ MarkedNode(middle) \in Seq(Characters \X Marking) /\ Len(MarkedNode(middle)) = to - from
      /\ \A i \in 1..(to - from) : MarkedNode(middle)[i] = <<text[i], marks>>
  BY <1>1, <1>2, MarkedNodeTyped
<1>4. TypedFrom(MarkedNode(middle), next, from)
  BY <1>1, <1>3 DEF TypedFrom
<1> QED
  BY <1>2, <1>3, <1>4 DEF TypedAs, middle, text

(* The general case: a head, what was typed and a tail. *)
Pieces(run, next) ==
  LET before == TextOf(run)
      from   == CommonPrefix(before, next)
      suffix == CommonSuffix(before, next, from)
      to     == Len(before) - suffix
      middle == Node(SubSeq(next, from + 1, Len(next) - suffix), Inherited(run, from, to))
  IN  Slice(run, 0, from) \o <<middle>> \o Slice(run, to, Len(before))

LEMMA ReplaceCases ==
  ASSUME NEW run, NEW next
  PROVE  \/ TextOf(run) = next /\ ReplaceInlineText(run, next) = run
         \/ TextOf(run) # next /\ next = <<>> /\ ReplaceInlineText(run, next) = <<>>
         \/ /\ TextOf(run) # next /\ next # <<>> /\ run = <<>>
            /\ ReplaceInlineText(run, next) = <<Node(next, Plain)>>
         \/ /\ TextOf(run) # next /\ next # <<>> /\ run # <<>>
            /\ ReplaceInlineText(run, next) = Merge(Pieces(run, next))
BY DEF ReplaceInlineText, Pieces

LEMMA PiecesSplice ==
  ASSUME NEW run \in Seq(Nodes), NEW next \in Seq(Characters)
  PROVE  /\ Pieces(run, next) \in Seq(Nodes)
         /\ Spliced(Marked(run), Marked(Pieces(run, next)), TextOf(run), next)
<1> DEFINE before == TextOf(run)
           was == Marked(run)
           E == Characters \X Marking
<1>1. before \in Seq(Characters) /\ was \in Seq(E) /\ Len(was) = Len(before) /\ Characterised(was, before)
  BY TextTyped, MarkedIsText DEF SaysTheSame, Characterised
<1> HIDE DEF before, was, E
<1>2. PICK L \in Nat, N \in Nat : L = Len(before) /\ L = Len(was) /\ N = Len(next)
  BY <1>1, LenProperties
<1>3. PICK from \in Nat : from = CommonPrefix(before, next)
  BY <1>1, PrefixCommon
<1>4. from <= L /\ from <= N
  BY <1>1, <1>2, <1>3, PrefixCommon
<1>5. PICK suffix : suffix = CommonSuffix(before, next, from)
  OBVIOUS
<1>6. suffix \in Nat /\ from + suffix <= L /\ from + suffix <= N
  <2>1. from <= Len(before) /\ from <= Len(next)
    BY <1>2, <1>4
  <2>2. EndAlike(before, next, from, suffix)
    BY <1>1, <1>5, <2>1, SuffixCommon
  <2> QED
    BY <1>2, <2>2 DEF EndAlike
<1>7. PICK to \in Nat, end \in Nat : to = L - suffix /\ end = N - suffix /\ from <= end /\ end <= N
  BY <1>6
<1> DEFINE marks == Inherited(run, from, to)
           middle == Node(SubSeq(next, from + 1, end), marks)
           head == Slice(run, 0, from)
           tail == Slice(run, to, L)
           typed == MarkedNode(middle)
<1>8. marks \in Marking
  BY InheritedTyped
<1>9. head \in Seq(Nodes) /\ tail \in Seq(Nodes)
  BY CutsTyped
<1>10. Marked(head) = SubSeq(was, 1, from)
  <2>1. PICK z \in Nat : z = 0
    OBVIOUS
  <2>2. from <= Len(Marked(run))
    BY <1>2, <1>4 DEF was
  <2>3. Marked(Slice(run, z, from)) = SubSeq(Marked(run), z + 1, from)
    BY <2>2, SliceIs
  <2>4. z + 1 = 1
    BY <2>1
  <2> QED
    BY <2>1, <2>3, <2>4 DEF was
<1>11. Marked(tail) = SubSeq(was, L - suffix + 1, L)
  <2>1. L <= Len(Marked(run))
    BY <1>2 DEF was
  <2>2. Marked(Slice(run, to, L)) = SubSeq(Marked(run), to + 1, L)
    BY <2>1, SliceIs
  <2>3. to + 1 = L - suffix + 1
    BY <1>7
  <2> QED
    BY <2>2, <2>3 DEF was
<1> HIDE DEF marks, head, tail
<1>12. /\ middle \in Nodes /\ typed \in Seq(E) /\ Len(typed) = end - from
       /\ TypedFrom(typed, next, from)
  <2>1. end <= Len(next)
    BY <1>2, <1>7
  <2> HIDE DEF middle, typed
  <2>2. TypedAs(Node(SubSeq(next, from + 1, end), marks), next, from, end)
    BY <1>7, <1>8, <2>1, MiddleTyped
  <2> QED
    BY <2>2 DEF TypedAs, middle, typed, E
<1>13. Pieces(run, next) = (head \o <<middle>>) \o tail
  BY <1>2, <1>3, <1>5, <1>7 DEF Pieces, before, head, tail, marks
<1> HIDE DEF middle, typed
<1>14. /\ <<middle>> \in Seq(Nodes) /\ head \o <<middle>> \in Seq(Nodes)
       /\ (head \o <<middle>>) \o tail \in Seq(Nodes)
  <2>1. <<middle>> \in Seq(Nodes)
    BY <1>12
  <2>2. head \o <<middle>> \in Seq(Nodes)
    BY <1>9, <2>1, ConcatProperties
  <2>3. (head \o <<middle>>) \o tail \in Seq(Nodes)
    BY <1>9, <2>2, ConcatProperties
  <2> QED
    BY <2>1, <2>2, <2>3
<1>15. Marked(head \o <<middle>>) = Marked(head) \o typed
  <2>1. head \o <<middle>> = Append(head, middle)
    BY <1>9, <1>12, AppendIsConcat
  <2> QED
    BY <1>9, <1>12, <2>1, TextAppends DEF typed
<1>16. Marked((head \o <<middle>>) \o tail) = (Marked(head) \o typed) \o Marked(tail)
  BY <1>9, <1>14, <1>15, MarkedConcatenates
<1>17. Len(typed) = Len(next) - CommonSuffix(before, next, CommonPrefix(before, next))
                      - CommonPrefix(before, next)
  <2>1. end - from = N - suffix - from
    BY <1>7
  <2> QED
    BY <1>2, <1>3, <1>5, <1>12, <2>1
<1>18. TypedFrom(typed, next, CommonPrefix(before, next))
  BY <1>3, <1>12
<1>19. Spliced(was, (SubSeq(was, 1, CommonPrefix(before, next)) \o typed)
                      \o SubSeq(was, Len(was) - CommonSuffix(before, next, CommonPrefix(before, next)) + 1,
                                Len(was)),
               before, next)
  BY <1>1, <1>12, <1>17, <1>18, JoinedPartsSplice
<1>20. Spliced(was, (SubSeq(was, 1, from) \o typed) \o SubSeq(was, L - suffix + 1, L), before, next)
  BY <1>2, <1>3, <1>5, <1>19
<1>21. Spliced(was, Marked(Pieces(run, next)), before, next)
  BY <1>10, <1>11, <1>13, <1>16, <1>20
<1> QED
  BY <1>13, <1>14, <1>21 DEF before, was

(* An edit gives a run that says what was typed, with the marks of what was there. *)
EditKept(run, next) ==
  LET edited == ReplaceInlineText(run, next)
  IN  /\ edited \in Seq(Nodes)
      /\ Spliced(Marked(run), Marked(edited), TextOf(run), next)
      /\ next # TextOf(run) => Seamless(edited)

LEMMA NothingSplices ==
  ASSUME NEW was, NEW before, NEW next, NEW is,
         CommonPrefix(before, next) = 0,
         CommonSuffix(before, next, 0) = 0, Len(was) \in Nat,
         Len(is) = Len(next), Len(next) \in Nat, \A i \in 1..Len(next) : is[i][1] = next[i]
  PROVE  Spliced(was, is, before, next)
<1>1. SubSeq(is, 1, 0) = <<>> /\ SubSeq(was, 1, 0) = <<>>
  BY SubSeqEmpty
<1>2. \A n \in Nat : n - 0 + 1 = n + 1 /\ n < n + 1
  OBVIOUS
<1>3. SubSeq(is, Len(is) - 0 + 1, Len(is)) = <<>> /\ SubSeq(was, Len(was) - 0 + 1, Len(was)) = <<>>
  <2>1. \A s : \A n \in Nat : SubSeq(s, n + 1, n) = <<>>
    <3> SUFFICES ASSUME NEW s, NEW n \in Nat PROVE SubSeq(s, n + 1, n) = <<>>
      OBVIOUS
    <3> QED
      BY SubSeqEmpty
  <2> QED
    BY <1>2, <2>1
<1> QED
  BY <1>1, <1>3 DEF Spliced

LEMMA EveryEditKept ==
  ASSUME NEW run \in Seq(Nodes), NEW next \in Seq(Characters)
  PROVE  EditKept(run, next)
<1> DEFINE before == TextOf(run)
           was == Marked(run)
           edited == ReplaceInlineText(run, next)
           E == Characters \X Marking
<1>1. before \in Seq(Characters) /\ was \in Seq(E) /\ Len(was) = Len(before)
      /\ \A i \in 1..Len(before) : was[i][1] = before[i]
  BY TextTyped, MarkedIsText DEF SaysTheSame
<1>2. Len(was) \in Nat /\ Len(before) \in Nat /\ Len(next) \in Nat
  BY <1>1, LenProperties
<1>3. CASE before = next /\ edited = run
  <2>1. Spliced(was, was, before, next)
    BY <1>1, <1>3 DEF Spliced
  <2> QED
    BY <1>3, <2>1 DEF EditKept
<1>4. ASSUME Len(before) = 0 \/ Len(next) = 0
      PROVE  CommonPrefix(before, next) = 0 /\ CommonSuffix(before, next, 0) = 0
  <2>1. CommonPrefix(before, next) = 0
    <3>1. /\ CommonPrefix(before, next) \in Nat
          /\ CommonPrefix(before, next) <= Len(before) /\ CommonPrefix(before, next) <= Len(next)
      BY <1>1, PrefixCommon
    <3> QED
      BY <1>2, <1>4, <3>1
  <2>2. CommonSuffix(before, next, 0) = 0
    <3>1. PICK z \in Nat : z = 0
      OBVIOUS
    <3>2. z <= Len(before) /\ z <= Len(next)
      BY <1>2, <3>1
    <3>3. EndAlike(before, next, z, CommonSuffix(before, next, z))
      BY <1>1, <3>2, SuffixCommon
    <3> QED
      BY <1>2, <1>4, <3>1, <3>3 DEF EndAlike
  <2> QED
    BY <2>1, <2>2
<1> HIDE DEF before, was, edited, E
<1>5. CASE before # next /\ next = <<>> /\ edited = <<>>
  <2>1. Len(next) = 0 /\ Marked(edited) = <<>> /\ edited \in Seq(Nodes) /\ Len(Marked(edited)) = 0
    BY <1>5, NothingMarked, EmptySeq
  <2>2. Spliced(was, Marked(edited), before, next)
    BY <1>2, <1>4, <2>1, NothingSplices
  <2>3. Seamless(edited)
    BY <1>5, EmptySeq DEF Seamless
  <2> QED
    BY <2>1, <2>2, <2>3 DEF EditKept, before, was, edited
<1>6. CASE before # next /\ next # <<>> /\ run = <<>> /\ edited = <<Node(next, Plain)>>
  <2> DEFINE node == Node(next, Plain)
  <2>0. Plain \in Marking
    BY DEF Marking
  <2>1. node \in Nodes /\ node.text = next
    BY <2>0, NodeTyped
  <2> HIDE DEF node
  <2>2. <<node>> = Append(<<>>, node) /\ <<>> \in Seq(Nodes) /\ <<node>> \in Seq(Nodes)
    BY <2>1, EmptySeq
  <2>3. Marked(<<node>>) = MarkedNode(node)
    <3>1. Marked(<<node>>) = Marked(<<>>) \o MarkedNode(node)
      BY <2>1, <2>2, TextAppends
    <3>2. MarkedNode(node) \in Seq(Characters \X Marking)
      BY <2>1, MarkedNodeTyped
    <3> QED
      BY <3>1, <3>2, NothingMarked, ConcatEmptySeq
  <2>4. /\ Len(MarkedNode(node)) = Len(next)
        /\ \A i \in 1..Len(next) : MarkedNode(node)[i][1] = next[i]
    BY <2>1, MarkedNodeTyped
  <2>5. Len(before) = 0
    BY <1>6, NothingMarked, EmptySeq DEF before
  <2>6. Spliced(was, Marked(<<node>>), before, next)
    BY <1>2, <1>4, <2>3, <2>4, <2>5, NothingSplices
  <2>7. Seamless(<<node>>)
    <3>1. Len(<<node>>) = 1 /\ <<node>>[1] = node
      OBVIOUS
    <3>2. \A n \in 1..1 : n = 1
      OBVIOUS
    <3>3. 1..(1 - 1) = {}
      OBVIOUS
    <3> QED
      BY <1>6, <2>1, <3>1, <3>2, <3>3 DEF Seamless
  <2> QED
    BY <1>6, <2>2, <2>6, <2>7 DEF EditKept, before, was, edited, node
<1>7. CASE before # next /\ next # <<>> /\ run # <<>> /\ edited = Merge(Pieces(run, next))
  <2>1. Pieces(run, next) \in Seq(Nodes) /\ Spliced(was, Marked(Pieces(run, next)), before, next)
    BY PiecesSplice DEF was, before
  <2>2. edited \in Seq(Nodes) /\ Marked(edited) = Marked(Pieces(run, next)) /\ Seamless(edited)
    BY <1>7, <2>1, MergeSteps, MergeKeeps
  <2> QED
    BY <2>1, <2>2 DEF EditKept, before, was, edited
<1> QED
  BY <1>3, <1>5, <1>6, <1>7, ReplaceCases DEF before, edited

-----------------------------------------------------------------------------
(* Identities.                                                             *)

Drafts == [id : Ids, runs : Seq(Seq(Nodes))]

\* No two blocks answer to one identity.
OwnIds(s) == \A i, j \in 1..Len(s) : i # j => s[i].id # s[j].id

Apart == {s \in Seq(Drafts) : OwnIds(s)}

\* Every identity can be drawn.
Lists(fresh) ==
  /\ fresh \in Seq(Ids)
  /\ \A id \in Ids : \E k \in 1..Len(fresh) : fresh[k] = id

LEMMA Identities ==
  ASSUME NEW s \in Seq(Drafts)
  PROVE  /\ IdsOf(s) \in SUBSET Ids /\ Cardinality(IdsOf(s)) \in Nat
         /\ Cardinality(IdsOf(s)) <= Len(s)
         /\ OwnIds(s) => Cardinality(IdsOf(s)) = Len(s)
<1>1. Len(s) \in Nat /\ DOMAIN s = 1..Len(s) /\ \A k \in 1..Len(s) : s[k] \in Drafts
  BY LenProperties, ElementOfSeq
<1>2. IdsOf(s) \in SUBSET Ids
  BY <1>1 DEF IdsOf, Drafts
<1>3. Cardinality(IdsOf(s)) \in Nat
  BY <1>2, BlocksAssumption, FS_Subset, FS_CardinalityType
<1> DEFINE T == IdsOf(s)
           n == Len(s)
           f == [k \in 1..n |-> s[k].id]
<1>4. f \in [1..n -> T] /\ \A t \in T : \E k \in 1..n : f[k] = t
  BY <1>1 DEF IdsOf
<1>5. OwnIds(s) => \A a, b \in 1..n : f[a] = f[b] => a = b
  BY DEF OwnIds
<1> HIDE DEF f, T, n
<1>6. ExistsSurjection(1..n, T)
  <2>1. f \in Surjection(1..n, T)
    BY <1>4, Fun_IsSurj
  <2> QED
    BY <2>1, Fun_ExistsSurj
<1>7. Cardinality(T) <= n
  BY <1>1, <1>6, FS_SurjCardinalityBound DEF n
<1>8. ASSUME OwnIds(s) PROVE Cardinality(T) = n
  <2>1. f \in Bijection(1..n, T)
    BY <1>4, <1>5, <1>8, Fun_IsBij
  <2>2. ExistsBijection(1..n, T)
    BY <2>1, Fun_ExistsBij
  <2> QED
    BY <1>1, <2>2, FS_CountingElements DEF n
<1> QED
  BY <1>2, <1>3, <1>7, <1>8 DEF T, n

LEMMA NewIdIsNew ==
  ASSUME NEW fresh, Lists(fresh), NEW taken \in SUBSET Ids, taken # Ids
  PROVE  NewId(fresh, taken) \in Ids \ taken
<1>1. /\ Len(fresh) \in Nat /\ DOMAIN fresh = 1..Len(fresh)
      /\ \A k \in 1..Len(fresh) : fresh[k] \in Ids
  BY LenProperties, ElementOfSeq DEF Lists
<1> DEFINE S == {k \in 1..Len(fresh) : fresh[k] \notin taken}
<1>2. S # {} /\ S \in SUBSET Nat
  <2>1. PICK id \in Ids : id \notin taken
    OBVIOUS
  <2>2. PICK k \in 1..Len(fresh) : fresh[k] = id
    BY DEF Lists
  <2> QED
    BY <1>1, <2>1, <2>2
<1>3. PICK n \in S : \A m \in S : n <= m
  BY <1>2, LeastNatural
<1>4. ASSUME NEW j \in 1..(n - 1) PROVE fresh[j] \in taken
  <2>1. j \in 1..Len(fresh) /\ ~(n <= j)
    BY <1>1, <1>3
  <2> QED
    BY <1>3, <2>1
<1>5. \E k \in DOMAIN fresh : fresh[k] \notin taken /\ \A j \in 1..(k - 1) : fresh[j] \in taken
  BY <1>1, <1>3, <1>4
<1> DEFINE c == CHOOSE k \in DOMAIN fresh :
                  fresh[k] \notin taken /\ \A j \in 1..(k - 1) : fresh[j] \in taken
<1>6. c \in DOMAIN fresh /\ fresh[c] \notin taken
  BY <1>5
<1>7. NewId(fresh, taken) = fresh[c]
  BY DEF NewId
<1> HIDE DEF c
<1> QED
  BY <1>1, <1>6, <1>7

LEMMA EveryIdListed == Lists(SetToSeq(Ids)) /\ Lists(Reverse(SetToSeq(Ids)))
<1> DEFINE n == Cardinality(Ids)
           s == SetToSeq(Ids)
           r == Reverse(s)
<1>1. n \in Nat /\ ExistsBijection(1..n, Ids)
  BY BlocksAssumption, FS_CardinalityType
<1>2. s \in [1..n -> Ids] /\ IsInjective(s)
  <2>1. PICK f : f \in Bijection(1..n, Ids)
    BY <1>1, Fun_ExistsBij
  <2>2. f \in [1..n -> Ids] /\ f \in Injection(1..n, Ids)
    BY <2>1, Fun_BijectionProperties
  <2>3. IsInjective(f)
    BY <2>2 DEF Injection
  <2> QED
    BY <2>2, <2>3 DEF SetToSeq
<1> HIDE DEF s
<1>3. \A id \in Ids : \E k \in 1..n : s[k] = id
  <2>1. s \in Injection(1..n, Ids)
    BY <1>2 DEF Injection
  <2>2. Cardinality(1..n) = n
    <3>1. ExistsBijection(1..n, 1..n)
      BY Fun_ExistsBijReflexive
    <3> QED
      BY <1>1, <3>1, FS_CountingElements
  <2>3. s \in Surjection(1..n, Ids)
    BY <2>1, <2>2, BlocksAssumption, FS_Injection
  <2> QED
    BY <2>3 DEF Surjection
<1>4. s \in Seq(Ids) /\ Len(s) = n
  BY <1>1, <1>2, FunctionIsSeq
<1>5. r \in [1..n -> Ids] /\ \A k \in 1..n : r[k] = s[n - k + 1]
  <2>1. \A k \in 1..n : n - k + 1 \in 1..n
    BY <1>1
  <2> QED
    BY <1>2, <1>4, <2>1 DEF Reverse
<1> HIDE DEF r, n
<1>6. r \in Seq(Ids) /\ Len(r) = n
  BY <1>1, <1>5, FunctionIsSeq
<1>7. ASSUME NEW id \in Ids PROVE \E k \in 1..n : r[k] = id
  <2>1. PICK k \in 1..n : s[k] = id
    BY <1>3
  <2>2. n - k + 1 \in 1..n /\ n - (n - k + 1) + 1 = k
    BY <1>1
  <2> QED
    BY <1>5, <2>1, <2>2
<1> QED
  BY <1>3, <1>4, <1>6, <1>7 DEF Lists, s, r

Identified(fresh, out, block) ==
  Append(out, IF block.id \notin IdsOf(out) THEN block
              ELSE [block EXCEPT !.id = NewId(fresh, IdsOf(out))])

NewlyIdentified(fresh, out, block) ==
  Identified(fresh, out, block) \in Apart /\ Len(Identified(fresh, out, block)) = Len(out) + 1

LEMMA IdentifiedApart ==
  ASSUME NEW fresh, Lists(fresh), NEW out \in Apart, Len(out) < MaxBlocks, NEW block \in Drafts
  PROVE  NewlyIdentified(fresh, out, block)
<1>1. out \in Seq(Drafts) /\ OwnIds(out) /\ Len(out) \in Nat
  BY LenProperties DEF Apart
<1>2. IdsOf(out) \in SUBSET Ids /\ IdsOf(out) # Ids
  <2>1. /\ IdsOf(out) \in SUBSET Ids /\ Cardinality(IdsOf(out)) \in Nat
        /\ Cardinality(IdsOf(out)) <= Len(out)
    BY <1>1, Identities
  <2>2. Cardinality(Ids) \in Nat
    BY BlocksAssumption, FS_CardinalityType
  <2> QED
    BY <1>1, <2>1, <2>2, BlocksAssumption
<1> DEFINE next == IF block.id \notin IdsOf(out) THEN block
                   ELSE [block EXCEPT !.id = NewId(fresh, IdsOf(out))]
<1>3. next \in Drafts /\ next.id \notin IdsOf(out)
  <2>1. CASE block.id \notin IdsOf(out)
    BY <2>1
  <2>2. CASE block.id \in IdsOf(out)
    <3>1. NewId(fresh, IdsOf(out)) \in Ids /\ NewId(fresh, IdsOf(out)) \notin IdsOf(out)
      BY <1>2, NewIdIsNew
    <3>2. next = [block EXCEPT !.id = NewId(fresh, IdsOf(out))]
      BY <2>2
    <3> HIDE DEF next
    <3> QED
      BY <3>1, <3>2 DEF Drafts
  <2> QED
    BY <2>1, <2>2
<1>4. Identified(fresh, out, block) = Append(out, next)
  BY DEF Identified
<1> HIDE DEF next
<1>5. /\ Append(out, next) \in Seq(Drafts) /\ Len(Append(out, next)) = Len(out) + 1
      /\ \A i \in 1..Len(out) : Append(out, next)[i] = out[i]
      /\ Append(out, next)[Len(out) + 1] = next
  BY <1>1, <1>3, AppendProperties
<1>6. \A i \in 1..Len(out) : out[i].id # next.id
  <2>1. DOMAIN out = 1..Len(out)
    BY <1>1, LenProperties
  <2> QED
    BY <1>3, <2>1 DEF IdsOf
<1>7. OwnIds(Append(out, next))
  <2> SUFFICES ASSUME NEW i \in 1..(Len(out) + 1), NEW j \in 1..(Len(out) + 1), i # j
               PROVE  Append(out, next)[i].id # Append(out, next)[j].id
    BY <1>5 DEF OwnIds
  <2>1. CASE i \in 1..Len(out) /\ j \in 1..Len(out)
    BY <1>1, <1>5, <2>1 DEF OwnIds
  <2>2. CASE i = Len(out) + 1
    <3>1. j \in 1..Len(out)
      BY <1>1, <2>2
    <3> QED
      BY <1>5, <1>6, <2>2, <3>1
  <2>3. CASE j = Len(out) + 1
    <3>1. i \in 1..Len(out)
      BY <1>1, <2>3
    <3> QED
      BY <1>5, <1>6, <2>3, <3>1
  <2> QED
    BY <1>1, <2>1, <2>2, <2>3
<1> QED
  BY <1>4, <1>5, <1>7 DEF Apart, NewlyIdentified

UniqueAll(s, fresh) ==
  CHOOSE iter : iter = [x \in SUBSET (DOMAIN s) |->
                          IF x = {} THEN <<>> ELSE Identified(fresh, iter[x \ {Max(x)}], s[Max(x)])]

LEMMA UniqueIdsFold == \A s, fresh : WithUniqueIds(s, fresh) = UniqueAll(s, fresh)[DOMAIN s]
BY DEF WithUniqueIds, FoldLeft, MapThenFoldSet, UniqueAll, Identified

(* The same, leaving out what would not be told apart. *)
Identifying(fresh) ==
  [p \in Apart \X Drafts |->
     IF Identified(fresh, p[1], p[2]) \in Apart /\ Len(p[1]) < MaxBlocks
     THEN Identified(fresh, p[1], p[2]) ELSE p[1]]

LEMMA IdentifyingTyped ==
  ASSUME NEW fresh, Lists(fresh)
  PROVE  /\ Identifying(fresh) \in [Apart \X Drafts -> Apart]
         /\ \A out \in Apart, block \in Drafts :
              /\ Len(out) < MaxBlocks => Identifying(fresh)[<<out, block>>] = Identified(fresh, out, block)
              /\ Len(Identifying(fresh)[<<out, block>>]) <= Len(out) + 1
<1>1. Identifying(fresh) \in [Apart \X Drafts -> Apart]
  BY DEF Identifying
<1>2. ASSUME NEW out \in Apart, NEW block \in Drafts
      PROVE  /\ Len(out) < MaxBlocks => Identifying(fresh)[<<out, block>>] = Identified(fresh, out, block)
             /\ Len(Identifying(fresh)[<<out, block>>]) <= Len(out) + 1
  <2>1. Len(out) \in Nat
    BY LenProperties DEF Apart
  <2>2. CASE Len(out) < MaxBlocks
    <3>1. Identified(fresh, out, block) \in Apart /\ Len(Identified(fresh, out, block)) = Len(out) + 1
      BY <2>2, IdentifiedApart DEF NewlyIdentified
    <3>2. Identifying(fresh)[<<out, block>>] = Identified(fresh, out, block)
      BY <2>2, <3>1 DEF Identifying
    <3> QED
      BY <2>1, <3>1, <3>2
  <2>3. CASE ~(Len(out) < MaxBlocks)
    <3>1. Identifying(fresh)[<<out, block>>] = out
      BY <2>3 DEF Identifying
    <3> QED
      BY <2>1, <2>3, <3>1
  <2> QED
    BY <2>2, <2>3
<1> QED
  BY <1>1, <1>2

LEMMA NothingApart == <<>> \in Apart /\ Len(<<>>) = 0
BY EmptySeq DEF Apart, OwnIds

(* The fold draws an identity at every step, there being one to draw. *)
LEMMA UniqueIdsApart ==
  ASSUME NEW fresh, Lists(fresh), NEW s \in Seq(Drafts), Len(s) <= MaxBlocks
  PROVE  WithUniqueIds(s, fresh) \in Apart
<1>0. Len(s) \in Nat /\ DOMAIN s = 1..Len(s)
  BY LenProperties
<1> DEFINE up == Identifying(fresh)
<1>1. PICK g \in [SUBSET (DOMAIN s) -> Apart] : FoldOn(g, Len(s), s, <<>>, up)
  BY NothingApart, IdentifyingTyped, FoldExists
<1> HIDE DEF up
<1> DEFINE Short(k) == \A x \in SUBSET (1..k) : Len(g[x]) <= k
           N == {k \in Nat : k <= Len(s) => Short(k)}
<1>2. ASSUME NEW x \in SUBSET (DOMAIN s), x # {}
      PROVE  /\ Max(x) \in DOMAIN s /\ s[Max(x)] \in Drafts /\ x \ {Max(x)} \in SUBSET (DOMAIN s)
             /\ g[x] = up[<<g[x \ {Max(x)}], s[Max(x)]>>] /\ g[x \ {Max(x)}] \in Apart
  <2>1. Max(x) \in x
    BY <1>0, <1>2, GreatestOf
  <2>2. Max(x) \in DOMAIN s /\ s[Max(x)] \in Drafts /\ x \ {Max(x)} \in SUBSET (DOMAIN s)
    BY <2>1, ElementOfSeq, <1>0
  <2>3. g[x] = up[<<g[x \ {Max(x)}], s[Max(x)]>>]
    BY <1>0, <1>1, <1>2 DEF FoldOn
  <2> QED
    BY <1>1, <2>2, <2>3
<1>3. g[{}] = <<>>
  BY <1>1 DEF FoldOn
<1>4. 0 \in N
  <2>1. \A x \in SUBSET (1..0) : x = {}
    OBVIOUS
  <2>2. Short(0)
    <3>1. ASSUME NEW x \in SUBSET (1..0) PROVE Len(g[x]) <= 0
      <4>1. g[x] = <<>>
        BY <1>3, <2>1
      <4>2. Len(g[x]) = 0
        BY <4>1, NothingApart
      <4> QED
        BY <4>2
    <3> QED
      BY <3>1
  <2> HIDE DEF Short
  <2> QED
    BY <2>2
<1>5. ASSUME NEW k \in Nat, k \in N PROVE k + 1 \in N
  <2>1. SUFFICES ASSUME k + 1 <= Len(s) PROVE Short(k + 1)
    <3> HIDE DEF Short
    <3> QED
      OBVIOUS
  <2>2. Short(k)
    <3> HIDE DEF Short
    <3> QED
      BY <1>0, <1>5, <2>1
  <2>3. SUFFICES ASSUME NEW x \in SUBSET (1..(k + 1)) PROVE Len(g[x]) <= k + 1
    OBVIOUS
  <2>4. CASE x = {}
    BY <1>3, <2>4, NothingApart
  <2>5. CASE x # {}
    <3>1. x \in SUBSET (DOMAIN s)
      BY <1>0, <2>1
    <3>2. (k + 1) - 1 = k /\ k + 1 \in Nat
      OBVIOUS
    <3>3. x \ {Max(x)} \in SUBSET (1..k)
      BY <2>5, <3>2, GreatestOf
    <3>4. PICK out \in Apart : out = g[x \ {Max(x)}]
      BY <1>2, <2>5, <3>1
    <3>5. Len(out) <= k
      BY <2>2, <3>3, <3>4
    <3>6. Len(g[x]) <= Len(out) + 1 /\ g[x] \in Apart
      <4>1. PICK block \in Drafts : block = s[Max(x)]
        BY <1>2, <2>5, <3>1
      <4>2. g[x] = up[<<out, block>>]
        BY <1>2, <2>5, <3>1, <3>4, <4>1
      <4>3. Len(up[<<out, block>>]) <= Len(out) + 1
        BY IdentifyingTyped DEF up
      <4>4. g[x] \in Apart
        BY <1>1, <3>1
      <4> HIDE DEF Short, N
      <4> QED
        BY <4>2, <4>3, <4>4
    <3>7. Len(out) \in Nat /\ Len(g[x]) \in Nat
      BY <3>6, LenProperties DEF Apart
    <3> QED
      BY <3>5, <3>6, <3>7
  <2> QED
    BY <2>4, <2>5
<1> HIDE DEF N
<1>6. Nat \subseteq N
  BY <1>4, <1>5, EveryNatural
<1>7. ASSUME NEW x \in SUBSET (DOMAIN s), x # {} PROVE Len(g[x \ {Max(x)}]) < MaxBlocks
  <2>1. Max(x) \in x /\ x \ {Max(x)} \in SUBSET (1..(Len(s) - 1))
    BY <1>0, <1>7, GreatestOf
  <2>2. Len(s) - 1 \in Nat
    BY <1>0, <1>2, <1>7
  <2>3. Len(s) - 1 \in N /\ Len(s) - 1 <= Len(s)
    BY <1>0, <1>6, <2>2
  <2>4. Short(Len(s) - 1)
    <3> HIDE DEF Short
    <3> QED
      BY <2>3 DEF N
  <2>5. Len(g[x \ {Max(x)}]) <= Len(s) - 1
    BY <2>1, <2>4
  <2>6. Len(g[x \ {Max(x)}]) \in Nat
    BY <1>2, <1>7, LenProperties DEF Apart
  <2> QED
    BY <1>0, <2>5, <2>6, BlocksAssumption
<1> HIDE DEF Short
<1>8. ASSUME NEW x \in SUBSET (DOMAIN s)
      PROVE  g[x] = IF x = {} THEN <<>> ELSE Identified(fresh, g[x \ {Max(x)}], s[Max(x)])
  <2>1. CASE x = {}
    BY <1>3, <2>1
  <2>2. CASE x # {}
    BY <1>2, <1>7, <2>2, IdentifyingTyped DEF up
  <2> QED
    BY <2>1, <2>2
<1>9. g = [x \in SUBSET (DOMAIN s) |->
             IF x = {} THEN <<>> ELSE Identified(fresh, g[x \ {Max(x)}], s[Max(x)])]
  BY <1>1, <1>8
<1> DEFINE h == UniqueAll(s, fresh)
<1>10. h = [x \in SUBSET (DOMAIN s) |->
              IF x = {} THEN <<>> ELSE Identified(fresh, h[x \ {Max(x)}], s[Max(x)])]
  BY <1>9 DEF UniqueAll
<1> HIDE DEF h
<1> DEFINE S == {k \in Nat : k <= Len(s) => h[1..k] = g[1..k]}
<1>11. 0 \in S
  <2>1. 1..0 = {} /\ {} \in SUBSET (DOMAIN s)
    OBVIOUS
  <2>2. h[{}] = <<>>
    BY <1>10, <2>1
  <2> QED
    BY <1>3, <2>1, <2>2
<1>12. ASSUME NEW k \in Nat, k \in S PROVE k + 1 \in S
  <2> SUFFICES ASSUME k + 1 <= Len(s) PROVE h[1..(k + 1)] = g[1..(k + 1)]
    OBVIOUS
  <2>1. 1..(k + 1) \in SUBSET (DOMAIN s) /\ h[1..k] = g[1..k]
    BY <1>0, <1>12
  <2>2. 1..(k + 1) # {} /\ Max(1..(k + 1)) = k + 1 /\ (1..(k + 1)) \ {k + 1} = 1..k
    BY GreatestOfSegment
  <2> DEFINE x == 1..(k + 1)
  <2>3. /\ h[x] = Identified(fresh, h[x \ {Max(x)}], s[Max(x)])
        /\ g[x] = Identified(fresh, g[x \ {Max(x)}], s[Max(x)])
    <3> HIDE DEF x
    <3>1. x \in SUBSET (DOMAIN s) /\ x # {}
      BY <2>1, <2>2 DEF x
    <3> QED
      BY <1>8, <1>10, <3>1
  <2> QED
    BY <2>1, <2>2, <2>3
<1> HIDE DEF S
<1>13. Nat \subseteq S
  BY <1>11, <1>12, EveryNatural
<1>14. h[1..Len(s)] = g[1..Len(s)]
  BY <1>0, <1>13 DEF S
<1>15. WithUniqueIds(s, fresh) = g[1..Len(s)]
  BY <1>0, <1>14, UniqueIdsFold DEF h
<1> QED
  BY <1>0, <1>1, <1>15

-----------------------------------------------------------------------------
(* Moving a block.                                                         *)

Joined(c, s, t, a, b) ==
  Len(c) = a + b /\ \A i \in 1..(a + b) : c[i] = IF i <= a THEN s[i] ELSE t[i - a]

LEMMA Joins ==
  ASSUME NEW E, NEW s \in Seq(E), NEW t \in Seq(E), NEW a \in Nat, NEW b \in Nat,
         a = Len(s), b = Len(t)
  PROVE  s \o t \in Seq(E) /\ Joined(s \o t, s, t, a, b)
<1>1. /\ s \o t \in Seq(E) /\ Len(s \o t) = Len(s) + Len(t)
      /\ \A i \in 1..(Len(s) + Len(t)) : (s \o t)[i] = IF i <= Len(s) THEN s[i] ELSE t[i - Len(s)]
  BY ConcatProperties
<1> QED
  BY <1>1 DEF Joined

\* The part of a sequence from an element on.
From(p, s, m, l) == Len(p) = l /\ \A i \in 1..l : p[i] = s[m + i - 1]

LEMMA Parts ==
  ASSUME NEW E, NEW s \in Seq(E), NEW n \in Nat, n = Len(s), NEW m \in Nat, NEW to \in Nat,
         1 <= m, m <= to + 1, to <= n, NEW l \in Nat, l = to - m + 1
  PROVE  SubSeq(s, m, to) \in Seq(E) /\ From(SubSeq(s, m, to), s, m, l)
<1>1. m \in Int /\ to \in Int /\ to <= Len(s) /\ l = IF m <= to THEN to - m + 1 ELSE 0
  OBVIOUS
<1>2. /\ SubSeq(s, m, to) \in Seq(E) /\ Len(SubSeq(s, m, to)) = l
      /\ \A i \in 1..l : SubSeq(s, m, to)[i] = s[m + i - 1]
  BY <1>1, PartOf
<1> QED
  BY <1>2 DEF From

Removed(r, s, k, n) ==
  Len(r) = n - 1 /\ \A i \in 1..(n - 1) : r[i] = IF i < k THEN s[i] ELSE s[i + 1]

LEMMA RemovedAt ==
  ASSUME NEW E, NEW s \in Seq(E), NEW n \in Nat, n = Len(s), NEW k \in 1..n
  PROVE  RemoveAt(s, k) \in Seq(E) /\ Removed(RemoveAt(s, k), s, k, n)
<1>0. k - 1 \in Nat /\ n - k \in Nat /\ k + 1 \in Nat
  OBVIOUS
<1>1. PICK a \in Nat, b \in Nat, one \in Nat, next \in Nat :
        a = k - 1 /\ b = n - k /\ one = 1 /\ next = k + 1
  BY <1>0
<1>2. /\ SubSeq(s, one, a) \in Seq(E) /\ From(SubSeq(s, one, a), s, one, a)
      /\ SubSeq(s, next, n) \in Seq(E) /\ From(SubSeq(s, next, n), s, next, b)
  <2>1. 1 <= one /\ one <= a + 1 /\ a <= n /\ a = a - one + 1
    BY <1>1
  <2>2. 1 <= next /\ next <= n + 1 /\ n <= n /\ b = n - next + 1
    BY <1>1
  <2>3. SubSeq(s, one, a) \in Seq(E) /\ From(SubSeq(s, one, a), s, one, a)
    BY <2>1, Parts
  <2>4. SubSeq(s, next, n) \in Seq(E) /\ From(SubSeq(s, next, n), s, next, b)
    BY <2>2, Parts
  <2> QED
    BY <2>3, <2>4
<1>3. PICK p \in Seq(E), q \in Seq(E) : p = SubSeq(s, one, a) /\ q = SubSeq(s, next, n)
  BY <1>2
<1>4. From(p, s, one, a) /\ From(q, s, next, b)
  BY <1>2, <1>3
<1>5. a = Len(p) /\ b = Len(q)
  BY <1>4 DEF From
<1>6. p \o q \in Seq(E) /\ Joined(p \o q, p, q, a, b)
  BY <1>5, Joins
<1>7. RemoveAt(s, k) = p \o q
  BY <1>1, <1>3 DEF RemoveAt
<1>8. PICK r \in Seq(E) : r = p \o q
  BY <1>6
<1>9. Len(r) = n - 1
  BY <1>1, <1>6, <1>8 DEF Joined
<1>10. ASSUME NEW i \in 1..(n - 1) PROVE r[i] = IF i < k THEN s[i] ELSE s[i + 1]
  <2>1. i \in 1..(a + b)
    BY <1>1
  <2>2. r[i] = IF i <= a THEN p[i] ELSE q[i - a]
    BY <1>6, <1>8, <2>1 DEF Joined
  <2>3. CASE i <= a
    <3>1. i \in 1..a /\ one + i - 1 = i /\ i < k
      BY <1>1, <2>3
    <3>2. p[i] = s[i]
      BY <1>4, <3>1 DEF From
    <3> QED
      BY <2>2, <2>3, <3>1, <3>2
  <2>4. CASE ~(i <= a)
    <3>1. i - a \in 1..b /\ next + (i - a) - 1 = i + 1 /\ ~(i < k)
      BY <1>1, <2>4
    <3>2. q[i - a] = s[next + (i - a) - 1]
      BY <1>4, <3>1 DEF From
    <3> QED
      BY <2>2, <2>4, <3>1, <3>2
  <2> QED
    BY <2>3, <2>4
<1> QED
  BY <1>7, <1>8, <1>9, <1>10 DEF Removed

Inserted(m, r, t, e, n) ==
  Len(m) = n + 1 /\ \A i \in 1..(n + 1) : m[i] = IF i < t THEN r[i] ELSE IF i = t THEN e ELSE r[i - 1]

LEMMA InsertedAt ==
  ASSUME NEW E, NEW r \in Seq(E), NEW n \in Nat, n = Len(r), NEW t \in 1..(n + 1), NEW e \in E
  PROVE  InsertAt(r, t, e) \in Seq(E) /\ Inserted(InsertAt(r, t, e), r, t, e, n)
<1>1. PICK a \in Nat, b \in Nat, one \in Nat, u \in Nat :
        a = t - 1 /\ b = n - t + 1 /\ one = 1 /\ u = t
  OBVIOUS
<1>2. /\ SubSeq(r, one, a) \in Seq(E) /\ From(SubSeq(r, one, a), r, one, a)
      /\ SubSeq(r, u, n) \in Seq(E) /\ From(SubSeq(r, u, n), r, u, b)
  <2>1. 1 <= one /\ one <= a + 1 /\ a <= n /\ a = a - one + 1
    BY <1>1
  <2>2. 1 <= u /\ u <= n + 1 /\ n <= n /\ b = n - u + 1
    BY <1>1
  <2>3. SubSeq(r, one, a) \in Seq(E) /\ From(SubSeq(r, one, a), r, one, a)
    BY <2>1, Parts
  <2>4. SubSeq(r, u, n) \in Seq(E) /\ From(SubSeq(r, u, n), r, u, b)
    BY <2>2, Parts
  <2> QED
    BY <2>3, <2>4
<1>3. PICK p \in Seq(E), q \in Seq(E) : p = SubSeq(r, one, a) /\ q = SubSeq(r, u, n)
  BY <1>2
<1>4. From(p, r, one, a) /\ From(q, r, u, b)
  BY <1>2, <1>3
<1>5. a = Len(p) /\ b = Len(q)
  BY <1>4 DEF From
<1>6. PICK x \in Seq(E) : x = <<e>> /\ Len(x) = one /\ x[1] = e
  <2>1. <<e>> \in Seq(E) /\ Len(<<e>>) = 1 /\ <<e>>[1] = e
    OBVIOUS
  <2> QED
    BY <1>1, <2>1
<1>7. p \o x \in Seq(E) /\ Joined(p \o x, p, x, a, one)
  BY <1>5, <1>6, Joins
<1>8. PICK px \in Seq(E), c \in Nat : px = p \o x /\ c = t /\ c = Len(px)
  <2>1. Len(p \o x) = a + one
    BY <1>7 DEF Joined
  <2>2. a + one = t /\ t \in Nat
    BY <1>1
  <2> QED
    BY <1>7, <2>1, <2>2
<1>9. px \o q \in Seq(E) /\ Joined(px \o q, px, q, c, b)
  BY <1>5, <1>8, Joins
<1>10. InsertAt(r, t, e) = px \o q
  BY <1>1, <1>3, <1>6, <1>8 DEF InsertAt
<1>11. PICK m \in Seq(E) : m = px \o q
  BY <1>9
<1>12. Len(m) = n + 1
  BY <1>1, <1>8, <1>9, <1>11 DEF Joined
<1>13. ASSUME NEW i \in 1..(n + 1)
       PROVE  m[i] = IF i < t THEN r[i] ELSE IF i = t THEN e ELSE r[i - 1]
  <2>1. i \in 1..(c + b)
    BY <1>1, <1>8
  <2>2. m[i] = IF i <= c THEN px[i] ELSE q[i - c]
    BY <1>9, <1>11, <2>1 DEF Joined
  <2>3. CASE i <= c
    <3>1. i \in 1..(a + one)
      BY <1>1, <1>8, <2>3
    <3>2. px[i] = IF i <= a THEN p[i] ELSE x[i - a]
      BY <1>7, <1>8, <3>1 DEF Joined
    <3>3. CASE i <= a
      <4>1. i \in 1..a /\ one + i - 1 = i /\ i < t
        BY <1>1, <3>3
      <4>2. p[i] = r[i]
        BY <1>4, <4>1 DEF From
      <4> QED
        BY <2>2, <2>3, <3>2, <3>3, <4>1, <4>2
    <3>4. CASE ~(i <= a)
      <4>1. i - a = 1 /\ ~(i < t) /\ i = t
        <5>1. a \in Nat /\ a = t - 1 /\ c = t
          BY <1>1, <1>8
        <5>2. i = t
          BY <2>3, <3>4, <5>1
        <5> QED
          BY <5>1, <5>2
      <4>2. px[i] = e
        BY <1>6, <3>2, <3>4, <4>1
      <4> QED
        BY <2>2, <2>3, <4>1, <4>2
    <3> QED
      BY <3>3, <3>4
  <2>4. CASE ~(i <= c)
    <3>1. i - c \in 1..b /\ u + (i - c) - 1 = i - 1 /\ ~(i < t) /\ i # t
      BY <1>1, <1>8, <2>4
    <3>2. q[i - c] = r[u + (i - c) - 1]
      BY <1>4, <3>1 DEF From
    <3> QED
      BY <2>2, <2>4, <3>1, <3>2
  <2> QED
    BY <2>3, <2>4
<1> QED
  BY <1>10, <1>11, <1>12, <1>13 DEF Inserted

(* A block that is moved leaves the others in their order, each in one place. *)
LEMMA MovedApart ==
  ASSUME NEW s \in Apart, NEW n \in Nat, n = Len(s), NEW k \in 1..n, NEW t \in 1..n
  PROVE  InsertAt(RemoveAt(s, k), t, s[k]) \in Apart
<1>1. s \in Seq(Drafts) /\ OwnIds(s) /\ s[k] \in Drafts
  BY ElementOfSeq DEF Apart
<1>2. RemoveAt(s, k) \in Seq(Drafts) /\ Removed(RemoveAt(s, k), s, k, n)
  BY <1>1, RemovedAt
<1>3. PICK r \in Seq(Drafts), l \in Nat : r = RemoveAt(s, k) /\ l = n - 1 /\ l = Len(r)
  BY <1>2 DEF Removed
<1>4. Removed(r, s, k, n)
  BY <1>2, <1>3
<1>5. t \in 1..(l + 1)
  BY <1>3
<1>6. PICK e \in Drafts : e = s[k]
  BY <1>1
<1>7. InsertAt(r, t, e) \in Seq(Drafts) /\ Inserted(InsertAt(r, t, e), r, t, e, l)
  BY <1>3, <1>5, InsertedAt
<1>8. PICK m \in Seq(Drafts) : m = InsertAt(r, t, e)
  BY <1>7
<1> DEFINE p(i) == IF i < t THEN IF i < k THEN i ELSE i + 1
                   ELSE IF i = t THEN k
                   ELSE IF i - 1 < k THEN i - 1 ELSE i
<1>9. Len(m) = n
  BY <1>3, <1>7, <1>8 DEF Inserted
<1>10. ASSUME NEW i \in 1..n PROVE p(i) \in 1..n /\ m[i] = s[p(i)]
  <2>1. i \in 1..(l + 1)
    BY <1>3
  <2>2. m[i] = IF i < t THEN r[i] ELSE IF i = t THEN e ELSE r[i - 1]
    BY <1>7, <1>8, <2>1 DEF Inserted
  <2>3. CASE i < t
    <3>1. i \in 1..(n - 1)
      BY <2>3
    <3>2. r[i] = IF i < k THEN s[i] ELSE s[i + 1]
      BY <1>4, <3>1 DEF Removed
    <3> QED
      BY <2>2, <2>3, <3>1, <3>2
  <2>4. CASE i = t
    BY <1>6, <2>2, <2>4
  <2>5. CASE ~(i < t) /\ i # t
    <3>1. i - 1 \in 1..(n - 1) /\ (i - 1) + 1 = i
      BY <2>5
    <3>2. r[i - 1] = IF i - 1 < k THEN s[i - 1] ELSE s[(i - 1) + 1]
      BY <1>4, <3>1 DEF Removed
    <3> QED
      BY <2>2, <2>5, <3>1, <3>2
  <2> QED
    BY <2>3, <2>4, <2>5
<1>11. ASSUME NEW i \in 1..n, NEW j \in 1..n, i # j PROVE p(i) # p(j)
  BY <1>11
<1> HIDE DEF p
<1>12. OwnIds(m)
  <2> SUFFICES ASSUME NEW i \in 1..n, NEW j \in 1..n, i # j PROVE m[i].id # m[j].id
    BY <1>9 DEF OwnIds
  <2>1. p(i) \in 1..n /\ p(j) \in 1..n /\ p(i) # p(j) /\ m[i] = s[p(i)] /\ m[j] = s[p(j)]
    BY <1>10, <1>11
  <2> QED
    BY <1>1, <2>1 DEF OwnIds
<1> QED
  BY <1>3, <1>6, <1>8, <1>12 DEF Apart

-----------------------------------------------------------------------------
(* Removing a block, and giving it another content.                        *)

Unless(block, id) == IF block.id = id THEN <<>> ELSE <<block>>

LeavingOut(s, id) == [j \in DOMAIN s |-> Unless(s[j], id)]

Without(s, id) == FlattenSeq(LeavingOut(s, id))

LEMMA WithoutAppends ==
  ASSUME NEW s \in Seq(Drafts), NEW block \in Drafts, NEW id
  PROVE  /\ Without(s, id) \in Seq(Drafts)
         /\ Without(Append(s, block), id) = Without(s, id) \o Unless(block, id)
<1>1. ASSUME NEW b \in Drafts PROVE Unless(b, id) \in Seq(Drafts)
  <2>1. <<b>> \in Seq(Drafts) /\ <<>> \in Seq(Drafts)
    OBVIOUS
  <2> QED
    BY <2>1 DEF Unless
<1>2. PICK n \in Nat : n = Len(s)
  BY LenProperties
<1>3. /\ DOMAIN s = 1..n /\ \A k \in 1..n : s[k] \in Drafts
      /\ Append(s, block) \in Seq(Drafts) /\ DOMAIN Append(s, block) = 1..(n + 1)
      /\ \A i \in 1..n : Append(s, block)[i] = s[i]
      /\ Append(s, block)[n + 1] = block
  BY <1>2, AppendProperties, LenProperties, ElementOfSeq
<1>4. \A i \in 1..(n + 1) : Append(s, block)[i] \in Drafts
  BY <1>3
<1> DEFINE f == LeavingOut(s, id)
           g == LeavingOut(Append(s, block), id)
<1>5. /\ f \in [1..n -> Seq(Drafts)] /\ g \in [1..(n + 1) -> Seq(Drafts)]
      /\ \A i \in 1..n : g[i] = f[i]
      /\ g[n + 1] = Unless(block, id)
  <2>1. n + 1 \in 1..(n + 1) /\ \A i \in 1..n : i \in 1..(n + 1)
    OBVIOUS
  <2> QED
    BY <1>1, <1>3, <1>4, <2>1 DEF LeavingOut
<1> HIDE DEF f, g
<1>6. f \in Seq(Seq(Drafts)) /\ g = Append(f, g[n + 1])
  BY <1>5, FunctionIsSeq, OneLonger
<1>7. FlattenSeq(f) \in Seq(Drafts)
  BY <1>6, FlattenedTyped
<1>8. FlattenSeq(g) = FlattenSeq(f) \o Unless(block, id)
  <2>1. Unless(block, id) \in Seq(Drafts)
    BY <1>1
  <2>2. g = Append(f, Unless(block, id))
    BY <1>5, <1>6
  <2> QED
    BY <1>6, <2>1, <2>2, FlattenAppends
<1> QED
  BY <1>7, <1>8 DEF Without, f, g

LEMMA LongerApart ==
  ASSUME NEW s \in Apart, NEW block \in Drafts, block.id \notin IdsOf(s)
  PROVE  Append(s, block) \in Apart
<1>1. s \in Seq(Drafts) /\ OwnIds(s)
  BY DEF Apart
<1>2. PICK n \in Nat : n = Len(s)
  BY <1>1, LenProperties
<1>3. /\ DOMAIN s = 1..n
      /\ Append(s, block) \in Seq(Drafts) /\ Len(Append(s, block)) = n + 1
      /\ \A i \in 1..n : Append(s, block)[i] = s[i]
      /\ Append(s, block)[n + 1] = block
  BY <1>1, <1>2, AppendProperties, LenProperties
<1>4. \A i \in 1..n : s[i].id # block.id
  BY <1>3 DEF IdsOf
<1>5. ASSUME NEW i \in 1..(n + 1), NEW j \in 1..(n + 1), i # j
      PROVE  Append(s, block)[i].id # Append(s, block)[j].id
  <2>1. \/ i \in 1..n /\ j \in 1..n
        \/ i = n + 1 /\ j \in 1..n
        \/ j = n + 1 /\ i \in 1..n
    BY <1>5
  <2>2. CASE i \in 1..n /\ j \in 1..n
    BY <1>1, <1>2, <1>3, <1>5, <2>2 DEF OwnIds
  <2>3. CASE i = n + 1 /\ j \in 1..n
    BY <1>3, <1>4, <2>3
  <2>4. CASE j = n + 1 /\ i \in 1..n
    BY <1>3, <1>4, <2>4
  <2> QED
    BY <2>1, <2>2, <2>3, <2>4
<1>6. OwnIds(Append(s, block))
  BY <1>3, <1>5 DEF OwnIds
<1> QED
  BY <1>3, <1>6 DEF Apart

LEMMA IdsOfLonger ==
  ASSUME NEW s \in Seq(Drafts), NEW block \in Drafts
  PROVE  IdsOf(Append(s, block)) = IdsOf(s) \cup {block.id}
<1>1. PICK n \in Nat : n = Len(s)
  BY LenProperties
<1>2. /\ DOMAIN s = 1..n /\ DOMAIN Append(s, block) = 1..(n + 1)
      /\ \A i \in 1..n : Append(s, block)[i] = s[i]
      /\ Append(s, block)[n + 1] = block
  BY <1>1, AppendProperties, LenProperties
<1>3. \A i : i \in 1..(n + 1) <=> (i \in 1..n \/ i = n + 1)
  OBVIOUS
<1> QED
  BY <1>2, <1>3 DEF IdsOf

LEMMA ShorterApart ==
  ASSUME NEW s \in Seq(Drafts), NEW block \in Drafts, Append(s, block) \in Apart
  PROVE  s \in Apart /\ block.id \notin IdsOf(s)
<1>1. PICK n \in Nat : n = Len(s)
  BY LenProperties
<1>2. /\ DOMAIN s = 1..n /\ Len(Append(s, block)) = n + 1
      /\ \A i \in 1..n : Append(s, block)[i] = s[i]
      /\ Append(s, block)[n + 1] = block
  BY <1>1, AppendProperties, LenProperties
<1>3. \A i, j \in 1..(n + 1) : i # j => Append(s, block)[i].id # Append(s, block)[j].id
  BY <1>2 DEF Apart, OwnIds
<1>4. \A i \in 1..n : i \in 1..(n + 1) /\ i # n + 1 /\ n + 1 \in 1..(n + 1)
  OBVIOUS
<1>5. OwnIds(s)
  BY <1>1, <1>2, <1>3, <1>4 DEF OwnIds
<1>6. \A i \in 1..n : s[i].id # block.id
  BY <1>2, <1>3, <1>4
<1> QED
  BY <1>2, <1>5, <1>6 DEF Apart, IdsOf

LEMMA WithoutApart ==
  ASSUME NEW s \in Apart, NEW id
  PROVE  Without(s, id) \in Apart
<1> DEFINE Good(t) == t \in Apart => Without(t, id) \in Apart /\ IdsOf(Without(t, id)) \subseteq IdsOf(t)
           S == {t \in Seq(Drafts) : Good(t)}
<1>1. <<>> \in S
  <2>1. LeavingOut(<<>>, id) = <<>>
    BY DEF LeavingOut
  <2>2. Without(<<>>, id) = <<>>
    BY <2>1, FlattenNothing DEF Without
  <2> QED
    BY <2>2, NothingApart DEF Apart
<1>2. ASSUME NEW t \in Seq(Drafts), NEW block \in Drafts, t \in S PROVE Append(t, block) \in S
  <2>1. Append(t, block) \in Seq(Drafts)
    BY AppendProperties
  <2> SUFFICES ASSUME Append(t, block) \in Apart
               PROVE  /\ Without(Append(t, block), id) \in Apart
                      /\ IdsOf(Without(Append(t, block), id)) \subseteq IdsOf(Append(t, block))
    BY <2>1
  <2>2. t \in Apart /\ block.id \notin IdsOf(t)
    BY ShorterApart
  <2>3. Without(t, id) \in Apart /\ IdsOf(Without(t, id)) \subseteq IdsOf(t)
    BY <1>2, <2>2
  <2>4. Without(t, id) \in Seq(Drafts)
    BY <2>3 DEF Apart
  <2>5. Without(Append(t, block), id) = Without(t, id) \o Unless(block, id)
    BY WithoutAppends
  <2>6. IdsOf(Append(t, block)) = IdsOf(t) \cup {block.id}
    BY IdsOfLonger
  <2>7. CASE block.id = id
    <3>1. Without(Append(t, block), id) = Without(t, id)
      BY <2>4, <2>5, <2>7, ConcatEmptySeq DEF Unless
    <3> QED
      BY <2>3, <2>6, <3>1
  <2>8. CASE block.id # id
    <3>1. Without(Append(t, block), id) = Append(Without(t, id), block)
      BY <2>4, <2>5, <2>8, AppendIsConcat DEF Unless
    <3>2. Append(Without(t, id), block) \in Apart
      BY <2>2, <2>3, LongerApart
    <3>3. IdsOf(Append(Without(t, id), block)) = IdsOf(Without(t, id)) \cup {block.id}
      BY <2>4, IdsOfLonger
    <3> QED
      BY <2>3, <2>6, <3>1, <3>2, <3>3
  <2> QED
    BY <2>7, <2>8
<1> HIDE DEF S
<1>3. Seq(Drafts) \subseteq S
  BY <1>1, <1>2, EverySequence
<1>4. s \in Seq(Drafts)
  BY DEF Apart
<1> QED
  BY <1>3, <1>4 DEF S

(* A block that keeps its identity takes the place of the one that has it. *)
LEMMA ReplacedApart ==
  ASSUME NEW s \in Apart, NEW next \in Drafts
  PROVE  [k \in DOMAIN s |-> IF s[k].id = next.id THEN next ELSE s[k]] \in Apart
<1>1. s \in Seq(Drafts) /\ OwnIds(s)
  BY DEF Apart
<1>2. PICK n \in Nat : n = Len(s)
  BY <1>1, LenProperties
<1>3. DOMAIN s = 1..n /\ \A k \in 1..n : s[k] \in Drafts
  BY <1>1, <1>2, LenProperties, ElementOfSeq
<1> DEFINE t == [k \in DOMAIN s |-> IF s[k].id = next.id THEN next ELSE s[k]]
<1>4. t \in [1..n -> Drafts] /\ \A k \in 1..n : t[k].id = s[k].id
  BY <1>3
<1> HIDE DEF t
<1>5. t \in Seq(Drafts) /\ Len(t) = n
  BY <1>4, FunctionIsSeq
<1>6. OwnIds(t)
  BY <1>1, <1>2, <1>4, <1>5 DEF OwnIds
<1>7. t \in Apart
  BY <1>5, <1>6 DEF Apart
<1> QED
  BY <1>7 DEF t

-----------------------------------------------------------------------------
(* The galley.                                                             *)

LEMMA BoundedIs ==
  ASSUME NEW E, NEW n \in Nat, NEW s \in BoundedSeq(E, n)
  PROVE  s \in Seq(E) /\ Len(s) <= n
<1>1. PICK m \in 0..n : s \in [1..m -> E]
  BY DEF BoundedSeq, SeqOf
<1>2. m \in Nat /\ m <= n
  OBVIOUS
<1>3. s \in Seq(E) /\ Len(s) = m
  BY <1>1, <1>2, FunctionIsSeq
<1> QED
  BY <1>2, <1>3

LEMMA TypingsTyped == \A next \in Typings : next \in Seq(Characters)
BY BoundedIs, BlocksAssumption DEF Typings

LEMMA RunsTyped == \A run \in Runs : run \in Seq(Nodes)
<1> DEFINE E == {Node(text, m) : text \in Typings \ {<<>>}, m \in Marks}
<1>1. E \subseteq Nodes
  <2> SUFFICES ASSUME NEW text \in Typings, NEW m \in Marks PROVE Node(text, m) \in Nodes
    OBVIOUS
  <2>1. text \in Seq(Characters) /\ m \in Marking
    BY TypingsTyped DEF Marking
  <2> QED
    BY <2>1, NodeTyped
<1>2. ASSUME NEW run \in Runs PROVE run \in Seq(Nodes)
  <2>1. run \in BoundedSeq(E, 2)
    BY DEF Runs
  <2> HIDE DEF E
  <2>2. PICK two \in Nat : two = 2
    OBVIOUS
  <2>3. run \in BoundedSeq(E, two)
    BY <2>1, <2>2
  <2>4. run \in Seq(E)
    BY <2>3, BoundedIs
  <2> QED
    BY <1>1, <2>4, SeqMonotonic
<1> QED
  BY <1>2

\* The blocks of the draft hold text, and can be told apart.
GalleyApart == galley \in Apart

LEMMA OpenedApart == BlocksInit => GalleyApart
<1> SUFFICES ASSUME BlocksInit PROVE GalleyApart
  OBVIOUS
<1>1. Imported \subseteq Drafts
  <2>1. ASSUME NEW id \in Ids, NEW run \in Runs PROVE Block(id, <<run>>) \in Drafts
    <3>1. run \in Seq(Nodes)
      BY RunsTyped
    <3>2. <<run>> \in Seq(Seq(Nodes))
      BY <3>1
    <3> QED
      BY <3>2 DEF Block, Drafts
  <2> DEFINE Opened(id, run) == Block(id, <<run>>)
  <2>2. Imported = {Opened(id, run) : id \in Ids, run \in Runs}
    BY DEF Imported
  <2>3. \A id \in Ids, run \in Runs : Opened(id, run) \in Drafts
    BY <2>1
  <2> HIDE DEF Opened
  <2> QED
    BY <2>2, <2>3
<1>2. PICK stored \in BoundedSeq(Imported, MaxBlocks), fresh \in {SetToSeq(Ids), Reverse(SetToSeq(Ids))} :
        galley = WithUniqueIds(stored, fresh)
  BY DEF BlocksInit
<1>3. stored \in Seq(Imported) /\ Len(stored) <= MaxBlocks
  BY BlocksAssumption, BoundedIs
<1>4. stored \in Seq(Drafts)
  BY <1>1, <1>3, SeqMonotonic
<1>5. Lists(fresh)
  BY EveryIdListed
<1>6. WithUniqueIds(stored, fresh) \in Apart
  BY <1>3, <1>4, <1>5, UniqueIdsApart
<1> QED
  BY <1>2, <1>6 DEF GalleyApart

LEMMA GalleyBlock ==
  ASSUME GalleyApart, NEW k \in DOMAIN galley
  PROVE  /\ galley \in Seq(Drafts) /\ galley[k] \in Drafts /\ galley[k].id \in Ids
         /\ galley[k].runs \in Seq(Seq(Nodes))
         /\ \A r \in DOMAIN galley[k].runs : galley[k].runs[r] \in Seq(Nodes)
<1>1. galley \in Seq(Drafts)
  BY DEF GalleyApart, Apart
<1>2. galley[k] \in Drafts
  BY <1>1, LenProperties, ElementOfSeq
<1>3. galley[k].id \in Ids /\ galley[k].runs \in Seq(Seq(Nodes))
  BY <1>2 DEF Drafts
<1>4. \A r \in DOMAIN galley[k].runs : galley[k].runs[r] \in Seq(Nodes)
  BY <1>3, LenProperties, ElementOfSeq
<1> QED
  BY <1>1, <1>2, <1>3, <1>4

LEMMA ReplaceApart ==
  ASSUME GalleyApart, NEW next \in Drafts, NEW id, id = next.id, Replace(id, next)
  PROVE  GalleyApart'
<1>1. galley' = [k \in DOMAIN galley |-> IF galley[k].id = next.id THEN next ELSE galley[k]]
  BY DEF Replace
<1>2. galley' \in Apart
  BY <1>1, ReplacedApart DEF GalleyApart
<1> QED
  BY <1>2 DEF GalleyApart

LEMMA TypingApart ==
  ASSUME GalleyApart, NEW k \in DOMAIN galley, NEW r \in DOMAIN galley[k].runs,
         NEW next \in Typings, TypeInto(k, r, next)
  PROVE  GalleyApart'
<1> DEFINE block == galley[k]
           edited == ReplaceInlineText(block.runs[r], next)
           other == [block EXCEPT !.runs[r] = edited]
<1>1. block \in Drafts /\ block.runs \in Seq(Seq(Nodes)) /\ block.runs[r] \in Seq(Nodes)
  BY GalleyBlock
<1>2. edited \in Seq(Nodes)
  <2>1. EditKept(block.runs[r], next)
    BY <1>1, TypingsTyped, EveryEditKept
  <2> QED
    BY <2>1 DEF EditKept
<1>3. Replace(block.id, other)
  BY DEF TypeInto
<1> HIDE DEF edited
<1>4. [block.runs EXCEPT ![r] = edited] \in Seq(Seq(Nodes))
  <2>1. r \in 1..Len(block.runs)
    BY <1>1, LenProperties
  <2> QED
    BY <1>1, <1>2, <2>1, ExceptSeq
<1>5. other \in Drafts /\ other.id = block.id
  <2> DEFINE runs == [block.runs EXCEPT ![r] = edited]
  <2>1. other = [block EXCEPT !.runs = runs]
    OBVIOUS
  <2> HIDE DEF runs, other, block
  <2> QED
    BY <1>1, <1>4, <2>1 DEF Drafts, runs
<1> HIDE DEF other, block
<1> QED
  BY <1>3, <1>5, ReplaceApart

LEMMA AddingItemApart ==
  ASSUME GalleyApart, NEW k \in DOMAIN galley, AddItem(k)
  PROVE  GalleyApart'
<1> DEFINE block == galley[k]
           runs == Append(block.runs, <<>>)
           other == [block EXCEPT !.runs = runs]
<1>1. block \in Drafts /\ block.runs \in Seq(Seq(Nodes))
  BY GalleyBlock
<1>2. Replace(block.id, other)
  BY DEF AddItem
<1>3. runs \in Seq(Seq(Nodes))
  <2>1. <<>> \in Seq(Nodes)
    BY EmptySeq
  <2> QED
    BY <1>1, <2>1, AppendProperties
<1> HIDE DEF runs, block
<1>4. other \in Drafts /\ other.id = block.id
  BY <1>1, <1>3 DEF Drafts
<1> HIDE DEF other
<1> QED
  BY <1>2, <1>4, ReplaceApart

LEMMA RemovingApart ==
  ASSUME GalleyApart, NEW k \in DOMAIN galley, RemoveBlock(k)
  PROVE  GalleyApart'
<1>1. galley' = Without(galley, galley[k].id)
  BY DEF RemoveBlock, Without, LeavingOut, Unless
<1>2. Without(galley, galley[k].id) \in Apart
  BY WithoutApart DEF GalleyApart
<1> QED
  BY <1>1, <1>2 DEF GalleyApart

LEMMA MovingApart ==
  ASSUME GalleyApart, NEW k \in DOMAIN galley, NEW target, Move(k, target)
  PROVE  GalleyApart'
<1>1. galley \in Apart /\ galley \in Seq(Drafts)
  BY DEF GalleyApart, Apart
<1>2. PICK n \in Nat : n = Len(galley) /\ DOMAIN galley = 1..n
  BY <1>1, LenProperties
<1>3. k \in 1..n /\ target \in 1..n
  BY <1>2 DEF Move
<1>4. InsertAt(RemoveAt(galley, k), target, galley[k]) \in Apart
  BY <1>1, <1>2, <1>3, MovedApart
<1> QED
  BY <1>4 DEF Move, GalleyApart

LEMMA AddingBlockApart ==
  ASSUME GalleyApart, NEW id \in Ids, NEW runs \in 0..1, AddBlock(id, runs)
  PROVE  GalleyApart'
<1> DEFINE block == Block(id, [r \in 1..runs |-> <<>>])
<1>1. block \in Drafts /\ block.id = id
  <2>1. [r \in 1..runs |-> <<>>] \in [1..runs -> Seq(Nodes)]
    BY EmptySeq
  <2>2. [r \in 1..runs |-> <<>>] \in Seq(Seq(Nodes))
    BY <2>1, FunctionIsSeq
  <2> QED
    BY <2>2 DEF Block, Drafts
<1>2. galley' = Append(galley, block) /\ block.id \notin IdsOf(galley)
  BY <1>1 DEF AddBlock
<1> HIDE DEF block
<1>3. Append(galley, block) \in Apart
  BY <1>1, <1>2, LongerApart DEF GalleyApart
<1> QED
  BY <1>2, <1>3 DEF GalleyApart

LEMMA StepsApart == GalleyApart /\ [BlocksNext]_galley => GalleyApart'
<1> SUFFICES ASSUME GalleyApart, [BlocksNext]_galley PROVE GalleyApart'
  OBVIOUS
<1>1. ASSUME NEW k \in DOMAIN galley, NEW r \in DOMAIN galley[k].runs, NEW next \in Typings,
             TypeInto(k, r, next)
      PROVE  GalleyApart'
  BY <1>1, TypingApart
<1>2. ASSUME NEW k \in DOMAIN galley, AddItem(k) PROVE GalleyApart'
  BY <1>2, AddingItemApart
<1>3. ASSUME NEW k \in DOMAIN galley, RemoveBlock(k) PROVE GalleyApart'
  BY <1>3, RemovingApart
<1>4. ASSUME NEW k \in DOMAIN galley, Move(k, k - 1) PROVE GalleyApart'
  BY <1>4, MovingApart
<1>5. ASSUME NEW k \in DOMAIN galley, Move(k, k + 1) PROVE GalleyApart'
  BY <1>5, MovingApart
<1>6. ASSUME NEW id \in Ids, NEW runs \in 0..1, AddBlock(id, runs) PROVE GalleyApart'
  BY <1>6, AddingBlockApart
<1>7. CASE UNCHANGED galley
  BY <1>7 DEF GalleyApart
<1> QED
  BY <1>1, <1>2, <1>3, <1>4, <1>5, <1>6, <1>7 DEF BlocksNext

LEMMA EditSays ==
  ASSUME NEW run \in Seq(Nodes), NEW next \in Seq(Characters)
  PROVE  TextOf(ReplaceInlineText(run, next)) = next
<1> DEFINE edited == ReplaceInlineText(run, next)
<1>1. EditKept(run, next)
  BY EveryEditKept
<1>2. edited \in Seq(Nodes) /\ Len(Marked(edited)) = Len(next)
      /\ \A i \in 1..Len(next) : Marked(edited)[i][1] = next[i]
  BY <1>1 DEF EditKept, Spliced
<1> HIDE DEF edited
<1>3. /\ TextOf(edited) \in Seq(Characters) /\ Len(TextOf(edited)) = Len(Marked(edited))
      /\ \A i \in 1..Len(Marked(edited)) : TextOf(edited)[i] = Marked(edited)[i][1]
  BY <1>2, TextTyped, MarkedIsText DEF SaysTheSame
<1>4. TextOf(edited) = next
  BY <1>2, <1>3, SeqEqual
<1> QED
  BY <1>4 DEF edited

LEMMA ApartHolds == GalleyApart => EditsHold
<1> SUFFICES ASSUME GalleyApart PROVE EditsHold
  OBVIOUS
<1>1. IdsDistinct
  BY Identities DEF GalleyApart, Apart, IdsDistinct
<1>2. ASSUME NEW k \in DOMAIN galley, NEW r \in DOMAIN galley[k].runs, NEW next \in Typings
      PROVE  /\ galley[k].runs[r] \in Seq(Nodes) /\ next \in Seq(Characters)
             /\ EditKept(galley[k].runs[r], next)
  <2>1. galley[k].runs[r] \in Seq(Nodes) /\ next \in Seq(Characters)
    BY GalleyBlock, TypingsTyped
  <2> QED
    BY <2>1, EveryEditKept
<1>3. TypedIsKept
  BY <1>2, EditSays DEF TypedIsKept, Edited
<1>4. MarksStay
  <2>1. ASSUME NEW k \in DOMAIN galley, NEW r \in DOMAIN galley[k].runs, NEW next \in Typings
        PROVE  LET run    == galley[k].runs[r]
                   was    == Marked(run)
                   is     == Marked(ReplaceInlineText(run, next))
                   before == CommonPrefix(TextOf(run), next)
                   after  == CommonSuffix(TextOf(run), next, before)
               IN  /\ SubSeq(is, 1, before) = SubSeq(was, 1, before)
                   /\ SubSeq(is, Len(is) - after + 1, Len(is))
                        = SubSeq(was, Len(was) - after + 1, Len(was))
    BY <1>2 DEF EditKept, Spliced
  <2> QED
    BY <2>1 DEF MarksStay, Edited
<1>5. NoSeams
  <2>1. ASSUME NEW k \in DOMAIN galley, NEW r \in DOMAIN galley[k].runs, NEW next \in Typings,
               next # TextOf(galley[k].runs[r])
        PROVE  LET edited == ReplaceInlineText(galley[k].runs[r], next)
               IN  /\ \A n \in DOMAIN edited : edited[n].text # <<>>
                   /\ \A n \in 1..(Len(edited) - 1) : edited[n].marks # edited[n + 1].marks
    <3> DEFINE edited == ReplaceInlineText(galley[k].runs[r], next)
    <3>1. edited \in Seq(Nodes) /\ Seamless(edited)
      BY <1>2, <2>1 DEF EditKept
    <3> HIDE DEF edited
    <3>2. DOMAIN edited = 1..Len(edited)
      BY <3>1, LenProperties
    <3>3. /\ \A n \in DOMAIN edited : edited[n].text # <<>>
          /\ \A n \in 1..(Len(edited) - 1) : edited[n].marks # edited[n + 1].marks
      BY <3>1, <3>2 DEF Seamless
    <3> QED
      BY <3>3 DEF edited
  <2> QED
    BY <2>1 DEF NoSeams, Edited
<1> QED
  BY <1>1, <1>3, <1>4, <1>5 DEF EditsHold

\* What is typed into a field is what it says, what an edit left alone keeps its marks, an
\* edit leaves no seam, and blocks can be told apart, whatever draft was opened and
\* however it was edited (editing.ts replaceInlineText and withUniqueIds).
THEOREM EditsAlwaysHold == BlocksSpec => []EditsHold
<1>1. BlocksInit => GalleyApart
  BY OpenedApart
<1>2. GalleyApart /\ [BlocksNext]_galley => GalleyApart'
  BY StepsApart
<1>3. GalleyApart => EditsHold
  BY ApartHolds
<1> QED
  BY <1>1, <1>2, <1>3, PTL DEF BlocksSpec
=============================================================================
