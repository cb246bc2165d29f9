---------------------------- MODULE Descriptions ----------------------------
(***************************************************************************)
(* The descriptions of an image, one per language: the field beside it in  *)
(* each person's library, and the patches the server merges under the lock *)
(* of the row, against other people's patches and the end of an account.   *)
(***************************************************************************)
EXTENDS Naturals, FiniteSets

CONSTANTS
  Languages,
  People, Role,     \* who describes the image, and as what
  Uploader,         \* the person who uploaded it
  Sayings,          \* what somebody may type
  MaxPatches,       \* bound: the patches sent
  None

LOCAL INSTANCE Access WITH Nobody <- None

\* A description remembers the language its author was typing it in; "" is none.
Described(l, says) == [in |-> l, says |-> says]
Blank     == Described(None, "")
Untouched == Described(None, "untouched")

VARIABLES
  alt,           \* the descriptions stored, by language
  owner,         \* uploadedById
  lock,          \* the patch that holds the row
  field,         \* each person's: the language, the library's copy, the buffers
  patches,       \* sent, until the person hears of them
  sent

descriptionVars == <<alt, owner, lock, field, patches, sent>>

-----------------------------------------------------------------------------
(* The field.                                                              *)

\* canEditMedia.
MayEdit(p, by) ==
  \/ "media:update:any" \in CapabilitiesFor[Role[p]]
  \/ "media:update:own" \in CapabilitiesFor[Role[p]] /\ by = p

\* Whether an account still exists; only the uploader's may end here.
Exists(p) == p = Uploader => owner # None

Editable(p) == field[p].editable

\* Keyed by language.
Buffers(f, description) == [f.buffer EXCEPT ![f.language] = description]

TypeIn(p, says) ==
  /\ Editable(p)
  /\ field' = [field EXCEPT ![p].buffer =
                 Buffers(field[p], Described(field[p].language, says))]
  /\ UNCHANGED <<alt, owner, lock, patches, sent>>

SwitchLanguage(p, l) ==
  /\ field' = [field EXCEPT ![p].language = l]
  /\ UNCHANGED <<alt, owner, lock, patches, sent>>

\* Only what was edited, and only this language.
Blur(p) ==
  LET l      == field[p].language
      edited == field[p].buffer[l]
  IN  /\ edited # Untouched /\ edited.says # field[p].stored[l].says
      /\ sent < MaxPatches
      /\ sent' = sent + 1
      /\ patches' = patches \union
           {[n |-> sent, by |-> p, language |-> l, text |-> edited, seen |-> field[p].stored,
             answer |-> "none"]}
      /\ UNCHANGED <<alt, owner, lock, field>>

\* The library is fetched again.
Reread(p) ==
  /\ Exists(p)
  /\ field' = [field EXCEPT ![p].stored = alt, ![p].editable = MayEdit(p, owner)]
  /\ UNCHANGED <<alt, owner, lock, patches, sent>>

-----------------------------------------------------------------------------
(* The server.                                                             *)

\* Mutant: the whole map is written, as its author last saw it.
Snapshot(current, patch) ==
  [patch.seen EXCEPT ![patch.language] = IF patch.text.says = "" THEN Blank ELSE patch.text]

\* The patch is merged into the row: an empty description is an absent one.
Merged(current, patch) ==
  [current EXCEPT ![patch.language] = IF patch.text.says = "" THEN Blank ELSE patch.text]

Finished(patch, how, row) ==
  patches' = (patches \ {patch}) \union {[patch EXCEPT !.answer = how, !.seen = row]}

LockRow(patch) == lock = None /\ lock' = patch.n

\* The row is locked from the decision to the write.
Decide(patch) ==
  /\ patch.answer = "none" /\ Exists(patch.by)
  /\ MayEdit(patch.by, owner)
  /\ LockRow(patch)
  /\ Finished(patch, "deciding", patch.seen)
  /\ UNCHANGED <<alt, owner, field, sent>>

Forbid(patch) ==
  /\ patch.answer = "none"
  /\ Exists(patch.by) => lock = None /\ ~MayEdit(patch.by, owner)
  /\ Finished(patch, "forbidden", patch.seen)
  /\ UNCHANGED <<alt, owner, lock, field, sent>>

WritePatch(patch) ==
  /\ patch.answer = "deciding"
  /\ alt' = Merged(alt, patch)
  /\ lock' = None
  /\ Finished(patch, "written", alt')
  /\ UNCHANGED <<owner, field, sent>>

\* ON DELETE SET NULL waits for the row.
DeleteAccount ==
  /\ owner # None /\ lock = None
  /\ owner' = None
  /\ UNCHANGED <<alt, lock, field, patches, sent>>

\* The library's copy becomes the row the server answered with; the buffer stays.
HearWritten(patch) ==
  /\ patch.answer = "written"
  /\ patches' = patches \ {patch}
  /\ field' = [field EXCEPT ![patch.by].stored = patch.seen]
  /\ UNCHANGED <<alt, owner, lock, sent>>

\* Refused, or never answered.
HearNothing(patch) ==
  /\ patch.answer # "deciding"
  /\ patches' = patches \ {patch}
  /\ UNCHANGED <<alt, owner, lock, field, sent>>

-----------------------------------------------------------------------------
\* An image nobody has described, in everybody's library.
DescriptionsInit ==
  /\ alt = [l \in Languages |-> Blank]
  /\ owner = Uploader /\ lock = None
  /\ \E spoken \in [People -> Languages] :
       field = [p \in People |->
         [language |-> spoken[p], stored |-> alt, editable |-> MayEdit(p, Uploader),
          buffer |-> [l \in Languages |-> Untouched]]]
  /\ patches = {} /\ sent = 0

DescriptionsNext ==
  \/ \E p \in People :
       \/ Blur(p) \/ Reread(p)
       \/ \E says \in Sayings \union {""} : TypeIn(p, says)
       \/ \E l \in Languages : SwitchLanguage(p, l)
  \/ \E patch \in patches :
       Decide(patch) \/ Forbid(patch) \/ WritePatch(patch) \/ HearWritten(patch) \/ HearNothing(patch)
  \/ DeleteAccount

DescriptionsSpec == DescriptionsInit /\ [][DescriptionsNext]_descriptionVars

-----------------------------------------------------------------------------
\* A description is stored under the language it was typed in, however often the
\* interface changes language before the field is left (media-picker.tsx AltField).
DescribesItsLanguage == \A l \in Languages : alt[l] # Blank => alt[l].in = l

\* Two people who describe one image in two languages never delete each other's
\* work, whatever each last saw (patchMediaAlt: a patch, not a replacement).
OthersWordsStay ==
  [][\A patch \in patches : WritePatch(patch) =>
       \A l \in Languages \ {patch.language} : alt'[l] = alt[l]]_descriptionVars

\* Whoever writes a description may do so on the row as it is written to, also when
\* the account that uploaded it ends meanwhile (patchMediaAlt: for update).
OwnersDecide ==
  [][\A patch \in patches : WritePatch(patch) => MayEdit(patch.by, owner)]_descriptionVars

\* Whatever interleaves, a description is under its own language, another language's
\* stays, and who wrote it was allowed to (AltField, patchMediaAlt).
DescriptionsHold == []DescribesItsLanguage /\ OthersWordsStay /\ OwnersDecide
=============================================================================
