------------------------ MODULE AdministrationProofs ------------------------
(***************************************************************************)
(* What the smaller parts of the administration interface keep true, for   *)
(* any languages, people and documents: the descriptions of an image, the  *)
(* links to a preview, the preferences of a device and its account, a      *)
(* listing read page by page; and the hooks that a write goes through,     *)
(* which are put in order as the rows of a listing are.                    *)
(***************************************************************************)
EXTENDS Naturals, FiniteSets, FiniteSetTheorems, TLAPS

CONSTANT None

-----------------------------------------------------------------------------
(* Descriptions.                                                           *)

CONSTANTS Languages, People, Role, Uploader, Sayings, MaxPatches

VARIABLES alt, owner, lock, field, patches, sent

INSTANCE Descriptions

Captions == [in : Languages \union {None}, says : Sayings \union {"", "untouched"}]

Fields ==
  [language : Languages, stored : [Languages -> Captions], editable : BOOLEAN,
   buffer : [Languages -> Captions]]

Patches ==
  [n : Nat, by : People, language : Languages, text : Captions, seen : [Languages -> Captions],
   answer : {"none", "deciding", "written", "forbidden"}]

DescriptionsTyped ==
  /\ alt \in [Languages -> Captions]
  /\ field \in [People -> Fields]
  /\ patches \subseteq Patches /\ sent \in Nat

\* What was typed, sent or stored under a language is in it.
UnderItsLanguage ==
  /\ \A l \in Languages : alt[l] # Blank => alt[l].in = l
  /\ \A p \in People : \A l \in Languages :
       field[p].buffer[l] # Untouched => field[p].buffer[l].in = l
  /\ \A patch \in patches : patch.text.in = patch.language

\* The row is held by the patch that is being written, decided upon on the row as it is.
HeldByTheWriter ==
  /\ \A p, q \in patches : p.n = q.n => p = q
  /\ \A patch \in patches : patch.n < sent
  /\ \A patch \in patches :
       patch.answer = "deciding" => lock = patch.n /\ MayEdit(patch.by, owner)

DescriptionsInv == DescriptionsTyped /\ UnderItsLanguage /\ HeldByTheWriter

LEMMA MayEditDecides ==
  \A p, by : MayEdit(p, by) \in BOOLEAN
BY DEF MayEdit

LEMMA DescriptionsStart == DescriptionsInit => DescriptionsInv
<1> SUFFICES ASSUME DescriptionsInit PROVE DescriptionsInv
  OBVIOUS
<1>1. PICK b : b = Blank OBVIOUS
<1>2. PICK u : u = Untouched OBVIOUS
<1>3. b \in Captions /\ u \in Captions
  BY <1>1, <1>2 DEF Blank, Untouched, Described, Captions
<1>4. alt = [l \in Languages |-> b] BY <1>1 DEF DescriptionsInit
<1>5. PICK spoken \in [People -> Languages] :
        field = [p \in People |->
          [language |-> spoken[p], stored |-> alt, editable |-> MayEdit(p, Uploader),
           buffer |-> [l \in Languages |-> u]]]
  BY <1>2 DEF DescriptionsInit
<1>6. DescriptionsTyped
  BY <1>3, <1>4, <1>5, MayEditDecides DEF DescriptionsTyped, Fields, DescriptionsInit
<1>7. UnderItsLanguage
  BY <1>1, <1>2, <1>4, <1>5 DEF UnderItsLanguage, DescriptionsInit
<1>8. HeldByTheWriter BY DEF HeldByTheWriter, DescriptionsInit
<1> QED BY <1>6, <1>7, <1>8 DEF DescriptionsInv

\* A step that leaves the patches where they are, or forgets one.
LEMMA TypingDescriptionsKeeps ==
  ASSUME DescriptionsInv, NEW p \in People,
         (\E says \in Sayings \union {""} : TypeIn(p, says))
         \/ (\E l \in Languages : SwitchLanguage(p, l)) \/ Reread(p)
  PROVE  DescriptionsInv'
<1>1. UNCHANGED <<alt, owner, lock, patches, sent>>
  BY DEF TypeIn, SwitchLanguage, Reread
<1>2. PICK f : f = field[p] OBVIOUS
<1>3. f \in Fields
  BY <1>2 DEF DescriptionsInv, DescriptionsTyped
<1>4. \E g : /\ g \in Fields
             /\ field' = [field EXCEPT ![p] = g]
             /\ \A l \in Languages :
                  g.buffer[l] # Untouched => g.buffer[l].in = l
  <2>0. \A l \in Languages : f.buffer[l] # Untouched => f.buffer[l].in = l
    BY <1>2 DEF DescriptionsInv, UnderItsLanguage
  <2>1. ASSUME NEW says \in Sayings \union {""}, TypeIn(p, says)
        PROVE  \E g : /\ g \in Fields
                      /\ field' = [field EXCEPT ![p] = g]
                      /\ \A l \in Languages :
                           g.buffer[l] # Untouched => g.buffer[l].in = l
    <3>1. PICK d : d = Described(f.language, says) OBVIOUS
    <3>2. d \in Captions /\ d.in = f.language BY <1>3, <3>1 DEF Described, Captions, Fields
    <3>3. PICK b : b = [f.buffer EXCEPT ![f.language] = d] OBVIOUS
    <3>4. b \in [Languages -> Captions] BY <1>3, <3>2, <3>3 DEF Fields
    <3>5. \A l \in Languages : b[l] # Untouched => b[l].in = l
      BY <1>3, <2>0, <3>2, <3>3 DEF Fields
    <3>6. PICK g : g = [f EXCEPT !.buffer = b] OBVIOUS
    <3>7. /\ g \in Fields
          /\ g.buffer = b
      BY <1>3, <3>4, <3>6 DEF Fields
    <3>8. field' = [field EXCEPT ![p].buffer = b]
      BY <1>2, <2>1, <3>1, <3>3 DEF TypeIn, Buffers
    <3>9. field' = [field EXCEPT ![p] = g] BY <1>2, <3>6, <3>8
    <3> QED BY <3>5, <3>7, <3>9
  <2>2. ASSUME NEW l \in Languages, SwitchLanguage(p, l)
        PROVE  \E g : /\ g \in Fields
                      /\ field' = [field EXCEPT ![p] = g]
                      /\ \A k \in Languages :
                           g.buffer[k] # Untouched => g.buffer[k].in = k
    <3>1. PICK g : g = [f EXCEPT !.language = l] OBVIOUS
    <3>2. /\ g \in Fields
          /\ g.buffer = f.buffer
      BY <1>3, <3>1 DEF Fields
    <3>3. field' = [field EXCEPT ![p] = g] BY <1>2, <2>2, <3>1 DEF SwitchLanguage
    <3> QED BY <2>0, <3>2, <3>3
  <2>3. ASSUME Reread(p)
        PROVE  \E g : /\ g \in Fields
                      /\ field' = [field EXCEPT ![p] = g]
                      /\ \A l \in Languages :
                           g.buffer[l] # Untouched => g.buffer[l].in = l
    <3>1. PICK m \in BOOLEAN : m = MayEdit(p, owner) BY MayEditDecides
    <3>2. PICK g : g = [f EXCEPT !.stored = alt, !.editable = m] OBVIOUS
    <3>3. alt \in [Languages -> Captions] BY DEF DescriptionsInv, DescriptionsTyped
    <3>4. /\ g \in Fields
          /\ g.buffer = f.buffer
      BY <1>3, <3>2, <3>3 DEF Fields
    <3>5. field' = [field EXCEPT ![p].stored = alt, ![p].editable = m]
      BY <2>3, <3>1 DEF Reread
    <3>6. p \in DOMAIN field BY DEF DescriptionsInv, DescriptionsTyped
    <3>7. field' = [field EXCEPT ![p] = g] BY <1>2, <3>2, <3>5, <3>6
    <3> QED BY <2>0, <3>4, <3>7
  <2> QED BY <2>1, <2>2, <2>3
<1>5. DescriptionsTyped' BY <1>1, <1>4 DEF DescriptionsInv, DescriptionsTyped
<1>6. \A q \in People : \A l \in Languages :
        field'[q].buffer[l] # Untouched => field'[q].buffer[l].in = l
  <2>1. PICK g : /\ field' = [field EXCEPT ![p] = g]
                 /\ \A l \in Languages : g.buffer[l] # Untouched => g.buffer[l].in = l
    BY <1>4
  <2>2. \A q \in People : field'[q] = IF q = p THEN g ELSE field[q]
    BY <2>1 DEF DescriptionsInv, DescriptionsTyped
  <2>3. ASSUME NEW q \in People, NEW l \in Languages
        PROVE  field'[q].buffer[l] # Untouched => field'[q].buffer[l].in = l
    <3>1. CASE q = p
      <4>1. field'[q] = g BY <2>2, <3>1
      <4> QED BY <2>1, <4>1
    <3>2. CASE q # p
      <4>1. field'[q] = field[q] BY <2>2, <3>2
      <4> QED BY <4>1 DEF DescriptionsInv, UnderItsLanguage
    <3> QED BY <3>1, <3>2
  <2> QED BY <2>3
<1>7. UnderItsLanguage'
  BY <1>1, <1>6 DEF DescriptionsInv, UnderItsLanguage
<1>8. HeldByTheWriter' BY <1>1 DEF DescriptionsInv, HeldByTheWriter
<1> QED BY <1>5, <1>7, <1>8 DEF DescriptionsInv

LEMMA BlurKeeps ==
  ASSUME DescriptionsInv, NEW p \in People, Blur(p)
  PROVE  DescriptionsInv'
<1>1. UNCHANGED <<alt, owner, lock, field>> /\ sent' = sent + 1 BY DEF Blur
<1>2. PICK l \in Languages : l = field[p].language
  BY DEF DescriptionsInv, DescriptionsTyped, Fields
<1>3. PICK x : x = [n |-> sent, by |-> p, language |-> l, text |-> field[p].buffer[l],
                    seen |-> field[p].stored, answer |-> "none"]
  OBVIOUS
<1>4. patches' = patches \union {x} BY <1>2, <1>3 DEF Blur
<1>5. x \in Patches BY <1>3 DEF DescriptionsInv, DescriptionsTyped, Patches, Fields
<1>6. x.n = sent /\ x.answer = "none" /\ x.text.in = x.language
  BY <1>2, <1>3 DEF Blur, DescriptionsInv, UnderItsLanguage
<1>7. DescriptionsTyped' BY <1>1, <1>4, <1>5 DEF DescriptionsInv, DescriptionsTyped
<1>8. UnderItsLanguage' BY <1>1, <1>4, <1>6 DEF DescriptionsInv, UnderItsLanguage
<1>9. HeldByTheWriter'
  <2>1. \A patch \in patches : patch.n \in Nat /\ patch.n < sent /\ sent \in Nat
    BY DEF DescriptionsInv, DescriptionsTyped, HeldByTheWriter, Patches
  <2>2. \A patch \in patches' : patch.n < sent' BY <1>1, <1>4, <1>6, <2>1, <1>5 DEF Patches
  <2>3. \A patch \in patches : patch.n # sent BY <2>1
  <2>4. \A q, r \in patches' : q.n = r.n => q = r
    BY <1>4, <1>6, <2>3 DEF DescriptionsInv, HeldByTheWriter
  <2>5. \A patch \in patches' :
          patch.answer = "deciding" => lock' = patch.n /\ MayEdit(patch.by, owner')
    BY <1>1, <1>4, <1>6 DEF DescriptionsInv, HeldByTheWriter
  <2> QED BY <2>2, <2>4, <2>5 DEF HeldByTheWriter
<1> QED BY <1>7, <1>8, <1>9 DEF DescriptionsInv

\* An answer takes the place of what it answers.
LEMMA FinishedPatch ==
  ASSUME DescriptionsInv, NEW patch \in patches, NEW how \in {"deciding", "forbidden", "written"},
         NEW row \in [Languages -> Captions], Finished(patch, how, row)
  PROVE  \E x : /\ patches' = (patches \ {patch}) \union {x} /\ x \in Patches
                /\ x.n = patch.n /\ x.by = patch.by /\ x.text = patch.text
                /\ x.language = patch.language /\ x.answer = how
<1>1. PICK x : x = [patch EXCEPT !.answer = how, !.seen = row] OBVIOUS
<1>2. patch \in Patches BY DEF DescriptionsInv, DescriptionsTyped
<1>3. x \in Patches BY <1>1, <1>2 DEF Patches
<1>4. /\ x.n = patch.n /\ x.by = patch.by /\ x.text = patch.text
      /\ x.language = patch.language /\ x.answer = how
  BY <1>1, <1>2 DEF Patches
<1> QED BY <1>1, <1>3, <1>4 DEF Finished

LEMMA ServingDescriptionsKeeps ==
  ASSUME None \notin Nat, DescriptionsInv, NEW patch \in patches,
         Decide(patch) \/ Forbid(patch) \/ WritePatch(patch)
  PROVE  DescriptionsInv'
<1>1. PICK how \in {"deciding", "forbidden", "written"} :
        \E row \in [Languages -> Captions] : Finished(patch, how, row)
        /\ (how = "deciding" <=> Decide(patch)) /\ (how = "written" <=> WritePatch(patch))
        /\ UNCHANGED <<owner, field, sent>>
  <2>1. patch.seen \in [Languages -> Captions] /\ patch.answer # "x"
        /\ patch.text \in Captions /\ patch.language \in Languages
        /\ alt \in [Languages -> Captions]
    BY DEF DescriptionsInv, DescriptionsTyped, Patches
  <2>2. CASE Decide(patch) BY <2>1, <2>2 DEF Decide, WritePatch
  <2>3. CASE Forbid(patch) 
    <3>1. ~Decide(patch) 
      BY <2>3 DEF Decide, Forbid, LockRow
    <3> QED BY <2>1, <2>3, <3>1 DEF Forbid, WritePatch
  <2>4. CASE WritePatch(patch)
    <3>1. PICK d : d = IF patch.text.says = "" THEN Blank ELSE patch.text OBVIOUS
    <3>2. d \in Captions BY <2>1, <3>1 DEF Blank, Described, Captions
    <3>3. alt' = [alt EXCEPT ![patch.language] = d] BY <2>4, <3>1 DEF WritePatch, Merged
    <3>4. alt' \in [Languages -> Captions] BY <2>1, <3>2, <3>3
    <3> QED BY <2>4, <3>4 DEF WritePatch, Decide
  <2> QED BY <2>2, <2>3, <2>4
<1>2. PICK x : /\ patches' = (patches \ {patch}) \union {x} /\ x \in Patches
               /\ x.n = patch.n /\ x.by = patch.by /\ x.text = patch.text
               /\ x.language = patch.language /\ x.answer = how
  BY <1>1, FinishedPatch
<1>3. \A p, q \in patches : p.n = q.n => p = q
  BY DEF DescriptionsInv, HeldByTheWriter
<1>4. alt' \in [Languages -> Captions] /\ \A l \in Languages : alt'[l] # Blank => alt'[l].in = l
  <2>1. CASE WritePatch(patch)
    <3>1. PICK d : d = IF patch.text.says = "" THEN Blank ELSE patch.text OBVIOUS
    <3>2. patch.text \in Captions /\ patch.language \in Languages
          /\ alt \in [Languages -> Captions] /\ patch.text.in = patch.language
      BY DEF DescriptionsInv, DescriptionsTyped, Patches, UnderItsLanguage
    <3>3. d \in Captions BY <3>1, <3>2 DEF Blank, Described, Captions
    <3>4. alt' = [alt EXCEPT ![patch.language] = d] BY <2>1, <3>1 DEF WritePatch, Merged
    <3>5. d # Blank => d.in = patch.language BY <3>1, <3>2
    <3> QED BY <3>2, <3>3, <3>4, <3>5 DEF DescriptionsInv, UnderItsLanguage
  <2>2. CASE ~WritePatch(patch)
    <3>1. alt' = alt BY <2>2 DEF Decide, Forbid
    <3> QED BY <3>1 DEF DescriptionsInv, DescriptionsTyped, UnderItsLanguage
  <2> QED BY <2>1, <2>2
<1>5. DescriptionsTyped' BY <1>1, <1>2, <1>4 DEF DescriptionsInv, DescriptionsTyped
<1>6. UnderItsLanguage' BY <1>1, <1>2, <1>4 DEF DescriptionsInv, UnderItsLanguage
<1>7. \A p, q \in patches' : p.n = q.n => p = q BY <1>2, <1>3
<1>8. \A p \in patches' : p.n < sent' BY <1>1, <1>2 DEF DescriptionsInv, HeldByTheWriter
<1>9. ASSUME NEW p \in patches', p.answer = "deciding"
      PROVE  lock' = p.n /\ MayEdit(p.by, owner')
  <2>1. CASE p = x
    <3>1. Decide(patch) BY <1>1, <1>2, <1>9, <2>1
    <3> QED BY <1>1, <1>2, <2>1, <3>1 DEF Decide, LockRow
  <2>2. CASE p # x
    <3>1. p \in patches /\ p.n # patch.n /\ lock = p.n /\ MayEdit(p.by, owner)
      BY <1>2, <1>3, <1>9, <2>2 DEF DescriptionsInv, HeldByTheWriter
    <3>2. p.n \in Nat BY <3>1 DEF DescriptionsInv, DescriptionsTyped, Patches
    <3>3. ~Decide(patch) BY <3>1, <3>2 DEF Decide, LockRow
    <3>4. ~WritePatch(patch)
      BY <3>1 DEF WritePatch, DescriptionsInv, HeldByTheWriter
    <3> QED BY <1>1, <3>1, <3>3, <3>4 DEF Forbid
  <2> QED BY <2>1, <2>2
<1>10. HeldByTheWriter' BY <1>7, <1>8, <1>9 DEF HeldByTheWriter
<1> QED BY <1>5, <1>6, <1>10 DEF DescriptionsInv

LEMMA HearingDescriptionsKeeps ==
  ASSUME None \notin Nat, DescriptionsInv,
         (\E patch \in patches : HearWritten(patch) \/ HearNothing(patch)) \/ DeleteAccount
  PROVE  DescriptionsInv'
<1>1. CASE DeleteAccount
  <2>1. \A patch \in patches : patch.answer # "deciding"
    BY <1>1 DEF DeleteAccount, DescriptionsInv, DescriptionsTyped, HeldByTheWriter, Patches
  <2> QED BY <1>1, <2>1 DEF DeleteAccount, DescriptionsInv, DescriptionsTyped, UnderItsLanguage,
                            HeldByTheWriter
<1>2. ASSUME NEW patch \in patches, HearNothing(patch) PROVE DescriptionsInv'
  BY <1>2 DEF HearNothing, DescriptionsInv, DescriptionsTyped, UnderItsLanguage, HeldByTheWriter
<1>3. ASSUME NEW patch \in patches, HearWritten(patch) PROVE DescriptionsInv'
  <2>1. UNCHANGED <<alt, owner, lock, sent>> /\ patches' = patches \ {patch}
        /\ field' = [field EXCEPT ![patch.by].stored = patch.seen]
    BY <1>3 DEF HearWritten
  <2>2. PICK p \in People : p = patch.by BY DEF DescriptionsInv, DescriptionsTyped, Patches
  <2>3. PICK seen \in [Languages -> Captions] : seen = patch.seen
    BY DEF DescriptionsInv, DescriptionsTyped, Patches
  <2>4. PICK f \in Fields : f = field[p]
    BY DEF DescriptionsInv, DescriptionsTyped
  <2>5. PICK g : g = [f EXCEPT !.stored = seen] OBVIOUS
  <2>6. /\ g \in Fields
        /\ g.buffer = f.buffer
    BY <2>5 DEF Fields
  <2>7. field' = [field EXCEPT ![p] = g] BY <2>1, <2>2, <2>3, <2>4, <2>5
  <2>8. DescriptionsTyped' BY <2>1, <2>6, <2>7 DEF DescriptionsInv, DescriptionsTyped
  <2>9. \A q \in People : field'[q].buffer = field[q].buffer
    BY <2>4, <2>6, <2>7 DEF DescriptionsInv, DescriptionsTyped
  <2>10. UnderItsLanguage' BY <2>1, <2>9 DEF DescriptionsInv, UnderItsLanguage
  <2>11. HeldByTheWriter' BY <2>1 DEF DescriptionsInv, HeldByTheWriter
  <2> QED BY <2>8, <2>10, <2>11 DEF DescriptionsInv
<1> QED BY <1>1, <1>2, <1>3

\* Whatever interleaves, a description is under its own language, another language's
\* stays, and who wrote it was allowed to: with any languages, people, roles and
\* patches (AltField, patchMediaAlt).  The value for nobody is no patch's number.
THEOREM DescriptionsAlwaysHold == None \notin Nat => (DescriptionsSpec => DescriptionsHold)
<1> SUFFICES ASSUME None \notin Nat PROVE DescriptionsSpec => DescriptionsHold
  OBVIOUS
<1>1. DescriptionsInit => DescriptionsInv BY DescriptionsStart
<1>2. DescriptionsInv /\ [DescriptionsNext]_(descriptionVars) => DescriptionsInv'
  <2> SUFFICES ASSUME DescriptionsInv, [DescriptionsNext]_(descriptionVars)
               PROVE  DescriptionsInv'
    OBVIOUS
  <2>1. CASE UNCHANGED descriptionVars
    BY <2>1 DEF descriptionVars, DescriptionsInv, DescriptionsTyped, UnderItsLanguage,
                HeldByTheWriter
  <2>2. ASSUME NEW p \in People,
               Reread(p) \/ (\E says \in Sayings \union {""} : TypeIn(p, says))
               \/ (\E l \in Languages : SwitchLanguage(p, l))
        PROVE  DescriptionsInv'
    BY <2>2, TypingDescriptionsKeeps
  <2>3. ASSUME NEW p \in People, Blur(p) PROVE DescriptionsInv' BY <2>3, BlurKeeps
  <2>4. ASSUME NEW patch \in patches, Decide(patch) \/ Forbid(patch) \/ WritePatch(patch)
        PROVE  DescriptionsInv'
    BY <2>4, ServingDescriptionsKeeps
  <2>5. ASSUME (\E patch \in patches : HearWritten(patch) \/ HearNothing(patch))
               \/ DeleteAccount
        PROVE  DescriptionsInv'
    BY <2>5, HearingDescriptionsKeeps
  <2> QED BY <2>1, <2>2, <2>3, <2>4, <2>5 DEF DescriptionsNext
<1>3. DescriptionsInv => DescribesItsLanguage
  BY DEF DescriptionsInv, UnderItsLanguage, DescribesItsLanguage
<1>4. DescriptionsInv
        => [\A patch \in patches : WritePatch(patch) =>
              \A l \in Languages \ {patch.language} : alt'[l] = alt[l]]_(descriptionVars)
  BY DEF DescriptionsInv, DescriptionsTyped, WritePatch, Merged
<1>5. DescriptionsInv
        => [\A patch \in patches : WritePatch(patch) => MayEdit(patch.by, owner)]_(descriptionVars)
  BY DEF DescriptionsInv, HeldByTheWriter, WritePatch
<1> QED BY <1>1, <1>2, <1>3, <1>4, <1>5, PTL
        DEF DescriptionsSpec, DescriptionsHold, OthersWordsStay, OwnersDecide

-----------------------------------------------------------------------------
(* Preview links.                                                          *)

CONSTANTS Documents, Author, Asker, Ttl, MaxNow, MaxLinks

VARIABLES
  status, now, screen, request, link, copied, copying, clipboard, tokens, visit, readable

INSTANCE Preview

\* A document that can be read could last be read now, and one that was read is
\* remembered.
ReadersWatched ==
  /\ now \in Nat /\ readable \in [Documents -> Nat]
  /\ \A d \in Documents : readable[d] <= now /\ (MayRead(d) => readable[d] = now)

\* What was asked for beside a document is that document's.
AskedBesideIt ==
  /\ screen \in [doc : Documents \union {None}, busy : BOOLEAN]
  /\ request.at # "none" => request.doc = screen.doc /\ request.doc \in Documents
  /\ request.token # None => request.token.doc = screen.doc
  /\ link # None => link.doc = screen.doc

\* A link that is to be used was asked for by a reader, less than a lifetime ago.
Delegated ==
  /\ \A token \in tokens :
       token.doc \in Documents /\ token.expiresAt \in Int
       /\ token.expiresAt <= readable[token.doc] + Ttl
  /\ visit.doc # None =>
       visit.doc \in Documents /\ visit.at \in Nat /\ readable[visit.doc] + Ttl > visit.at

\* What is said of a copy is said of what the clipboard holds.
SaidOfTheClipboard ==
  copied # None /\ copied.outcome = "yes" /\ clipboard.here => clipboard.link = copied.link

PreviewInv == ReadersWatched /\ AskedBesideIt /\ Delegated /\ SaidOfTheClipboard

LEMMA PreviewStarts ==
  ASSUME PreviewInit
  PROVE  PreviewInv
<1>1. ReadersWatched BY DEF PreviewInit, ReadersWatched
<1>2. AskedBesideIt BY DEF PreviewInit, AskedBesideIt, Shows
<1>3. Delegated BY DEF PreviewInit, Delegated
<1>4. SaidOfTheClipboard BY DEF PreviewInit, SaidOfTheClipboard
<1> QED BY <1>1, <1>2, <1>3, <1>4 DEF PreviewInv

\* The panel, and the editor around it.
LEMMA PanelKeeps ==
  ASSUME PreviewInv,
         Ask \/ Answered \/ NoAnswer \/ Copy \/ Freeze
         \/ (\E d \in Documents \union {None} : Go(d))
         \/ (\E asked \in copying : \E outcome \in {"yes", "refused"} : CopySettles(asked, outcome))
  PROVE  PreviewInv'
<1>1. UNCHANGED <<status, now, readable, tokens, visit>>
  BY DEF Ask, Answered, NoAnswer, Copy, Freeze, Go, CopySettles
<1>2. ReadersWatched' /\ Delegated'
  BY <1>1 DEF PreviewInv, ReadersWatched, Delegated, MayRead
<1>3. AskedBesideIt'
  <2>1. CASE Ask
    <3>1. PICK r : r = [Shows EXCEPT !.at = "asked", !.doc = screen.doc] OBVIOUS
    <3>2. r.doc = screen.doc /\ r.token = None BY <3>1 DEF Shows
    <3>3. request' = r /\ link' = None /\ screen' = screen BY <2>1, <3>1 DEF Ask
    <3>4. screen.doc \in Documents BY <2>1 DEF Ask, PreviewInv, AskedBesideIt
    <3> QED BY <3>2, <3>3, <3>4 DEF PreviewInv, AskedBesideIt
  <2>2. CASE Answered BY <2>2 DEF Answered, Shows, PreviewInv, AskedBesideIt
  <2>3. CASE NoAnswer BY <2>3 DEF NoAnswer, Shows, PreviewInv, AskedBesideIt
  <2>4. CASE Copy BY <2>4 DEF Copy, PreviewInv, AskedBesideIt
  <2>5. CASE Freeze BY <2>5 DEF Freeze, PreviewInv, AskedBesideIt
  <2>6. ASSUME NEW d \in Documents \union {None}, Go(d) PROVE AskedBesideIt'
    BY <2>6 DEF Go, Remount, Shows, AskedBesideIt
  <2>7. ASSUME NEW asked \in copying, NEW outcome \in {"yes", "refused"}, CopySettles(asked, outcome)
        PROVE  AskedBesideIt'
    BY <2>7 DEF CopySettles, PreviewInv, AskedBesideIt
  <2> QED BY <2>1, <2>2, <2>3, <2>4, <2>5, <2>6, <2>7
<1>4. SaidOfTheClipboard'
  <2>1. CASE Ask \/ Answered BY <2>1 DEF Ask, Answered, SaidOfTheClipboard
  <2>2. CASE NoAnswer \/ Copy \/ Freeze
    BY <2>2 DEF NoAnswer, Copy, Freeze, PreviewInv, SaidOfTheClipboard
  <2>3. ASSUME NEW d \in Documents \union {None}, Go(d) PROVE SaidOfTheClipboard'
    BY <2>3 DEF Go, Remount, SaidOfTheClipboard
  <2>4. ASSUME NEW asked \in copying, NEW outcome \in {"yes", "refused"}, CopySettles(asked, outcome)
        PROVE  SaidOfTheClipboard'
    <3>1. CASE asked.here
      BY <2>4, <3>1 DEF CopySettles, SaidOfTheClipboard
    <3>2. CASE ~asked.here
      BY <2>4, <3>2 DEF CopySettles, PreviewInv, SaidOfTheClipboard
    <3> QED BY <3>1, <3>2
  <2> QED BY <2>1, <2>2, <2>3, <2>4
<1> QED BY <1>2, <1>3, <1>4 DEF PreviewInv

\* Documents that change, and time that passes.
LEMMA WatchingKeeps ==
  ASSUME PreviewInv, Ttl \in Nat, now' \in {now, now + 1}, Watch(status', now'),
         UNCHANGED <<screen, request, link, copied, copying, clipboard, tokens, visit>>
  PROVE  PreviewInv'
<1>1. now \in Nat /\ readable \in [Documents -> Nat] /\ \A d \in Documents : readable[d] <= now
  BY DEF PreviewInv, ReadersWatched
<1>2. now' \in Nat /\ now <= now' BY <1>1
<1>3. readable' = [d \in Documents |->
        IF MayRead(d)' THEN now' ELSE readable[d]]
  BY DEF Watch, MayRead
<1>4. /\ readable' \in [Documents -> Nat]
      /\ \A d \in Documents : readable'[d] \in {readable[d], now'}
  BY <1>1, <1>2, <1>3
<1>5. \A d \in Documents : MayRead(d)' => readable'[d] = now'
  BY <1>3
<1>6. \A d \in Documents : readable'[d] <= now' /\ readable[d] <= readable'[d]
  BY <1>1, <1>2, <1>4
<1>7. ReadersWatched' BY <1>2, <1>4, <1>5, <1>6 DEF ReadersWatched
<1>8. Delegated'
  <2>1. ASSUME NEW d \in Documents, NEW i \in Int, i <= readable[d] + Ttl
        PROVE  i <= readable'[d] + Ttl
    BY <1>1, <1>4, <1>6, <2>1
  <2>2. ASSUME NEW d \in Documents, NEW i \in Int, readable[d] + Ttl > i
        PROVE  readable'[d] + Ttl > i
    BY <1>1, <1>4, <1>6, <2>2
  <2> QED BY <2>1, <2>2 DEF PreviewInv, Delegated
<1>9. AskedBesideIt' /\ SaidOfTheClipboard' BY DEF PreviewInv, AskedBesideIt, SaidOfTheClipboard
<1> QED BY <1>7, <1>8, <1>9 DEF PreviewInv

LEMMA MintKeeps ==
  ASSUME PreviewInv, Ttl \in Nat, Mint
  PROVE  PreviewInv'
<1>1. UNCHANGED <<status, now, screen, link, copied, copying, clipboard, visit, readable>>
  BY DEF Mint
<1>2. ReadersWatched' /\ SaidOfTheClipboard'
  BY <1>1 DEF PreviewInv, ReadersWatched, SaidOfTheClipboard, MayRead
<1>3. request.doc = screen.doc /\ request.doc \in Documents
  BY DEF Mint, PreviewInv, AskedBesideIt
<1>4. CASE MayRead(request.doc)
  <2>1. PICK token : token = [n |-> Cardinality(tokens), doc |-> request.doc,
                              expiresAt |-> now + Ttl]
    OBVIOUS
  <2>2. tokens' = tokens \union {token} /\ request' = [request EXCEPT !.at = "minted", !.token = token]
    BY <1>4, <2>1 DEF Mint
  <2>3. token.doc = request.doc /\ token.expiresAt = now + Ttl BY <2>1
  <2>4. readable[request.doc] = now /\ now \in Nat
    BY <1>3, <1>4 DEF PreviewInv, ReadersWatched
  <2>5. token.expiresAt \in Int /\ token.expiresAt <= readable[token.doc] + Ttl
    BY <2>3, <2>4
  <2>6. Delegated' BY <1>1, <1>3, <2>2, <2>3, <2>5 DEF PreviewInv, Delegated
  <2>7. request'.doc = request.doc /\ request'.token \in {token, request.token}
    BY <2>2
  <2>8. AskedBesideIt' BY <1>1, <1>3, <2>3, <2>7 DEF PreviewInv, AskedBesideIt
  <2> QED BY <1>2, <2>6, <2>8 DEF PreviewInv
<1>5. CASE ~MayRead(request.doc)
  <2>1. tokens' = tokens /\ request' = [request EXCEPT !.at = "refused"] BY <1>5 DEF Mint
  <2>2. Delegated' BY <1>1, <2>1 DEF PreviewInv, Delegated
  <2>3. request'.doc = request.doc /\ request'.token = request.token BY <2>1
  <2>4. AskedBesideIt' BY <1>1, <1>3, <2>3 DEF PreviewInv, AskedBesideIt
  <2> QED BY <1>2, <2>2, <2>4 DEF PreviewInv
<1> QED BY <1>4, <1>5

LEMMA OpeningKeeps ==
  ASSUME PreviewInv, Ttl \in Nat, NEW token \in tokens, OpenLink(token)
  PROVE  PreviewInv'
<1>1. UNCHANGED <<status, now, screen, request, link, copied, copying, clipboard, tokens, readable>>
  BY DEF OpenLink
<1>2. ReadersWatched' /\ SaidOfTheClipboard' /\ AskedBesideIt'
  BY <1>1 DEF PreviewInv, ReadersWatched, SaidOfTheClipboard, AskedBesideIt, MayRead
<1>3. now \in Nat /\ readable \in [Documents -> Nat] BY DEF PreviewInv, ReadersWatched
<1>4. token.doc \in Documents /\ token.expiresAt \in Int
      /\ token.expiresAt <= readable[token.doc] + Ttl
  BY DEF PreviewInv, Delegated
<1>5. visit'.doc = None
      \/ (visit'.doc = token.doc /\ visit'.at = now /\ token.expiresAt > now)
  BY DEF OpenLink, Verified
<1>6. visit'.doc = token.doc /\ visit'.at = now /\ token.expiresAt > now
      => readable[token.doc] + Ttl > now
  BY <1>3, <1>4
<1>7. Delegated' BY <1>1, <1>3, <1>4, <1>5, <1>6 DEF PreviewInv, Delegated
<1> QED BY <1>2, <1>7 DEF PreviewInv

\* What stands beside a document is its own link, what is said of a copy is so, and what
\* a link opens may be read: with any documents, any role at the editor and any lifetime
\* (preview-link.tsx, preview.ts).
THEOREM LinksAlwaysHold == Ttl \in Nat => (PreviewSpec => []LinksHold)
<1> SUFFICES ASSUME Ttl \in Nat PROVE PreviewSpec => []LinksHold
  OBVIOUS
<1>1. PreviewInit => PreviewInv BY PreviewStarts
<1>2. PreviewInv /\ [PreviewNext]_(previewVars) => PreviewInv'
  <2> SUFFICES ASSUME PreviewInv, [PreviewNext]_(previewVars) PROVE PreviewInv'
    OBVIOUS
  <2>1. CASE UNCHANGED previewVars
    BY <2>1 DEF previewVars, PreviewInv, ReadersWatched, AskedBesideIt, Delegated,
                SaidOfTheClipboard, MayRead
  <2>2. CASE Ask \/ Answered \/ NoAnswer \/ Copy \/ Freeze
             \/ (\E d \in Documents \union {None} : Go(d))
             \/ (\E asked \in copying : \E outcome \in {"yes", "refused"} :
                   CopySettles(asked, outcome))
    BY <2>2, PanelKeeps
  <2>3. CASE Mint BY <2>3, MintKeeps
  <2>4. CASE TimePasses
    <3>1. status' = status /\ now' = now + 1 /\ Watch(status', now')
          /\ UNCHANGED <<screen, request, link, copied, copying, clipboard, tokens, visit>>
      BY <2>4 DEF TimePasses, Watch
    <3> QED BY <3>1, WatchingKeeps
  <2>5. ASSUME NEW d \in Documents, NEW next \in Kept \union {"gone"}, Change(d, next)
        PROVE  PreviewInv'
    <3>1. now' = now /\ Watch(status', now')
          /\ UNCHANGED <<screen, request, link, copied, copying, clipboard, tokens, visit>>
      BY <2>5 DEF Change, Watch
    <3> QED BY <3>1, WatchingKeeps
  <2>6. ASSUME NEW token \in tokens, OpenLink(token) PROVE PreviewInv'
    BY <2>6, OpeningKeeps
  <2> QED BY <2>1, <2>2, <2>3, <2>4, <2>5, <2>6 DEF PreviewNext
<1>3. PreviewInv => LinksHold
  BY DEF PreviewInv, AskedBesideIt, Delegated, SaidOfTheClipboard, LinksHold, CopiedIsTrue,
         SaysCopied, LinkIsItsOwn, ADelegatedRead
<1> QED BY <1>1, <1>2, <1>3, PTL DEF PreviewSpec

-----------------------------------------------------------------------------
(* Preferences.                                                            *)

CONSTANTS Themes, Locales, Guess, MaxChoices, MaxElsewhere

VARIABLES account, session, cookie, shown, document, user, fetch, wire, choices, elsewhere

INSTANCE Preferences

\* What may be chosen.
Chosen == {f \in [Settings -> Themes \union Locales] :
             \A s \in Settings : f[s] \in Offered[s]}

Jars  == [Settings -> Themes \union Locales \union {"none", "unreadable"}]
Users == [known : BOOLEAN, name : People \union {None}, prefs : Chosen]
Wires == [n : Nat, who : People \union {None}, setting : Settings,
          value : Themes \union Locales, stored : BOOLEAN, heard : BOOLEAN]

PreferencesTyped ==
  /\ account \in [People -> Chosen] /\ session \in People \union {None}
  /\ cookie \in Jars /\ shown \in Chosen
  /\ user \in Users
  /\ fetch \in [at : {"none", "asked", "served"}, failed : BOOLEAN, user : Users]
  /\ wire \subseteq Wires /\ \A w \in wire : w.value \in Offered[w.setting]
  /\ choices \in Nat

PreferencesInv == PreferencesTyped /\ OnePath

\* The guess is a theme and a language that are offered, and the mark of a cookie
\* that cannot be read is no theme.
GuessIsOffered ==
  Guess \in [theme : Themes, locale : Locales] /\ "unreadable" \notin Themes

LEMMA GuessIsChosen ==
  ASSUME GuessIsOffered
  PROVE  /\ Guess \in Chosen
         /\ SignedOut \in Users /\ Unknown \in Users
         /\ NoFetch \in [at : {"none", "asked", "served"}, failed : BOOLEAN, user : Users]
         /\ Asked \in [at : {"none", "asked", "served"}, failed : BOOLEAN, user : Users]
<1>1. Guess \in [Settings -> Themes \union Locales]
      /\ \A s \in Settings : Guess[s] \in Offered[s]
  BY DEF GuessIsOffered, Settings, Offered
<1>2. Guess \in Chosen BY <1>1 DEF Chosen
<1>3. SignedOut \in Users BY <1>2 DEF SignedOut, Users
<1>4. Unknown \in Users BY <1>3 DEF Unknown, Users
<1>5. NoFetch \in [at : {"none", "asked", "served"}, failed : BOOLEAN, user : Users]
  BY <1>4 DEF NoFetch
<1>6. Asked \in [at : {"none", "asked", "served"}, failed : BOOLEAN, user : Users]
  BY <1>5 DEF Asked
<1> QED BY <1>2, <1>3, <1>4, <1>5, <1>6

\* What the next load would start from is a choice.
LEMMA StartsFromAChoice ==
  ASSUME GuessIsOffered, NEW jar \in Jars
  PROVE  /\ StartsFrom(jar) \in Chosen
         /\ Repaired(jar) \in Jars
         /\ StartsFrom(Repaired(jar)) = StartsFrom(jar)
<1>1. Guess \in [Settings -> Themes \union Locales]
      /\ \A s \in Settings : Guess[s] \in Offered[s]
  BY GuessIsChosen DEF Chosen
<1>2. \A s \in Settings : Offered[s] \subseteq Themes \union Locales
  BY DEF Settings, Offered
<1>3. StartsFrom(jar) \in Chosen BY <1>1, <1>2 DEF StartsFrom, Chosen, Jars
<1>4. Repaired(jar) \in Jars BY <1>1 DEF Repaired, Jars
<1>5. ASSUME NEW s \in Settings
      PROVE  StartsFrom(Repaired(jar))[s] = StartsFrom(jar)[s]
  <2>1. CASE s = "theme" /\ jar[s] = "unreadable"
    <3>1. jar[s] \notin Offered[s] BY <2>1 DEF GuessIsOffered, Offered
    <3>2. Repaired(jar)[s] = Guess[s] BY <2>1 DEF Repaired
    <3> QED BY <1>1, <3>1, <3>2 DEF StartsFrom
  <2>2. CASE ~(s = "theme" /\ jar[s] = "unreadable")
    <3>1. Repaired(jar)[s] = jar[s] BY <2>2 DEF Repaired
    <3> QED BY <3>1 DEF StartsFrom
  <2> QED BY <2>1, <2>2
<1>6. StartsFrom(Repaired(jar)) = StartsFrom(jar) BY <1>5 DEF StartsFrom
<1> QED BY <1>3, <1>4, <1>6

\* Whatever is adopted, the cookies, the controls and the document go one way.
LEMMA SettlingAgrees ==
  ASSUME GuessIsOffered, NEW data \in Users, NEW jar \in Jars, NEW before \in Chosen,
         StartsFrom(jar) = before, Settle(data, jar, before)
  PROVE  /\ user' \in Users /\ shown' \in Chosen /\ cookie' \in Jars
         /\ document' = shown' /\ StartsFrom(cookie') = shown'
<1>1. PICK after : after = Adopted(data, before) OBVIOUS
<1>2. after \in Chosen BY <1>1 DEF Adopted, Users
<1>3. user' = data /\ shown' = after /\ document' = after /\ cookie' = Written(jar, before, after)
  BY <1>1 DEF Settle
<1>4. cookie' \in Jars BY <1>2, <1>3 DEF Written, Jars, Chosen
<1>5. ASSUME NEW s \in Settings PROVE StartsFrom(cookie')[s] = after[s]
  <2>1. CASE after[s] = before[s]
    <3>1. cookie'[s] = jar[s] BY <1>3, <2>1 DEF Written
    <3>2. StartsFrom(cookie')[s] = StartsFrom(jar)[s] BY <3>1 DEF StartsFrom
    <3> QED BY <2>1, <3>2
  <2>2. CASE after[s] # before[s]
    <3>1. cookie'[s] = after[s] BY <1>3, <2>2 DEF Written
    <3>2. after[s] \in Offered[s] BY <1>2 DEF Chosen
    <3> QED BY <3>1, <3>2 DEF StartsFrom
  <2> QED BY <2>1, <2>2
<1>6. StartsFrom(cookie') = after BY <1>2, <1>5 DEF StartsFrom, Chosen
<1> QED BY <1>2, <1>3, <1>4, <1>6

LEMMA PreferencesStart ==
  ASSUME GuessIsOffered, PreferencesInit
  PROVE  PreferencesInv
<1>1. PICK jar \in [Settings -> Themes \union Locales \union {"none", "unreadable"}] :
        /\ shown = StartsFrom(jar) /\ document = StartsFrom(jar)
        /\ cookie = Repaired(jar)
  BY DEF PreferencesInit
<1>2. /\ StartsFrom(jar) \in Chosen /\ Repaired(jar) \in Jars
      /\ StartsFrom(Repaired(jar)) = StartsFrom(jar)
  BY <1>1, StartsFromAChoice DEF Jars
<1>3. OnePath BY <1>1, <1>2 DEF OnePath
<1>4. PreferencesTyped
  BY <1>1, <1>2, GuessIsChosen DEF PreferencesTyped, PreferencesInit
<1> QED BY <1>3, <1>4 DEF PreferencesInv

\* Steps that leave what is shown as it is.
LEMMA QuietPreferencesKeep ==
  ASSUME GuessIsOffered, PreferencesInv,
         Refetch \/ ServeFetch \/ FetchFails \/ (\E w \in wire : Fail(w) \/ StoreChoice(w))
         \/ (\E s \in Settings : \E v \in Offered[s] : \E p \in People : ChooseElsewhere(p, s, v))
  PROVE  PreferencesInv'
<1>1. UNCHANGED <<session, cookie, shown, document, user, choices>>
  BY DEF Refetch, ServeFetch, FetchFails, Fail, StoreChoice, ChooseElsewhere
<1>2. OnePath' BY <1>1 DEF PreferencesInv, OnePath
<1>3. fetch' \in [at : {"none", "asked", "served"}, failed : BOOLEAN, user : Users]
  <2>1. CASE Refetch BY <2>1 DEF Refetch, PreferencesInv, PreferencesTyped
  <2>2. CASE ServeFetch
    <3>1. Me \in Users
      BY GuessIsChosen DEF Me, Somebody, Users, PreferencesInv, PreferencesTyped
    <3> QED BY <2>2, <3>1 DEF ServeFetch, PreferencesInv, PreferencesTyped
  <2>3. CASE FetchFails BY <2>3, GuessIsChosen DEF FetchFails
  <2>4. CASE UNCHANGED fetch BY <2>4 DEF PreferencesInv, PreferencesTyped
  <2> QED BY <2>1, <2>2, <2>3, <2>4 DEF Fail, StoreChoice, ChooseElsewhere
<1>4. ASSUME NEW p \in People, NEW s \in Settings, NEW v \in Offered[s],
             account' = [account EXCEPT ![p][s] = v]
      PROVE  account' \in [People -> Chosen]
  <2>1. PICK f \in Chosen : f = account[p] BY DEF PreferencesInv, PreferencesTyped
  <2>2. PICK g : g = [f EXCEPT ![s] = v] OBVIOUS
  <2>3. v \in Themes \union Locales BY DEF Settings, Offered
  <2>4. g \in Chosen BY <2>1, <2>2, <2>3 DEF Chosen
  <2>5. account' = [account EXCEPT ![p] = g] BY <1>4, <2>1, <2>2
  <2> QED BY <2>4, <2>5 DEF PreferencesInv, PreferencesTyped
<1>5. account' \in [People -> Chosen]
  <2>1. ASSUME NEW w \in wire, StoreChoice(w) PROVE account' \in [People -> Chosen]
    <3>1. w.setting \in Settings /\ w.value \in Offered[w.setting]
      BY DEF PreferencesInv, PreferencesTyped, Wires
    <3>2. account' = account
          \/ (w.who \in People /\ account' = [account EXCEPT ![w.who][w.setting] = w.value])
      BY <2>1 DEF StoreChoice, PreferencesInv, PreferencesTyped
    <3> QED BY <1>4, <3>1, <3>2 DEF PreferencesInv, PreferencesTyped
  <2>2. ASSUME NEW s \in Settings, NEW v \in Offered[s], NEW p \in People,
               ChooseElsewhere(p, s, v)
        PROVE  account' \in [People -> Chosen]
    BY <1>4, <2>2 DEF ChooseElsewhere
  <2>3. CASE UNCHANGED account BY <2>3 DEF PreferencesInv, PreferencesTyped
  <2> QED BY <2>1, <2>2, <2>3 DEF Refetch, ServeFetch, FetchFails, Fail
<1>6. wire' \subseteq Wires /\ \A w \in wire' : w.value \in Offered[w.setting]
  <2>1. ASSUME NEW w \in wire, NEW b \in BOOLEAN,
               wire' \subseteq (wire \ {w}) \union {[w EXCEPT !.heard = FALSE], [w EXCEPT !.stored = TRUE]}
        PROVE  wire' \subseteq Wires /\ \A x \in wire' : x.value \in Offered[x.setting]
    <3>1. w \in Wires /\ w.value \in Offered[w.setting] BY DEF PreferencesInv, PreferencesTyped
    <3>2. PICK x, y : x = [w EXCEPT !.heard = FALSE] /\ y = [w EXCEPT !.stored = TRUE] OBVIOUS
    <3>3. x \in Wires /\ y \in Wires /\ x.value = w.value /\ x.setting = w.setting
          /\ y.value = w.value /\ y.setting = w.setting
      BY <3>1, <3>2 DEF Wires
    <3> QED BY <2>1, <3>1, <3>2, <3>3 DEF PreferencesInv, PreferencesTyped
  <2>2. ASSUME NEW w \in wire, Fail(w) \/ StoreChoice(w)
        PROVE  wire' \subseteq (wire \ {w}) \union
                               {[w EXCEPT !.heard = FALSE], [w EXCEPT !.stored = TRUE]}
    BY <2>2 DEF Fail, StoreChoice
  <2>3. CASE UNCHANGED wire BY <2>3 DEF PreferencesInv, PreferencesTyped
  <2> QED BY <2>1, <2>2, <2>3 DEF Refetch, ServeFetch, FetchFails, ChooseElsewhere
<1>7. PreferencesTyped'
  BY <1>1, <1>3, <1>5, <1>6 DEF PreferencesInv, PreferencesTyped
<1> QED BY <1>2, <1>7 DEF PreferencesInv

LEMMA LoadingKeeps ==
  ASSUME GuessIsOffered, PreferencesInv, Load
  PROVE  PreferencesInv'
<1>1. cookie \in Jars BY DEF PreferencesInv, PreferencesTyped
<1>2. /\ StartsFrom(cookie) \in Chosen /\ Repaired(cookie) \in Jars
      /\ StartsFrom(Repaired(cookie)) = StartsFrom(cookie)
  BY <1>1, StartsFromAChoice
<1>3. OnePath' BY <1>2 DEF Load, OnePath
<1>4. wire' \subseteq Wires /\ \A w \in wire' : w.value \in Offered[w.setting]
  <2>1. ASSUME NEW x \in wire' PROVE x \in Wires /\ x.value \in Offered[x.setting]
    <3>1. PICK w \in wire : x = [w EXCEPT !.heard = FALSE] BY <2>1 DEF Load
    <3>2. w \in Wires /\ w.value \in Offered[w.setting] BY DEF PreferencesInv, PreferencesTyped
    <3>3. x \in Wires /\ x.value = w.value /\ x.setting = w.setting BY <3>1, <3>2 DEF Wires
    <3> QED BY <3>2, <3>3
  <2> QED BY <2>1
<1>5. PreferencesTyped'
  BY <1>2, <1>4, GuessIsChosen DEF Load, PreferencesInv, PreferencesTyped
<1> QED BY <1>3, <1>5 DEF PreferencesInv

LEMMA ChoosingKeeps ==
  ASSUME GuessIsOffered, PreferencesInv, NEW s \in Settings, NEW v \in Offered[s],
         Choose(s, v)
  PROVE  PreferencesInv'
<1>1. UNCHANGED <<account, session, fetch>> /\ choices' = choices + 1 BY DEF Choose
<1>2. v \in Themes \union Locales BY DEF Settings, Offered
<1>3. PICK jar, before : jar = [cookie EXCEPT ![s] = v] /\ before = [shown EXCEPT ![s] = v]
  OBVIOUS
<1>4. jar \in Jars BY <1>2, <1>3 DEF PreferencesInv, PreferencesTyped, Jars
<1>5. before \in Chosen BY <1>2, <1>3 DEF PreferencesInv, PreferencesTyped, Chosen
<1>6. StartsFrom(jar) = before
  <2>1. ASSUME NEW t \in Settings PROVE StartsFrom(jar)[t] = before[t]
    <3>1. CASE t = s
      <4>1. jar[t] = v /\ before[t] = v
        BY <1>3, <3>1 DEF PreferencesInv, PreferencesTyped, Jars, Chosen
      <4> QED BY <3>1, <4>1 DEF StartsFrom
    <3>2. CASE t # s
      <4>1. jar[t] = cookie[t] /\ before[t] = shown[t]
        BY <1>3, <3>2 DEF PreferencesInv, PreferencesTyped, Jars, Chosen
      <4>2. StartsFrom(cookie)[t] = shown[t] BY DEF PreferencesInv, OnePath
      <4> QED BY <4>1, <4>2 DEF StartsFrom
    <3> QED BY <3>1, <3>2
  <2> QED BY <1>5, <2>1 DEF StartsFrom, Chosen
<1>7. Settle(user, jar, before) BY <1>3 DEF Choose
<1>8. user \in Users BY DEF PreferencesInv, PreferencesTyped
<1>9. /\ user' \in Users /\ shown' \in Chosen /\ cookie' \in Jars
      /\ document' = shown' /\ StartsFrom(cookie') = shown'
  BY <1>4, <1>5, <1>6, <1>7, <1>8, SettlingAgrees
<1>10. wire' \subseteq Wires /\ \A w \in wire' : w.value \in Offered[w.setting]
  <2>1. PICK x : x = [n |-> choices, who |-> session, setting |-> s, value |-> v,
                      stored |-> FALSE, heard |-> TRUE]
    OBVIOUS
  <2>2. x \in Wires /\ x.value = v /\ x.setting = s
    BY <1>2, <2>1 DEF PreferencesInv, PreferencesTyped, Wires
  <2>3. wire' = wire \/ wire' = wire \union {x} BY <2>1 DEF Choose
  <2> QED BY <2>2, <2>3 DEF PreferencesInv, PreferencesTyped
<1>11. PreferencesTyped'
  BY <1>1, <1>9, <1>10 DEF PreferencesInv, PreferencesTyped
<1>12. OnePath' BY <1>9 DEF OnePath
<1> QED BY <1>11, <1>12 DEF PreferencesInv

LEMMA HearingPreferencesKeeps ==
  ASSUME GuessIsOffered, PreferencesInv,
         (\E p \in People : SignIn(p)) \/ SignOut \/ HearFetch
         \/ (\E w \in wire : HearStored(w))
  PROVE  PreferencesInv'
<1>1. \E data \in Users : Settle(data, cookie, shown)
  <2>1. ASSUME NEW p \in People, SignIn(p) PROVE \E data \in Users : Settle(data, cookie, shown)
    <3>1. Somebody(p) \in Users BY DEF Somebody, Users, PreferencesInv, PreferencesTyped
    <3> QED BY <2>1, <3>1 DEF SignIn
  <2>2. CASE SignOut BY <2>2, GuessIsChosen DEF SignOut
  <2>3. CASE HearFetch BY <2>3 DEF HearFetch, PreferencesInv, PreferencesTyped
  <2>4. ASSUME NEW w \in wire, HearStored(w) PROVE \E data \in Users : Settle(data, cookie, shown)
    <3>1. CASE user.name = None
      BY <2>4, <3>1 DEF HearStored, PreferencesInv, PreferencesTyped
    <3>2. CASE user.name # None
      <4>1. PICK s \in Settings : s = w.setting BY DEF PreferencesInv, PreferencesTyped, Wires
      <4>2. PICK v \in Offered[s] : v = w.value BY <4>1 DEF PreferencesInv, PreferencesTyped
      <4>3. PICK f \in Chosen : f = user.prefs BY DEF PreferencesInv, PreferencesTyped, Users
      <4>4. PICK g : g = [f EXCEPT ![s] = v] OBVIOUS
      <4>5. v \in Themes \union Locales BY DEF Settings, Offered
      <4>6. g \in Chosen BY <4>4, <4>5 DEF Chosen
      <4>7. PICK data : data = [user EXCEPT !.prefs = g] OBVIOUS
      <4>8. data \in Users BY <4>6, <4>7 DEF PreferencesInv, PreferencesTyped, Users
      <4>9. data = [user EXCEPT !.prefs[w.setting] = w.value]
        BY <4>1, <4>2, <4>3, <4>4, <4>7 DEF PreferencesInv, PreferencesTyped, Users
      <4> QED BY <2>4, <3>2, <4>8, <4>9 DEF HearStored
    <3> QED BY <3>1, <3>2
  <2> QED BY <2>1, <2>2, <2>3, <2>4
<1>2. PICK data \in Users : Settle(data, cookie, shown) BY <1>1
<1>3. cookie \in Jars /\ shown \in Chosen /\ StartsFrom(cookie) = shown
  BY DEF PreferencesInv, PreferencesTyped, OnePath
<1>4. /\ user' \in Users /\ shown' \in Chosen /\ cookie' \in Jars
      /\ document' = shown' /\ StartsFrom(cookie') = shown'
  BY <1>2, <1>3, SettlingAgrees
<1>5. account' = account /\ wire' \subseteq wire /\ choices' = choices
      /\ session' \in People \union {None}
  BY DEF SignIn, SignOut, HearFetch, HearStored, PreferencesInv, PreferencesTyped
<1>6. fetch' \in [at : {"none", "asked", "served"}, failed : BOOLEAN, user : Users]
  <2>1. CASE fetch' = fetch \/ fetch' = [fetch EXCEPT !.failed = FALSE]
    BY <2>1 DEF PreferencesInv, PreferencesTyped
  <2>2. CASE fetch' = NoFetch BY <2>2, GuessIsChosen
  <2> QED BY <2>1, <2>2 DEF SignIn, SignOut, HearFetch, HearStored
<1>7. PreferencesTyped' BY <1>4, <1>5, <1>6 DEF PreferencesInv, PreferencesTyped
<1>8. OnePath' BY <1>4 DEF OnePath
<1> QED BY <1>7, <1>8 DEF PreferencesInv

\* A device agrees with itself at every moment, and with its account once it has heard
\* of it: with any people, themes and languages (theme.tsx, i18n.tsx, app.tsx).
THEOREM PreferencesAlwaysHold == GuessIsOffered => (PreferencesSpec => PreferencesHold)
<1> SUFFICES ASSUME GuessIsOffered PROVE PreferencesSpec => PreferencesHold
  OBVIOUS
<1>1. PreferencesInit => PreferencesInv BY PreferencesStart
<1>2. PreferencesInv /\ [PreferencesNext]_(preferenceVars) => PreferencesInv'
  <2> SUFFICES ASSUME PreferencesInv, [PreferencesNext]_(preferenceVars) PROVE PreferencesInv'
    OBVIOUS
  <2>1. CASE UNCHANGED preferenceVars
    BY <2>1 DEF preferenceVars, PreferencesInv, PreferencesTyped, OnePath
  <2>2. CASE Load BY <2>2, LoadingKeeps
  <2>3. ASSUME NEW s \in Settings, NEW v \in Offered[s], Choose(s, v) PROVE PreferencesInv'
    BY <2>3, ChoosingKeeps
  <2>4. CASE (\E p \in People : SignIn(p)) \/ SignOut \/ HearFetch
             \/ (\E w \in wire : HearStored(w))
    BY <2>4, HearingPreferencesKeeps
  <2>5. CASE Refetch \/ ServeFetch \/ FetchFails
             \/ (\E w \in wire : Fail(w) \/ StoreChoice(w))
             \/ (\E s \in Settings : \E v \in Offered[s] : \E p \in People :
                   ChooseElsewhere(p, s, v))
    BY <2>5, QuietPreferencesKeep
  <2> QED BY <2>1, <2>2, <2>3, <2>4, <2>5 DEF PreferencesNext
<1>3. PreferencesInv => OnePath BY DEF PreferencesInv
<1>4. [HearFetch /\ fetch.user = Me /\ session # None => shown' = account[session]]_(preferenceVars)
  <2> SUFFICES ASSUME HearFetch, fetch.user = Me, session # None
               PROVE  shown' = account[session]
    OBVIOUS
  <2>1. fetch.user = Somebody(session) BY DEF Me
  <2>2. fetch.user.name = session /\ fetch.user.prefs = account[session] BY <2>1 DEF Somebody
  <2> QED BY <2>2 DEF HearFetch, Settle, Adopted
<1> QED BY <1>1, <1>2, <1>3, <1>4, PTL
        DEF PreferencesSpec, PreferencesHold, FollowsThePerson

-----------------------------------------------------------------------------
(* Ranks.  The members of a finite set that is ordered strictly and         *)
(* totally are ranked from 0 by how many come before each.                 *)

Orders(R, S) ==
  /\ \A a \in S : <<a, a>> \notin R
  /\ \A a, b, c \in S : <<a, b>> \in R /\ <<b, c>> \in R => <<a, c>> \in R
  /\ \A a, b \in S : a = b \/ <<a, b>> \in R \/ <<b, a>> \in R

Earlier(R, S, e) == {o \in S : <<o, e>> \in R}

LEMMA RankGrows ==
  ASSUME NEW S, IsFiniteSet(S), NEW R, Orders(R, S), NEW a \in S, NEW b \in S
  PROVE  /\ Cardinality(Earlier(R, S, a)) \in 0..(Cardinality(S) - 1)
         /\ <<a, b>> \in R => Cardinality(Earlier(R, S, a)) < Cardinality(Earlier(R, S, b))
<1>1. /\ IsFiniteSet(Earlier(R, S, a)) /\ IsFiniteSet(Earlier(R, S, b))
      /\ Cardinality(Earlier(R, S, a)) \in Nat /\ Cardinality(Earlier(R, S, b)) \in Nat
  BY FS_Subset, FS_CardinalityType DEF Earlier
<1>2. Cardinality(S \ {a}) = Cardinality(S) - 1 /\ IsFiniteSet(S \ {a})
  BY FS_RemoveElement
<1>3. Earlier(R, S, a) \subseteq S \ {a} BY DEF Earlier, Orders
<1>4. Cardinality(Earlier(R, S, a)) <= Cardinality(S \ {a}) BY <1>2, <1>3, FS_Subset
<1>5. Cardinality(S) \in Nat BY FS_CardinalityType
<1>6. ASSUME <<a, b>> \in R
      PROVE  Cardinality(Earlier(R, S, a)) < Cardinality(Earlier(R, S, b))
  <2>1. Earlier(R, S, a) \subseteq Earlier(R, S, b) BY <1>6 DEF Earlier, Orders
  <2>2. a \in Earlier(R, S, b) /\ a \notin Earlier(R, S, a) BY <1>6 DEF Earlier, Orders
  <2>3. Cardinality(Earlier(R, S, a)) <= Cardinality(Earlier(R, S, b))
        /\ Cardinality(Earlier(R, S, a)) # Cardinality(Earlier(R, S, b))
    BY <1>1, <2>1, <2>2, FS_Subset
  <2> QED BY <1>1, <2>3
<1> QED BY <1>1, <1>2, <1>4, <1>5, <1>6

LEMMA RanksAreTaken ==
  ASSUME NEW S, IsFiniteSet(S), NEW R, Orders(R, S)
  PROVE  \A k \in 1..Cardinality(S) : \E e \in S : Cardinality(Earlier(R, S, e)) = k - 1
<1> SUFFICES ASSUME NEW k \in 1..Cardinality(S)
             PROVE  \E e \in S : Cardinality(Earlier(R, S, e)) = k - 1
  OBVIOUS
<1>1. PICK n : n = Cardinality(S) OBVIOUS
<1>2. n \in Nat /\ k \in 1..n BY <1>1, FS_CardinalityType
<1> SUFFICES ASSUME \A e \in S : Cardinality(Earlier(R, S, e)) # k - 1
             PROVE  FALSE
  OBVIOUS
<1> DEFINE f == [e \in S |-> Cardinality(Earlier(R, S, e))]
           T == 0..(n - 1)
<1>3. \A e \in S : Cardinality(Earlier(R, S, e)) \in T \ {k - 1} BY <1>1, RankGrows
<1>4. f \in [S -> T \ {k - 1}] BY <1>3
<1>5. IsFiniteSet(T) /\ Cardinality(T) = n BY <1>2, FS_Interval
<1>6. k - 1 \in T BY <1>2
<1>7. IsFiniteSet(T \ {k - 1}) /\ Cardinality(T \ {k - 1}) = n - 1
  BY <1>5, <1>6, FS_RemoveElement
<1>8. Cardinality(T \ {k - 1}) < Cardinality(S) BY <1>1, <1>2, <1>7
<1>9. PICK x, y \in S : x # y /\ f[x] = f[y]
  <2> HIDE DEF f, T
  <2> QED BY <1>4, <1>7, <1>8, FS_PigeonHole
<1>10. x # y /\ f[x] = f[y] BY <1>9
<1>11. Cardinality(Earlier(R, S, x)) = Cardinality(Earlier(R, S, y)) BY <1>10
<1>12. <<x, y>> \in R \/ <<y, x>> \in R BY <1>10 DEF Orders
<1>13. /\ <<x, y>> \in R => Cardinality(Earlier(R, S, x)) < Cardinality(Earlier(R, S, y))
       /\ <<y, x>> \in R => Cardinality(Earlier(R, S, y)) < Cardinality(Earlier(R, S, x))
       /\ Cardinality(Earlier(R, S, x)) \in 0..(Cardinality(S) - 1)
  BY RankGrows
<1> QED BY <1>2, <1>1, <1>11, <1>12, <1>13

Ranked(R, S, s) ==
  /\ DOMAIN s = 1..Cardinality(S)
  /\ \A k \in 1..Cardinality(S) : s[k] \in S /\ Cardinality(Earlier(R, S, s[k])) = k - 1

\* A sequence that holds at each place a member with as many before it as the place
\* says holds them all, in order.
LEMMA RankedInOrder ==
  ASSUME NEW S, IsFiniteSet(S), NEW R, Orders(R, S),
         NEW s, Ranked(R, S, s)
  PROVE  /\ \A k, l \in 1..Cardinality(S) : k < l => <<s[k], s[l]>> \in R
         /\ \A e \in S : \E k \in 1..Cardinality(S) : s[k] = e
<1>1. PICK n : n = Cardinality(S) OBVIOUS
<1>2. n \in Nat BY <1>1, FS_CardinalityType
<1>3. \A k \in 1..n : s[k] \in S /\ Cardinality(Earlier(R, S, s[k])) = k - 1
  BY <1>1 DEF Ranked
<1>4. ASSUME NEW k \in 1..n, NEW l \in 1..n, k < l PROVE <<s[k], s[l]>> \in R
  <2>1. s[k] \in S /\ s[l] \in S BY <1>3
  <2>2. Cardinality(Earlier(R, S, s[k])) = k - 1 /\ Cardinality(Earlier(R, S, s[l])) = l - 1
    BY <1>3
  <2>3. <<s[l], s[k]>> \in R =>
          Cardinality(Earlier(R, S, s[l])) < Cardinality(Earlier(R, S, s[k]))
    BY <2>1, RankGrows
  <2>4. <<s[l], s[k]>> \notin R BY <1>2, <1>4, <2>2, <2>3
  <2>5. s[k] # s[l] BY <1>2, <1>4, <2>2
  <2> QED BY <2>1, <2>4, <2>5 DEF Orders
<1>5. ASSUME NEW e \in S PROVE \E k \in 1..n : s[k] = e
  <2>1. Cardinality(Earlier(R, S, e)) \in 0..(n - 1) BY <1>1, RankGrows
  <2>2. PICK k \in 1..n : k - 1 = Cardinality(Earlier(R, S, e)) 
    <3>1. Cardinality(Earlier(R, S, e)) + 1 \in 1..n BY <1>2, <2>1
    <3> QED BY <1>2, <2>1, <3>1
  <2>3. s[k] \in S /\ Cardinality(Earlier(R, S, s[k])) = Cardinality(Earlier(R, S, e))
    BY <1>3, <2>2
  <2>4. s[k] = e \/ <<s[k], e>> \in R \/ <<e, s[k]>> \in R BY <2>3 DEF Orders
  <2>5. /\ <<s[k], e>> \in R => Cardinality(Earlier(R, S, s[k])) < Cardinality(Earlier(R, S, e))
        /\ <<e, s[k]>> \in R => Cardinality(Earlier(R, S, e)) < Cardinality(Earlier(R, S, s[k]))
    BY <2>3, RankGrows
  <2> QED BY <1>2, <2>1, <2>3, <2>4, <2>5
<1> QED BY <1>1, <1>4, <1>5

-----------------------------------------------------------------------------
(* Paging.                                                                 *)

CONSTANTS Ids, PageSize, MaxInstant

VARIABLES column, table, instant, uploaded, pages, flight, steady

INSTANCE Paging

ListingIsFinite ==
  Ids \subseteq Nat /\ IsFiniteSet(Ids) /\ PageSize \in Nat \ {0} /\ MaxInstant \in Nat

Rows    == [at : 0..MaxInstant, id : Ids]
Cursors == [at : 0..MaxInstant, id : Ids] \union {NoCursor}
Pages   == [rows : Seq(Rows), next : Cursors]

ListingTyped ==
  /\ column \in {"updated_at", "created_at"}
  /\ table \in [Ids -> 0..MaxInstant \union {Unborn, Gone}]
  /\ instant \in 0..MaxInstant
  /\ uploaded \subseteq Rows /\ (column = "updated_at" => uploaded = {})
  /\ pages \in Seq(Pages)
  /\ flight \in [kind : {"none", "all", "more"}, read : Seq(Pages), steady : SUBSET Ids]

\* Where one who has read these pages goes on.
GoesOn(read) == read[Len(read)].next

\* The row shares its millisecond with the last of a page.
AtASeam(read, at) ==
  \E p \in DOMAIN read :
    read[p].rows # <<>> /\ Ms(read[p].rows[Len(read[p].rows)].at) = Ms(at)

ShownBy(read, d) == \E p \in DOMAIN read : \E k \in DOMAIN read[p].rows : read[p].rows[k].id = d

\* Of the rows nobody touched, each was read, shares the millisecond of a seam, or is
\* still to come.
Covers(instants, read, rest) ==
  \A d \in rest :
    /\ d \in Ids /\ instants[d] \notin {Unborn, Gone}
    /\ \/ ShownBy(read, d)
       \/ AtASeam(read, instants[d])
       \/ GoesOn(read) # NoCursor /\ Before(GoesOn(read), [at |-> instants[d], id |-> d])

\* The pages are in order, and so is what comes after them.
InOrder(read) ==
  /\ \A p \in DOMAIN read : \A q \in 1..p : \A k \in DOMAIN read[p].rows, l \in DOMAIN read[q].rows :
       (q < p \/ l < k) => Before(read[q].rows[l], read[p].rows[k])
  /\ GoesOn(read) # NoCursor =>
       \A e \in Rows : Before(GoesOn(read), e) =>
         \A p \in DOMAIN read : \A k \in DOMAIN read[p].rows : Before(read[p].rows[k], e)

\* What the request under way has to show for itself, with the pages it goes on from.
Read == IF flight.kind = "more" THEN pages \o flight.read ELSE flight.read

ListingInv ==
  /\ ListingTyped
  /\ pages = <<>> => steady = {}
  /\ pages # <<>> => Covers(table, pages, steady)
  /\ flight.kind = "more" =>
       /\ pages # <<>> /\ flight.steady \subseteq steady
       /\ flight.read = <<>> => GoesOn(pages) # NoCursor
  /\ flight.kind # "none" /\ Read # <<>> => Covers(table, Read, flight.steady)
  /\ column = "updated_at" /\ pages # <<>> => InOrder(pages)
  /\ column = "updated_at" /\ flight.kind # "none" /\ Read # <<>> => InOrder(Read)

-----------------------------------------------------------------------------
(* A page.                                                                 *)

LEMMA Milliseconds ==
  ASSUME ListingIsFinite
  PROVE  /\ \A t \in 0..MaxInstant : Ms(t) \in 0..MaxInstant /\ Ms(t) <= t
         /\ \A t, u \in 0..MaxInstant : t < u /\ Ms(u) <= t => Ms(t) = Ms(u)
BY DEF ListingIsFinite, Ms

\* A cursor is no later than the row it was taken from.
LEMMA CursorComesAfter ==
  ASSUME ListingIsFinite, NEW l \in Rows, NEW e \in Rows, NEW c \in Rows,
         c = [at |-> Ms(l.at), id |-> l.id]
  PROVE  /\ Before(c, e) => Before(l, e)
         /\ Before(l, e) => Before(c, e) \/ Ms(l.at) = Ms(e.at)
<1>1. /\ l.at \in 0..MaxInstant /\ e.at \in 0..MaxInstant
      /\ l.id \in Nat /\ e.id \in Nat /\ MaxInstant \in Nat
  BY DEF Rows, ListingIsFinite
<1>2. c.at = Ms(l.at) /\ c.id = l.id OBVIOUS
<1>3. Ms(l.at) \in 0..MaxInstant /\ Ms(l.at) <= l.at
      /\ (e.at < l.at /\ Ms(l.at) <= e.at => Ms(e.at) = Ms(l.at))
  BY <1>1, Milliseconds
<1> HIDE DEF Rows
<1> QED BY <1>1, <1>2, <1>3 DEF Before

LEMMA EntriesAreOrdered ==
  ASSUME ListingIsFinite, ListingTyped
  PROVE  /\ IsFiniteSet(Entries) /\ Entries \subseteq Rows
         /\ Entries = {[at |-> table[d], id |-> d] : d \in Present}
         /\ \A a \in Rows : ~Before(a, a)
         /\ \A a, b, c \in Rows : Before(a, b) /\ Before(b, c) => Before(a, c)
         /\ \A a, b \in Rows : a = b \/ Before(a, b) \/ Before(b, a)
<1>1. Entries \subseteq Rows BY DEF Entries, Present, Rows, ListingTyped
<1>2. IsFiniteSet(Entries)
  <2>1. IsFiniteSet(Present) BY FS_Subset DEF Present, ListingIsFinite
  <2> DEFINE f == [d \in Present |-> [at |-> table[d], id |-> d]]
  <2>2. f \in Surjection(Present, Entries) BY DEF Entries, Surjection
  <2> QED BY <2>1, <2>2, FS_Surjection
<1>3. ASSUME NEW a \in Rows PROVE a.at \in Nat /\ a.id \in Nat
  <2>1. a.at \in 0..MaxInstant /\ a.id \in Ids BY DEF Rows
  <2>2. 0..MaxInstant \subseteq Nat /\ Ids \subseteq Nat BY DEF ListingIsFinite
  <2> QED BY <2>1, <2>2
<1>4. \A a, b \in Rows : a.at = b.at /\ a.id = b.id => a = b BY DEF Rows
<1>5. \A a, b \in Rows : a = b \/ Before(a, b) \/ Before(b, a)
  BY <1>3, <1>4 DEF Before
<1>6. \A a, b, c \in Rows : Before(a, b) /\ Before(b, c) => Before(a, c)
  BY <1>3 DEF Before
<1>7. \A a \in Rows : ~Before(a, a) BY <1>3 DEF Before
<1> QED BY <1>1, <1>2, <1>5, <1>6, <1>7 DEF Entries

\* A query answers all there is, in order.
LEMMA QueryFacts ==
  ASSUME ListingIsFinite, ListingTyped, NEW S \in SUBSET Entries, NEW s, s = InOrderOf(S)
  PROVE  /\ IsFiniteSet(S) /\ Cardinality(S) \in Nat
         /\ s \in Seq(S) /\ Len(s) = Cardinality(S)
         /\ \A k, l \in 1..Cardinality(S) : k < l => Before(s[k], s[l])
         /\ \A e \in S : \E k \in 1..Cardinality(S) : s[k] = e
<1>1. IsFiniteSet(S) /\ Cardinality(S) \in Nat
  BY EntriesAreOrdered, FS_Subset, FS_CardinalityType
<1>2. PICK R : R = {p \in S \X S : Before(p[1], p[2])} OBVIOUS
<1>3. \A a, b \in S : <<a, b>> \in R <=> Before(a, b) BY <1>2
<1>4. Orders(R, S) BY <1>3, EntriesAreOrdered DEF Orders
<1>5. \A e \in S : Earlier(R, S, e) = {o \in S : Before(o, e)} BY <1>3 DEF Earlier
<1>6. ASSUME NEW k \in 1..Cardinality(S)
      PROVE  \E e \in S : Cardinality({o \in S : Before(o, e)}) = k - 1
  <2>1. \A j \in 1..Cardinality(S) : \E e \in S : Cardinality(Earlier(R, S, e)) = j - 1
    BY <1>1, <1>4, RanksAreTaken
  <2>2. \E e \in S : Cardinality(Earlier(R, S, e)) = k - 1 BY <2>1
  <2> QED BY <1>5, <2>2, ZenonT(60)
<1>7. DOMAIN s = 1..Cardinality(S) BY DEF InOrderOf
<1>8. ASSUME NEW k \in 1..Cardinality(S)
      PROVE  s[k] \in S /\ Cardinality(Earlier(R, S, s[k])) = k - 1
  <2>1. s[k] = CHOOSE e \in S : Cardinality({o \in S : Before(o, e)}) = k - 1 BY DEF InOrderOf
  <2>2. s[k] \in S /\ Cardinality({o \in S : Before(o, s[k])}) = k - 1 BY <1>6, <2>1
  <2> QED BY <1>5, <2>2
<1>85. Ranked(R, S, s) BY <1>7, <1>8 DEF Ranked
<1>9. /\ \A k, l \in 1..Cardinality(S) : k < l => <<s[k], s[l]>> \in R
      /\ \A e \in S : \E k \in 1..Cardinality(S) : s[k] = e
  BY <1>1, <1>4, <1>85, RankedInOrder
<1>10. s \in Seq(S) /\ Len(s) = Cardinality(S)
  <2> DEFINE h(k) == CHOOSE e \in S : Cardinality({o \in S : Before(o, e)}) = k - 1
  <2>0. s = [k \in 1..Cardinality(S) |-> h(k)] BY DEF InOrderOf
  <2> HIDE DEF h
  <2>1. s = [k \in 1..Cardinality(S) |-> s[k]] BY <2>0
  <2>2. PICK n : n = Cardinality(S) OBVIOUS
  <2>3. n \in Nat /\ s = [k \in 1..n |-> s[k]] /\ \A k \in 1..n : s[k] \in S
    BY <1>1, <1>8, <2>1, <2>2
  <2>4. s \in [1..n -> S] BY <2>3
  <2> QED BY <2>2, <2>3, <2>4
<1> QED BY <1>1, <1>3, <1>8, <1>9, <1>10

Here(cursor) == cursor = Top \/ cursor \in Rows

LEMMA PageFacts ==
  ASSUME ListingIsFinite, ListingTyped, NEW cursor, Here(cursor), NEW page, page = PageAfter(cursor)
  PROVE  /\ page \in Pages
         /\ \A k \in DOMAIN page.rows : page.rows[k] \in After(cursor)
         /\ \A k, l \in DOMAIN page.rows : k < l => Before(page.rows[k], page.rows[l])
         /\ \A e \in After(cursor) :
              \/ \E k \in DOMAIN page.rows : page.rows[k] = e
              \/ page.rows # <<>> /\ Ms(page.rows[Len(page.rows)].at) = Ms(e.at)
              \/ page.next # NoCursor /\ Before(page.next, e)
         /\ page.next # NoCursor =>
              /\ \E k \in DOMAIN page.rows : TRUE
              /\ \A e \in Rows : Before(page.next, e) =>
                   \A k \in DOMAIN page.rows : Before(page.rows[k], e)
<1>1. PICK S : S = After(cursor) OBVIOUS
<1>2. S \in SUBSET Entries BY <1>1 DEF After
<1>3. PICK s : s = InOrderOf(S) OBVIOUS
<1>4. PICK n : n = Cardinality(S) OBVIOUS
<1>5. PICK m : m = IF n < PageSize THEN n ELSE PageSize OBVIOUS
<1>6. /\ n \in Nat /\ s \in Seq(S) /\ Len(s) = n
      /\ \A k, l \in 1..n : k < l => Before(s[k], s[l])
      /\ \A e \in S : \E k \in 1..n : s[k] = e
  BY <1>2, <1>3, <1>4, QueryFacts
<1>7. Entries \subseteq Rows /\ S \subseteq Rows BY <1>2, EntriesAreOrdered
<1>8. PageSize \in Nat /\ PageSize > 0 BY DEF ListingIsFinite
<1>9. m \in Nat /\ m <= n /\ m <= PageSize /\ (n > PageSize => m = PageSize) /\ (n <= PageSize => m = n)
  BY <1>5, <1>6, <1>8
<1>10. page = [rows |-> SubSeq(s, 1, m), next |-> IF n > PageSize THEN CursorOf(s) ELSE NoCursor]
  BY <1>1, <1>3, <1>4, <1>5, <1>6 DEF PageAfter
<1>11. PICK r : r = SubSeq(s, 1, m) OBVIOUS
<1>12. r \in Seq(S) /\ Len(r) = m /\ DOMAIN r = 1..m /\ \A k \in 1..m : r[k] = s[k]
  <2> QED BY <1>6, <1>9, <1>11
<1>13. \A k \in 1..n : s[k] \in S /\ s[k] \in Rows BY <1>6, <1>7
<1>14. PICK c : c = IF n > PageSize THEN CursorOf(s) ELSE NoCursor OBVIOUS
<1>15. page = [rows |-> r, next |-> c] /\ page.rows = r /\ page.next = c
  <2>1. page = [rows |-> r, next |-> c] BY <1>10, <1>11, <1>14, Zenon
  <2> QED BY <2>1
<1>16. CASE n <= PageSize
  <2>1. c = NoCursor /\ m = n BY <1>6, <1>8, <1>9, <1>14, <1>16
  <2>2. page \in Pages BY <1>7, <1>12, <1>15, <2>1 DEF Pages, Cursors
  <2>3. \A e \in S : \E k \in 1..m : r[k] = e BY <1>6, <1>12, <2>1
  <2>4. \A k \in 1..m : r[k] \in S BY <1>12
  <2>5. \A k, l \in 1..m : k < l => Before(r[k], r[l]) BY <1>6, <1>9, <1>12, <2>1
  <2> QED BY <1>1, <1>12, <1>15, <2>1, <2>2, <2>3, <2>4, <2>5
<1>17. CASE n > PageSize
  <2>1. m = PageSize /\ m \in 1..n BY <1>8, <1>9, <1>17
  <2>2. PICK l : l = s[m] OBVIOUS
  <2>3. l \in Rows /\ r[m] = l /\ r # <<>> BY <1>12, <1>13, <2>1, <2>2
  <2>4. c = [at |-> Ms(l.at), id |-> l.id] BY <1>14, <1>17, <2>1, <2>2 DEF CursorOf
  <2>5. c \in Rows
    <3>1. l.at \in 0..MaxInstant /\ l.id \in Ids BY <2>3 DEF Rows
    <3>2. Ms(l.at) \in 0..MaxInstant BY <3>1, Milliseconds
    <3> QED BY <2>4, <3>1, <3>2 DEF Rows
  <2>6. \A e \in Rows : /\ Before(c, e) => Before(l, e)
                        /\ Before(l, e) => Before(c, e) \/ Ms(l.at) = Ms(e.at)
    BY <2>3, <2>4, <2>5, CursorComesAfter
  <2>7. page \in Pages
    <3>1. r \in Seq(Rows) BY <1>7, <1>12
    <3>2. page = [rows |-> r, next |-> c] BY <1>15
    <3>3. c \in Cursors BY <2>5 DEF Cursors, Rows
    <3> QED BY <3>1, <3>2, <3>3 DEF Pages
  <2>8. \A k \in 1..m : r[k] \in S BY <1>12
  <2>9. \A k, j \in 1..m : k < j => Before(r[k], r[j]) BY <1>6, <1>9, <1>12
  <2>10. ASSUME NEW e \in S
         PROVE  \/ \E k \in 1..m : r[k] = e
                \/ r # <<>> /\ Ms(r[m].at) = Ms(e.at)
                \/ c # NoCursor /\ Before(c, e)
    <3>1. PICK k \in 1..n : s[k] = e BY <1>6
    <3>2. CASE k <= m BY <1>9, <1>12, <3>1, <3>2
    <3>3. CASE k > m
      <4>1. Before(l, e) BY <1>6, <2>1, <2>2, <3>1, <3>3
      <4>2. c # NoCursor BY <2>5 DEF NoCursor, Rows, AtEnd, ListingIsFinite
      <4>3. e \in Rows BY <1>7
      <4> QED BY <2>3, <2>6, <4>1, <4>2, <4>3
    <3> QED BY <1>9, <3>2, <3>3
  <2>11. ASSUME NEW e \in Rows, Before(c, e), NEW k \in 1..m PROVE Before(r[k], e)
    <3>1. Before(l, e) BY <2>6, <2>11
    <3>2. k = m \/ Before(r[k], l) BY <1>9, <2>3, <2>9, <2>1
    <3>3. r[k] \in Rows BY <1>7, <1>12
    <3> QED BY <2>3, <3>1, <3>2, <3>3, EntriesAreOrdered
  <2>12. \E k \in 1..m : TRUE BY <2>1
  <2>13. DOMAIN page.rows = 1..m /\ Len(page.rows) = m BY <1>12, <1>15
  <2> QED BY <1>1, <1>12, <1>15, <2>7, <2>8, <2>9, <2>10, <2>11, <2>12, <2>13
<1> QED BY <1>6, <1>8, <1>16, <1>17

LEMMA RowsOfPages ==
  \A page \in Pages : \A k \in DOMAIN page.rows : page.rows[k] \in Rows
<1>1. \A r \in Seq(Rows) : \A k \in DOMAIN r : r[k] \in Rows OBVIOUS
<1> QED BY <1>1 DEF Pages

LEMMA GoesOnFacts ==
  ASSUME ListingIsFinite, NEW read \in Seq(Pages), read # <<>>
  PROVE  /\ GoesOn(read) \in Cursors /\ GoesOn(read) # Top
         /\ GoesOn(read) # NoCursor => Here(GoesOn(read))
<1>1. Len(read) \in 1..Len(read) OBVIOUS
<1>2. read[Len(read)] \in Pages BY <1>1
<1>3. GoesOn(read) \in Cursors BY <1>2 DEF GoesOn, Pages
<1>4. Top \notin Cursors
  <2>1. Top.at = MaxInstant + 4 /\ NoCursor.at = MaxInstant + 3
    BY DEF Top, NoCursor, AtHead, AtEnd
  <2>2. \A r \in Rows : r.at \in 0..MaxInstant BY DEF Rows
  <2> QED BY <2>1, <2>2 DEF Cursors, Rows, ListingIsFinite
<1> QED BY <1>3, <1>4 DEF Cursors, Here, Rows

\* A page read after others: the rows nobody touched are covered still, and what was in
\* order is.
LEMMA ReadingOn ==
  ASSUME ListingIsFinite, ListingTyped, NEW read \in Seq(Pages), NEW cursor, NEW rest,
         \/ read = <<>> /\ cursor = Top /\ rest \subseteq Present
         \/ /\ read # <<>> /\ cursor = GoesOn(read) /\ cursor # NoCursor
            /\ Covers(table, read, rest),
         NEW more, more = Append(read, PageAfter(cursor))
  PROVE  /\ more \in Seq(Pages) /\ more # <<>>
         /\ Covers(table, more, rest)
         /\ read = <<>> \/ InOrder(read) => InOrder(more)
<1>1. PICK page : page = PageAfter(cursor) OBVIOUS
<1>2. PICK n : n = Len(read) OBVIOUS
<1>3. Here(cursor) BY GoesOnFacts DEF Here
<1>4. /\ page \in Pages
      /\ \A k \in DOMAIN page.rows : page.rows[k] \in After(cursor)
      /\ \A k, l \in DOMAIN page.rows : k < l => Before(page.rows[k], page.rows[l])
      /\ \A e \in After(cursor) :
           \/ \E k \in DOMAIN page.rows : page.rows[k] = e
           \/ page.rows # <<>> /\ Ms(page.rows[Len(page.rows)].at) = Ms(e.at)
           \/ page.next # NoCursor /\ Before(page.next, e)
      /\ page.next # NoCursor =>
           /\ \E k \in DOMAIN page.rows : TRUE
           /\ \A e \in Rows : Before(page.next, e) =>
                \A k \in DOMAIN page.rows : Before(page.rows[k], e)
  BY <1>1, <1>3, PageFacts
<1>5. /\ more = Append(read, page) /\ n \in Nat
      /\ more \in Seq(Pages) /\ Len(more) = n + 1 /\ more # <<>>
      /\ DOMAIN read = 1..n /\ DOMAIN more = 1..(n + 1)
      /\ \A p \in 1..n : more[p] = read[p]
      /\ more[n + 1] = page
  BY <1>1, <1>2, <1>4
<1>6. GoesOn(more) = page.next BY <1>5 DEF GoesOn
<1>7. Covers(table, more, rest)
  <2> SUFFICES ASSUME NEW d \in rest
               PROVE  /\ d \in Ids /\ table[d] \notin {Unborn, Gone}
                      /\ \/ ShownBy(more, d) \/ AtASeam(more, table[d])
                         \/ /\ GoesOn(more) # NoCursor
                            /\ Before(GoesOn(more), [at |-> table[d], id |-> d])
    BY DEF Covers
  <2>1. d \in Ids /\ table[d] \notin {Unborn, Gone} BY DEF Covers, Present
  <2>2. PICK e : e = [at |-> table[d], id |-> d] OBVIOUS
  <2>3. e \in Entries /\ e.at = table[d] /\ e.id = d BY <2>1, <2>2 DEF Entries, Present
  <2>4. CASE e \in After(cursor)
    <3>1. CASE \E k \in DOMAIN page.rows : page.rows[k] = e
      BY <1>5, <2>1, <2>3, <3>1 DEF ShownBy
    <3>2. CASE page.rows # <<>> /\ Ms(page.rows[Len(page.rows)].at) = Ms(e.at)
      BY <1>5, <2>1, <2>3, <3>2 DEF AtASeam
    <3>3. CASE page.next # NoCursor /\ Before(page.next, e) BY <1>6, <2>1, <2>2, <3>3
    <3> QED BY <1>4, <2>4, <3>1, <3>2, <3>3
  <2>5. CASE e \notin After(cursor)
    <3>1. cursor.at # AtHead /\ ~Before(cursor, e) BY <2>3, <2>5 DEF After
    <3>2. cursor # Top BY <3>1 DEF Top
    <3>3. read # <<>> /\ cursor = GoesOn(read) /\ Covers(table, read, rest) BY <3>2
    <3>4. ShownBy(read, d) \/ AtASeam(read, table[d]) BY <2>2, <3>1, <3>3 DEF Covers
    <3>5. ShownBy(read, d) => ShownBy(more, d) BY <1>5 DEF ShownBy
    <3>6. AtASeam(read, table[d]) => AtASeam(more, table[d]) BY <1>5 DEF AtASeam
    <3> QED BY <2>1, <3>4, <3>5, <3>6
  <2> QED BY <2>4, <2>5
<1>8. ASSUME read = <<>> \/ InOrder(read) PROVE InOrder(more)
  <2>1. \A e \in After(cursor) : e \in Rows /\ (read # <<>> => Before(cursor, e))
    <3>1. read # <<>> => cursor.at # AtHead
      BY <1>3, GoesOnFacts DEF Here, Rows, AtHead, ListingIsFinite
    <3> QED BY <3>1, EntriesAreOrdered DEF After
  <2>2. \A p \in 1..n : \A k \in DOMAIN page.rows, l \in DOMAIN read[p].rows :
          Before(read[p].rows[l], page.rows[k])
    <3> SUFFICES ASSUME NEW p \in 1..n, NEW k \in DOMAIN page.rows, NEW l \in DOMAIN read[p].rows
                 PROVE  Before(read[p].rows[l], page.rows[k])
      OBVIOUS
    <3>1. read # <<>> BY <1>2
    <3>2. Before(cursor, page.rows[k]) /\ page.rows[k] \in Rows BY <1>4, <2>1, <3>1
    <3> QED BY <1>5, <1>8, <3>1, <3>2 DEF InOrder
  <2>3. \A p \in 1..(n + 1) : \A q \in 1..p : \A k \in DOMAIN more[p].rows, l \in DOMAIN more[q].rows :
          (q < p \/ l < k) => Before(more[q].rows[l], more[p].rows[k])
    <3> SUFFICES ASSUME NEW p \in 1..(n + 1), NEW q \in 1..p,
                        NEW k \in DOMAIN more[p].rows, NEW l \in DOMAIN more[q].rows,
                        q < p \/ l < k
                 PROVE  Before(more[q].rows[l], more[p].rows[k])
      OBVIOUS
    <3>1. CASE p \in 1..n
      <4>1. q \in 1..n /\ more[p] = read[p] /\ more[q] = read[q] /\ read # <<>>
        BY <1>2, <1>5, <3>1
      <4> QED BY <1>5, <1>8, <3>1, <4>1 DEF InOrder
    <3>2. CASE p = n + 1 /\ q \in 1..n
      BY <1>5, <2>2, <3>2
    <3>3. CASE p = n + 1 /\ q = n + 1
      BY <1>4, <1>5, <3>3
    <3> QED BY <1>5, <3>1, <3>2, <3>3
  <2>4. ASSUME GoesOn(more) # NoCursor, NEW e \in Rows, Before(GoesOn(more), e),
               NEW p \in 1..(n + 1), NEW k \in DOMAIN more[p].rows
        PROVE  Before(more[p].rows[k], e)
    <3>1. \A j \in DOMAIN page.rows : Before(page.rows[j], e) BY <1>4, <1>6, <2>4
    <3>2. CASE p = n + 1 BY <1>5, <3>1, <3>2
    <3>3. CASE p \in 1..n
      <4>1. more[p].rows[k] \in Rows
        <5>1. more[p] \in Pages BY <1>5
        <5> QED BY <5>1, RowsOfPages
      <4>2. more[p] = read[p] BY <1>5, <3>3
      <4>3. PICK j \in DOMAIN page.rows : TRUE BY <1>4, <1>6, <2>4
      <4>4. Before(more[p].rows[k], page.rows[j]) BY <2>2, <3>3, <4>2
      <4>5. page.rows[j] \in Rows BY <1>4, <2>1
      <4>6. Before(page.rows[j], e) BY <3>1
      <4>7. \A a, b, c \in Rows : Before(a, b) /\ Before(b, c) => Before(a, c)
        BY EntriesAreOrdered
      <4> QED BY <4>1, <4>4, <4>5, <4>6, <4>7, Zenon
    <3> QED BY <1>5, <3>2, <3>3
  <2> QED BY <1>5, <2>3, <2>4 DEF InOrder
<1> QED BY <1>5, <1>7, <1>8

-----------------------------------------------------------------------------
(* The steps.                                                              *)

\* Rows may come, and those no longer counted on may go or move.
LEMMA CoversStays ==
  ASSUME NEW before, NEW after, NEW read, NEW rest, NEW fewer \in SUBSET rest,
         Covers(before, read, rest), \A d \in fewer : after[d] = before[d]
  PROVE  Covers(after, read, fewer)
BY DEF Covers

\* An asset goes on top.
LEMMA OnTop ==
  ASSUME ListingIsFinite, NEW instants, NEW read \in Seq(Pages), read # <<>>, NEW rest,
         NEW asset \in Rows, NEW more \in Seq(Pages), Len(more) = Len(read),
         more[1].rows = <<asset>> \o read[1].rows, more[1].next = read[1].next,
         \A p \in 2..Len(read) : more[p] = read[p]
  PROVE  /\ GoesOn(more) = GoesOn(read)
         /\ Covers(instants, read, rest) => Covers(instants, more, rest)
<1>1. PICK n : n = Len(read) /\ n \in Nat /\ n > 0 /\ DOMAIN read = 1..n /\ DOMAIN more = 1..n
               /\ Len(more) = n
  OBVIOUS
<1>2. GoesOn(more) = GoesOn(read)
  <2>1. CASE n = 1 BY <1>1, <2>1 DEF GoesOn
  <2>2. CASE n # 1 BY <1>1, <2>2 DEF GoesOn
  <2> QED BY <2>1, <2>2
<1>3. PICK r \in Seq(Rows) : r = read[1].rows
  <2>1. read[1] \in Pages BY <1>1
  <2> QED BY <2>1 DEF Pages
<1>4. PICK s : s = <<asset>> \o r OBVIOUS
<1>5. /\ s \in Seq(Rows) /\ Len(s) = Len(r) + 1 /\ s # <<>>
      /\ DOMAIN r = 1..Len(r) /\ DOMAIN s = 1..(Len(r) + 1) /\ Len(r) \in Nat
      /\ \A k \in 1..Len(r) : s[k + 1] = r[k]
      /\ r # <<>> => s[Len(s)] = r[Len(r)]
  BY <1>3, <1>4
<1>6. more[1].rows = s /\ read[1].rows = r BY <1>3, <1>4
<1>7. ASSUME NEW d, ShownBy(read, d) PROVE ShownBy(more, d)
  <2>1. PICK p \in 1..n : \E k \in DOMAIN read[p].rows : read[p].rows[k].id = d
    BY <1>1, <1>7 DEF ShownBy
  <2>2. PICK k \in DOMAIN read[p].rows : read[p].rows[k].id = d BY <2>1
  <2>3. CASE p = 1
    <3>1. k \in 1..Len(r) /\ r[k].id = d BY <1>5, <1>6, <2>2, <2>3
    <3>2. PICK j \in DOMAIN s : s[j].id = d
      <4>1. k + 1 \in 1..(Len(r) + 1) BY <1>5, <3>1
      <4>2. s[k + 1] = r[k] BY <1>5, <3>1
      <4> QED BY <1>5, <3>1, <4>1, <4>2, Zenon
    <3>3. j \in DOMAIN more[1].rows /\ more[1].rows[j].id = d BY <1>6, <3>2, ZenonT(60)
    <3>4. 1 \in DOMAIN more BY <1>1
    <3> QED BY <3>3, <3>4, ZenonT(60) DEF ShownBy
  <2>4. CASE p # 1
    <3>1. p \in 2..Len(read) /\ p \in DOMAIN more BY <1>1, <2>4
    <3>2. more[p] = read[p] BY <3>1
    <3> QED BY <2>1, <3>1, <3>2, ZenonT(60) DEF ShownBy
  <2> QED BY <2>3, <2>4
<1>8. ASSUME NEW at, AtASeam(read, at) PROVE AtASeam(more, at)
  <2>1. PICK p \in 1..n : read[p].rows # <<>> /\ Ms(read[p].rows[Len(read[p].rows)].at) = Ms(at)
    BY <1>1, <1>8 DEF AtASeam
  <2>2. CASE p = 1 BY <1>1, <1>5, <1>6, <2>1, <2>2 DEF AtASeam
  <2>3. CASE p # 1 BY <1>1, <2>1, <2>3 DEF AtASeam
  <2> QED BY <2>2, <2>3
<1> QED BY <1>2, <1>7, <1>8 DEF Covers

LEMMA ListingStarts == ListingIsFinite /\ PagingInit => ListingInv
<1> SUFFICES ASSUME ListingIsFinite, PagingInit PROVE ListingInv
  OBVIOUS
<1>1. flight = [kind |-> "none", read |-> <<>>, steady |-> {}] /\ pages = <<>> /\ steady = {}
  BY DEF PagingInit, Landed
<1>2. <<>> \in Seq(Pages) OBVIOUS
<1>3. flight \in [kind : {"none", "all", "more"}, read : Seq(Pages), steady : SUBSET Ids]
  BY <1>1, <1>2
<1>4. table \in [Ids -> 0..MaxInstant \union {Unborn, Gone}] /\ instant \in 0..MaxInstant
      /\ uploaded = {} /\ column \in {"updated_at", "created_at"}
  BY DEF PagingInit, ListingIsFinite
<1> QED BY <1>1, <1>2, <1>3, <1>4 DEF ListingInv, ListingTyped

\* A write leaves alone what is counted on still.
LEMMA WritesKeepTheListing ==
  ASSUME ListingIsFinite, ListingInv, NEW d \in Ids,
         Create(d) \/ Save(d) \/ Delete(d) \/ UploadRow(d)
  PROVE  ListingInv'
<1>1. PICK gone \in SUBSET {d} :
        /\ steady' = steady \ gone /\ flight' = [flight EXCEPT !.steady = @ \ gone]
        /\ \A e \in Ids : table[e] \notin {Unborn, Gone} => e \in gone \/ table'[e] = table[e]
  <2>1. CASE Create(d) \/ UploadRow(d)
    <3>1. steady' = steady \ {} /\ flight' = [flight EXCEPT !.steady = @ \ {}]
      BY <2>1 DEF Create, UploadRow, ListingInv, ListingTyped
    <3>2. \A e \in Ids : table[e] \notin {Unborn, Gone} => table'[e] = table[e]
      BY <2>1 DEF Create, UploadRow, InsertRow, ListingInv, ListingTyped
    <3> QED BY <3>1, <3>2
  <2>2. CASE Save(d) \/ Delete(d)
    <3>1. steady' = steady \ {d} /\ flight' = [flight EXCEPT !.steady = @ \ {d}]
      BY <2>2 DEF Save, Delete, Touched
    <3>2. \A e \in Ids : e # d => table'[e] = table[e]
      BY <2>2 DEF Save, Delete, ListingInv, ListingTyped
    <3> QED BY <3>1, <3>2
  <2> QED BY <2>1, <2>2
<1>2. pages' = pages /\ column' = column /\ instant' = instant
  BY DEF Create, Save, Delete, UploadRow
<1>3. ListingTyped BY DEF ListingInv
<1>4. /\ flight'.kind = flight.kind /\ flight'.read = flight.read
      /\ flight'.steady = flight.steady \ gone
      /\ flight' \in [kind : {"none", "all", "more"}, read : Seq(Pages), steady : SUBSET Ids]
  <2>1. flight = [kind |-> flight.kind, read |-> flight.read, steady |-> flight.steady]
        /\ flight.kind \in {"none", "all", "more"} /\ flight.read \in Seq(Pages)
        /\ flight.steady \in SUBSET Ids
    BY <1>3 DEF ListingTyped
  <2> QED BY <1>1, <2>1
<1>5. ListingTyped'
  <2>1. table' \in [Ids -> 0..MaxInstant \union {Unborn, Gone}]
    <3>1. Ms(instant) \in 0..MaxInstant BY <1>3, Milliseconds DEF ListingTyped
    <3> QED BY <1>3, <3>1 DEF Create, Save, Delete, UploadRow, InsertRow, ListingTyped
  <2>2. uploaded' \subseteq Rows /\ (column' = "updated_at" => uploaded' = {})
    <3>1. CASE UploadRow(d)
      <4>1. [at |-> instant, id |-> d] \in Rows BY <1>3 DEF Rows, ListingTyped
      <4>2. column # "updated_at" BY <3>1 DEF UploadRow
      <4>3. uploaded' = uploaded \union {[at |-> instant, id |-> d]} BY <3>1 DEF UploadRow
      <4> QED BY <1>2, <1>3, <4>1, <4>2, <4>3 DEF ListingTyped
    <3>2. CASE Create(d) \/ Save(d) \/ Delete(d)
      BY <1>3, <3>2 DEF Create, Save, Delete, ListingTyped
    <3> QED BY <3>1, <3>2
  <2> QED BY <1>2, <1>3, <1>4, <2>1, <2>2 DEF ListingTyped
<1>6. PICK t, t2, read, rest, kept, busy :
        /\ t = table /\ t2 = table' /\ read = Read /\ rest = flight.steady
        /\ kept = flight'.steady /\ busy = flight
  OBVIOUS
<1>7. Read' = read BY <1>2, <1>4, <1>6 DEF Read
<1>8. ASSUME NEW some, NEW r, Covers(table, r, some) PROVE Covers(table', r, some \ gone)
  <2>1. \A e \in some \ gone : t2[e] = t[e] BY <1>1, <1>6, <1>8 DEF Covers
  <2>2. Covers(t, r, some) /\ some \ gone \in SUBSET some BY <1>6, <1>8
  <2>3. Covers(t2, r, some \ gone) BY <2>1, <2>2, CoversStays
  <2> QED BY <1>6, <2>3
<1>9. pages' # <<>> => Covers(table', pages', steady') BY <1>1, <1>2, <1>8 DEF ListingInv
<1>10. flight'.kind # "none" /\ Read' # <<>> => Covers(table', Read', flight'.steady)
  BY <1>4, <1>6, <1>7, <1>8 DEF ListingInv
<1>11. column' = "updated_at" /\ flight'.kind # "none" /\ Read' # <<>> => InOrder(Read')
  BY <1>2, <1>4, <1>6, <1>7 DEF ListingInv
<1>12. flight'.kind = "more" =>
         /\ pages' # <<>> /\ flight'.steady \subseteq steady'
         /\ flight'.read = <<>> => GoesOn(pages') # NoCursor
  BY <1>1, <1>2, <1>4 DEF ListingInv
<1>13. (pages' = <<>> => steady' = {}) /\ (column' = "updated_at" /\ pages' # <<>> => InOrder(pages'))
  BY <1>1, <1>2 DEF ListingInv
<1> QED BY <1>5, <1>9, <1>10, <1>11, <1>12, <1>13 DEF ListingInv

\* An asset that is answered for goes on top of what the screen holds, not of what it
\* is reading over again.
LEMMA AnswersKeepTheListing ==
  ASSUME ListingIsFinite, ListingInv, NEW asset \in uploaded, UploadAnswered(asset)
  PROVE  ListingInv'
<1>1. ListingTyped BY DEF ListingInv
<1>2. /\ table' = table /\ column' = column /\ instant' = instant /\ flight' = flight
      /\ steady' = steady /\ uploaded' \subseteq uploaded
  BY DEF UploadAnswered
<1>3. column # "updated_at" /\ asset \in Rows BY <1>1 DEF ListingTyped
<1>4. CASE pages = <<>>
  <2>1. pages' = pages /\ Read' = Read BY <1>2, <1>4 DEF UploadAnswered, Read
  <2>2. ListingTyped' BY <1>1, <1>2, <1>3, <2>1 DEF ListingTyped
  <2> QED BY <1>2, <1>3, <2>1, <2>2 DEF ListingInv
<1>5. CASE pages # <<>>
  <2>1. PICK n : n = Len(pages) /\ n \in Nat /\ n > 0 /\ DOMAIN pages = 1..n /\ pages \in Seq(Pages)
    BY <1>1, <1>5 DEF ListingTyped
  <2>2. PICK r, c : r \in Seq(Rows) /\ c \in Cursors /\ pages[1] = [rows |-> r, next |-> c]
    <3>1. pages[1] \in Pages BY <2>1
    <3> QED BY <3>1 DEF Pages
  <2>3. PICK top : top = [rows |-> <<asset>> \o r, next |-> c] OBVIOUS
  <2>4. pages' = [pages EXCEPT ![1] = top]
    <3>1. pages' = [pages EXCEPT ![1].rows = <<asset>> \o @] BY <1>5 DEF UploadAnswered
    <3>2. [pages[1] EXCEPT !.rows = <<asset>> \o @] = top
      <4>1. PICK rows, first : rows = <<asset>> \o r /\ first = pages[1] OBVIOUS
      <4>2. first = [rows |-> r, next |-> c] /\ first.rows = r BY <2>2, <4>1
      <4>3. [first EXCEPT !.rows = rows] = [rows |-> rows, next |-> c] BY <4>2
      <4>4. pages[1].rows = r BY <4>1, <4>2
      <4> QED BY <2>3, <4>1, <4>3, <4>4
    <3> QED BY <2>1, <3>1, <3>2
  <2>5. top \in Pages /\ top.rows = <<asset>> \o pages[1].rows /\ top.next = pages[1].next
    <3>1. <<asset>> \o r \in Seq(Rows) BY <1>3, <2>2
    <3> QED BY <2>2, <2>3, <3>1 DEF Pages
  <2>6. PICK more : more = pages' OBVIOUS
  <2>7. /\ more \in Seq(Pages) /\ Len(more) = n /\ more # <<>>
        /\ more[1] = top /\ \A p \in 2..n : more[p] = pages[p]
    BY <2>1, <2>4, <2>5, <2>6
  <2>8. ListingTyped' BY <1>1, <1>2, <1>3, <2>6, <2>7 DEF ListingTyped
  <2>9. /\ GoesOn(more) = GoesOn(pages)
        /\ Covers(table, pages, steady) => Covers(table, more, steady)
    BY <1>3, <1>5, <2>1, <2>5, <2>7, OnTop
  <2>10. ASSUME flight.kind = "more"
         PROVE  Covers(table, Read', flight.steady)
    <3>1. PICK f : f = flight.read OBVIOUS
    <3>2. f \in Seq(Pages) BY <1>1, <3>1 DEF ListingTyped
    <3>3. PICK old, new : old = pages \o f /\ new = more \o f OBVIOUS
    <3>4. /\ old \in Seq(Pages) /\ new \in Seq(Pages) /\ old # <<>> /\ Len(new) = Len(old)
          /\ old[1] = pages[1] /\ new[1] = top /\ \A p \in 2..Len(old) : new[p] = old[p]
      <4>1. /\ old \in Seq(Pages) /\ new \in Seq(Pages)
            /\ Len(old) = n + Len(f) /\ Len(new) = n + Len(f) /\ Len(f) \in Nat
            /\ \A p \in 1..(n + Len(f)) :
                 /\ old[p] = IF p <= n THEN pages[p] ELSE f[p - n]
                 /\ new[p] = IF p <= n THEN more[p] ELSE f[p - n]
        BY <2>1, <2>7, <3>2, <3>3
      <4>2. old # <<>> BY <2>1, <4>1
      <4>3. old[1] = pages[1] /\ new[1] = top BY <2>1, <2>7, <4>1
      <4>4. \A p \in 2..n : new[p] = old[p]
        <5> SUFFICES ASSUME NEW p \in 2..n PROVE new[p] = old[p]
          OBVIOUS
        <5>1. p \in 1..(n + Len(f)) /\ p <= n BY <2>1, <4>1
        <5> QED BY <2>7, <4>1, <5>1
      <4>5. \A p \in (n + 1)..(n + Len(f)) : new[p] = old[p] BY <2>1, <4>1
      <4>6. \A p \in 2..Len(old) : new[p] = old[p]
        <5> SUFFICES ASSUME NEW p \in 2..Len(old) PROVE new[p] = old[p]
          OBVIOUS
        <5>1. p \in 2..n \/ p \in (n + 1)..(n + Len(f)) BY <2>1, <4>1
        <5> QED BY <4>4, <4>5, <5>1
      <4> QED BY <4>1, <4>2, <4>3, <4>6
    <3>5. Read = old /\ Read' = new BY <1>2, <2>6, <2>10, <3>1, <3>3 DEF Read
    <3>6. Covers(table, old, flight.steady) BY <2>10, <3>4, <3>5 DEF ListingInv
    <3>7. Covers(table, new, flight.steady) BY <1>3, <2>5, <3>4, <3>6, OnTop
    <3> QED BY <3>5, <3>7
  <2>11. flight.kind # "more" => Read' = Read BY <1>2 DEF Read
  <2>12. flight'.kind # "none" /\ Read' # <<>> => Covers(table', Read', flight'.steady)
    BY <1>2, <2>10, <2>11 DEF ListingInv
  <2> QED BY <1>2, <1>3, <1>5, <2>6, <2>7, <2>8, <2>9, <2>12 DEF ListingInv
<1> QED BY <1>4, <1>5

\* The clock says nothing of the rows.
LEMMA ListingWaits ==
  ASSUME ListingIsFinite, ListingInv, Elapse \/ UNCHANGED pagingVars
  PROVE  ListingInv'
<1>1. UNCHANGED <<column, table, uploaded, pages, flight, steady>> /\ instant' \in 0..MaxInstant
  BY DEF Elapse, pagingVars, ListingInv, ListingTyped, ListingIsFinite
<1>2. ListingTyped' BY <1>1 DEF ListingInv, ListingTyped
<1>3. Read' = Read BY <1>1 DEF Read
<1> QED BY <1>1, <1>2, <1>3 DEF ListingInv

LEMMA RequestsKeepTheListing ==
  ASSUME ListingIsFinite, ListingInv, Fetch \/ LoadMore \/ ReadFails
  PROVE  ListingInv'
<1>1. ListingTyped BY DEF ListingInv
<1>2. UNCHANGED <<column, table, instant, uploaded, pages, steady>>
  BY DEF Fetch, LoadMore, ReadFails
<1>3. PICK kind, rest :
        /\ flight' = [kind |-> kind, read |-> <<>>, steady |-> rest]
        /\ kind \in {"none", "all", "more"} /\ rest \in SUBSET Ids
        /\ kind = "more" => rest = steady /\ pages # <<>> /\ GoesOn(pages) # NoCursor
  <2>1. steady \in SUBSET Ids BY DEF ListingInv, Covers
  <2>2. Present \in SUBSET Ids BY DEF Present
  <2> QED BY <2>1, <2>2 DEF Fetch, LoadMore, ReadFails, Landed, GoesOn
<1>4. flight'.kind = kind /\ flight'.read = <<>> /\ flight'.steady = rest BY <1>3
<1>5. ListingTyped'
  <2>1. <<>> \in Seq(Pages) OBVIOUS
  <2>2. flight' \in [kind : {"none", "all", "more"}, read : Seq(Pages), steady : SUBSET Ids]
    BY <1>3, <2>1
  <2> QED BY <1>1, <1>2, <2>2 DEF ListingTyped
<1>6. kind # "more" => Read' = <<>> BY <1>4 DEF Read
<1>7. kind = "more" => Read' = pages
  <2>1. pages \in Seq(Pages) BY <1>1 DEF ListingTyped
  <2>2. pages \o <<>> = pages BY <2>1
  <2> QED BY <1>2, <1>4, <2>2 DEF Read
<1>8. flight'.kind # "none" /\ Read' # <<>> =>
        /\ Covers(table', Read', flight'.steady)
        /\ column' = "updated_at" => InOrder(Read')
  BY <1>2, <1>3, <1>4, <1>6, <1>7 DEF ListingInv
<1> QED BY <1>2, <1>3, <1>4, <1>5, <1>8 DEF ListingInv

LEMMA PagesKeepTheListing ==
  ASSUME ListingIsFinite, ListingInv, ReadPage
  PROVE  ListingInv'
<1>1. ListingTyped BY DEF ListingInv
<1>2. UNCHANGED <<column, table, instant, uploaded, pages, steady>>
  BY DEF ReadPage
<1>3. PICK f, rest, kind : /\ flight = [kind |-> kind, read |-> f, steady |-> rest]
                           /\ kind \in {"all", "more"} /\ f \in Seq(Pages) /\ rest \in SUBSET Ids
                           /\ flight.kind = kind /\ flight.read = f /\ flight.steady = rest
  BY <1>1 DEF ListingTyped, ReadPage
<1>4. PICK cursor, page : cursor = Cursor /\ page = PageAfter(cursor) OBVIOUS
<1>5. PICK kept : kept = IF cursor = Top THEN Present ELSE rest OBVIOUS
<1>6. PICK g : g = Append(f, page) OBVIOUS
<1>7. flight' = [kind |-> kind, read |-> g, steady |-> kept]
  <2>1. flight' = [flight EXCEPT !.read = Append(@, page), !.steady = IF cursor = Top THEN Present ELSE @]
    BY <1>4 DEF ReadPage
  <2> QED BY <1>3, <1>5, <1>6, <2>1
<1>8. flight'.kind = kind /\ flight'.read = g /\ flight'.steady = kept BY <1>7
<1>9. PICK read : read = Read OBVIOUS
<1>10. pages \in Seq(Pages) BY <1>1 DEF ListingTyped
<1>11. read \in Seq(Pages) /\ (kind = "more" => read # <<>>)
  <2>1. CASE kind = "more"
    <3>1. pages # <<>> BY <1>3, <2>1 DEF ListingInv
    <3> QED BY <1>3, <1>9, <1>10, <2>1, <3>1 DEF Read
  <2>2. CASE kind = "all" BY <1>3, <1>9, <2>2 DEF Read
  <2> QED BY <1>3, <2>1, <2>2
<1>12. Read' = Append(read, page)
  <2>1. \A s \in Seq(Pages) : s \o Append(f, page) = Append(s \o f, page) BY <1>3
  <2> QED BY <1>2, <1>3, <1>6, <1>8, <1>9, <1>10, <2>1 DEF Read
<1>13. read # <<>> => cursor = GoesOn(read) /\ cursor # NoCursor /\ cursor # Top
  <2>1. CASE f = <<>> /\ kind = "more"
    <3>1. read = pages BY <1>3, <1>9, <1>10, <2>1 DEF Read
    <3>2. cursor = GoesOn(pages) BY <1>3, <1>4, <2>1 DEF Cursor, GoesOn
    <3>3. cursor # NoCursor BY <1>3, <2>1, <3>2 DEF ListingInv
    <3> QED BY <1>11, <3>1, <3>2, <3>3, GoesOnFacts
  <2>2. CASE f = <<>> /\ kind = "all" BY <1>3, <1>9, <2>2 DEF Read
  <2>3. CASE f # <<>>
    <3>1. cursor = f[Len(f)].next BY <1>3, <1>4, <2>3 DEF Cursor
    <3>2. cursor # NoCursor
      <4> DEFINE most == IF pages = <<>> THEN 1 ELSE Len(pages)
      <4> QED BY <1>3, <1>4, <2>3 DEF ReadPage, ReadAll
    <3>3. read[Len(read)] = f[Len(f)]
      <4>1. CASE kind = "more"
        <5>1. read = pages \o f BY <1>3, <1>9, <4>1 DEF Read
        <5> QED BY <1>3, <1>10, <2>3, <5>1
      <4>2. CASE kind = "all" BY <1>3, <1>9, <4>2 DEF Read
      <4> QED BY <1>3, <4>1, <4>2
    <3>4. cursor = GoesOn(read) BY <3>1, <3>3 DEF GoesOn
    <3>5. read # <<>> => cursor # Top BY <1>11, <3>4, GoesOnFacts
    <3> QED BY <3>2, <3>4, <3>5
  <2> QED BY <1>3, <2>1, <2>2, <2>3
<1>14. read = <<>> => cursor = Top
  <2>1. ASSUME read = <<>> PROVE cursor = Top
    <3>1. kind = "all" /\ f = <<>> BY <1>3, <1>9, <1>11, <2>1 DEF Read
    <3> QED BY <1>3, <1>4, <3>1 DEF Cursor
  <2> QED BY <2>1
<1>15. \/ read = <<>> /\ cursor = Top /\ kept \subseteq Present
       \/ /\ read # <<>> /\ cursor = GoesOn(read) /\ cursor # NoCursor
          /\ Covers(table, read, kept)
  BY <1>3, <1>5, <1>9, <1>13, <1>14 DEF ListingInv
<1>16. PICK more : more = Read' OBVIOUS
<1>17. /\ more \in Seq(Pages) /\ more # <<>> /\ Covers(table, more, kept)
       /\ read = <<>> \/ InOrder(read) => InOrder(more)
  <2>1. more = Append(read, PageAfter(cursor)) BY <1>4, <1>12, <1>16
  <2> QED BY <1>1, <1>11, <1>15, <2>1, ReadingOn
<1>18. g \in Seq(Pages) /\ g # <<>>
  <2>1. Here(cursor) BY <1>11, <1>13, <1>14, GoesOnFacts DEF Here
  <2>2. page \in Pages BY <1>1, <1>4, <2>1, PageFacts
  <2> QED BY <1>3, <1>6, <2>2
<1>19. ListingTyped'
  <2>1. kept \in SUBSET Ids BY <1>3, <1>5 DEF Present
  <2>2. flight' \in [kind : {"none", "all", "more"}, read : Seq(Pages), steady : SUBSET Ids]
    BY <1>3, <1>7, <1>18, <2>1
  <2> QED BY <1>1, <1>2, <2>2 DEF ListingTyped
<1>20. flight'.kind = "more" =>
         /\ pages' # <<>> /\ flight'.steady \subseteq steady'
         /\ flight'.read = <<>> => GoesOn(pages') # NoCursor
  <2>1. kind = "more" => kept = rest BY <1>5, <1>11, <1>13
  <2> QED BY <1>2, <1>3, <1>8, <1>18, <2>1 DEF ListingInv
<1>21. /\ Covers(table', Read', flight'.steady)
       /\ column' = "updated_at" => InOrder(Read')
  BY <1>2, <1>3, <1>8, <1>9, <1>16, <1>17 DEF ListingInv
<1> QED BY <1>2, <1>19, <1>20, <1>21 DEF ListingInv

LEMMA LandingKeepsTheListing ==
  ASSUME ListingIsFinite, ListingInv, PagesLand
  PROVE  ListingInv'
<1>1. ListingTyped BY DEF ListingInv
<1>2. UNCHANGED <<column, table, instant, uploaded>> /\ flight' = Landed
      /\ steady' = flight.steady
  BY DEF PagesLand
<1>3. flight.kind \in {"all", "more"} /\ flight.read \in Seq(Pages) /\ flight.read # <<>>
      /\ pages \in Seq(Pages)
  BY <1>1 DEF ListingTyped, PagesLand, ReadAll
<1>4. pages' = Read /\ Read # <<>> /\ Read \in Seq(Pages)
  <2>1. pages' = Read BY <1>3 DEF PagesLand, Read
  <2> QED BY <1>3, <2>1 DEF Read
<1>5. flight'.kind = "none" /\ flight'.read = <<>> BY <1>2 DEF Landed
<1>6. ListingTyped'
  <2>1. <<>> \in Seq(Pages) OBVIOUS
  <2>2. flight' \in [kind : {"none", "all", "more"}, read : Seq(Pages), steady : SUBSET Ids]
    BY <1>2, <2>1 DEF Landed
  <2> QED BY <1>1, <1>2, <1>4, <2>2 DEF ListingTyped
<1>7. Covers(table, Read, flight.steady) /\ (column = "updated_at" => InOrder(Read))
  BY <1>3, <1>4 DEF ListingInv
<1> QED BY <1>2, <1>4, <1>5, <1>6, <1>7 DEF ListingInv

\* What a screen shows of a listing follows in order, and at its end every row nobody
\* touched was shown, but at a seam: for any rows, any size of page and any number of
\* pages, however often they are fetched again (listContents, listMedia, the cursors).
THEOREM ListingsAlwaysHold == ListingIsFinite => (PagingSpec => []ListingsHold)
<1> SUFFICES ASSUME ListingIsFinite PROVE PagingSpec => []ListingsHold
  OBVIOUS
<1>1. PagingInit => ListingInv BY ListingStarts
<1>2. ListingInv /\ [PagingNext]_pagingVars => ListingInv'
  BY WritesKeepTheListing, AnswersKeepTheListing, ListingWaits, RequestsKeepTheListing,
     PagesKeepTheListing, LandingKeepsTheListing
  DEF PagingNext
<1>3. ListingInv => ListingsHold
  <2> SUFFICES ASSUME ListingInv PROVE ListingsHold
    OBVIOUS
  <2>1. PagesFollow
    <3>1. CASE pages = <<>> BY <3>1 DEF PagesFollow
    <3>2. CASE pages # <<>> BY <3>2 DEF ListingInv, PagesFollow, InOrder
    <3> QED BY <3>1, <3>2
  <2>2. SteadyRowsAreShown
    <3> SUFFICES ASSUME AtTheEnd, NEW d \in steady \ Shown
                 PROVE  \E p \in DOMAIN pages :
                          /\ pages[p].rows # <<>>
                          /\ Ms(pages[p].rows[Len(pages[p].rows)].at) = Ms(table[d])
      BY DEF SteadyRowsAreShown
    <3>1. pages # <<>> /\ GoesOn(pages) = NoCursor BY DEF AtTheEnd, GoesOn
    <3>2. ShownBy(pages, d) \/ AtASeam(pages, table[d]) BY <3>1 DEF ListingInv, Covers
    <3>3. ~ShownBy(pages, d) BY DEF ShownBy, Shown
    <3> QED BY <3>2, <3>3 DEF AtASeam
  <2> QED BY <2>1, <2>2 DEF ListingsHold
<1> QED BY <1>1, <1>2, <1>3, PTL DEF PagingSpec

-----------------------------------------------------------------------------
(* The hook registry.                                                      *)

CONSTANTS Handlers, Priority, MaxRegistrations

VARIABLES filters, actions, counter, chain, emission

INSTANCE Hooks

PrioritiesAreNumbers == Priority \in [Handlers -> Int] /\ MaxRegistrations \in Nat

Registered == [handler : Handlers, order : Nat]

HooksTyped ==
  /\ filters \subseteq Registered /\ actions \subseteq Registered /\ counter \in Nat
  /\ chain \in [on : BOOLEAN, asked : SUBSET Registered, todo : Seq(Registered),
                calling : BOOLEAN, value : Seq(Registered), reported : SUBSET Registered]
  /\ emission \in [on : BOOLEAN, told : SUBSET Registered, waiting : SUBSET Registered,
                   reported : SUBSET Registered]

\* No two filters came at one moment.
Numbered ==
  /\ IsFiniteSet(filters)
  /\ \A r \in filters : r.order < counter
  /\ \A r, s \in filters : r.order = s.order => r = s

Sorted(s) == \A k, l \in DOMAIN s : k < l => Precedes(s[k], s[l])

Members(s) == {s[k] : k \in DOMAIN s}

\* What the value went through, and what it has yet to go through, are in order, and with
\* what was reported they are what it set out for, each once.
OnItsWay(c) ==
  /\ c.calling => c.todo # <<>>
  /\ Sorted(c.value) /\ Sorted(c.todo)
  /\ \A k \in DOMAIN c.value, l \in DOMAIN c.todo : Precedes(c.value[k], c.todo[l])
  /\ Members(c.value) \cap c.reported = {} /\ Members(c.todo) \cap c.reported = {}
  /\ Members(c.value) \union c.reported \union Members(c.todo) = c.asked

HooksInv ==
  HooksTyped /\ Numbered /\ OnItsWay(chain) /\ (emission.on \/ emission.waiting = {})

LEMMA PrecedenceIsAnOrder ==
  ASSUME PrioritiesAreNumbers
  PROVE  /\ \A a \in Registered : ~Precedes(a, a)
         /\ \A a, b, c \in Registered : Precedes(a, b) /\ Precedes(b, c) => Precedes(a, c)
         /\ \A a, b \in Registered :
              a.order # b.order => Precedes(a, b) \/ Precedes(b, a)
<1>1. ASSUME NEW a \in Registered PROVE Priority[a.handler] \in Int /\ a.order \in Nat
  BY DEF Registered, PrioritiesAreNumbers
<1> QED BY <1>1 DEF Precedes

\* A copy of the filters, in order.
LEMMA FiltersInOrder ==
  ASSUME PrioritiesAreNumbers, HooksTyped, Numbered, NEW s, s = ByPriority(filters)
  PROVE  s \in Seq(Registered) /\ Sorted(s) /\ Members(s) = filters
<1>1. PICK S, n : S = filters /\ n = Cardinality(S) OBVIOUS
<1>2. /\ IsFiniteSet(S) /\ n \in Nat /\ S \subseteq Registered
      /\ \A a, b \in S : a.order = b.order => a = b
  BY <1>1, FS_CardinalityType DEF HooksTyped, Numbered
<1>3. PICK R : R = {p \in S \X S : Precedes(p[1], p[2])} OBVIOUS
<1>4. \A a, b \in S : <<a, b>> \in R <=> Precedes(a, b) BY <1>3
<1>5. Orders(R, S) BY <1>2, <1>4, PrecedenceIsAnOrder DEF Orders
<1>6. \A e \in S : Earlier(R, S, e) = {o \in S : Precedes(o, e)} BY <1>4 DEF Earlier
<1>7. ASSUME NEW k \in 1..n
      PROVE  \E e \in S : Cardinality({o \in S : Precedes(o, e)}) = k - 1
  <2>1. \A j \in 1..Cardinality(S) : \E e \in S : Cardinality(Earlier(R, S, e)) = j - 1
    BY <1>2, <1>5, RanksAreTaken
  <2>2. \E e \in S : Cardinality(Earlier(R, S, e)) = k - 1 BY <1>1, <2>1
  <2> QED BY <1>6, <2>2, ZenonT(60)
<1> DEFINE h(k) == CHOOSE r \in S : Cardinality({o \in S : Precedes(o, r)}) = k - 1
<1>8. s = [k \in 1..n |-> h(k)] BY <1>1 DEF ByPriority
<1>9. ASSUME NEW k \in 1..n PROVE h(k) \in S /\ Cardinality(Earlier(R, S, h(k))) = k - 1
  <2>1. h(k) \in S /\ Cardinality({o \in S : Precedes(o, h(k))}) = k - 1 BY <1>7
  <2> QED BY <1>6, <2>1
<1> HIDE DEF h
<1>10. DOMAIN s = 1..n /\ \A k \in 1..n : s[k] \in S BY <1>8, <1>9
<1>11. Ranked(R, S, s) BY <1>1, <1>8, <1>9 DEF Ranked
<1>12. /\ \A k, l \in 1..n : k < l => <<s[k], s[l]>> \in R
       /\ \A e \in S : \E k \in 1..n : s[k] = e
  BY <1>1, <1>2, <1>5, <1>11, RankedInOrder
<1>13. s \in Seq(Registered)
  <2>1. s \in [1..n -> Registered] BY <1>2, <1>8, <1>9
  <2> QED BY <1>2, <2>1
<1>14. Sorted(s) BY <1>4, <1>10, <1>12 DEF Sorted
<1>15. Members(s) = filters BY <1>1, <1>10, <1>12 DEF Members
<1> QED BY <1>13, <1>14, <1>15

LEMMA HooksStart == HooksInit => HooksInv
<1> SUFFICES ASSUME HooksInit PROVE HooksInv
  OBVIOUS
<1>1. /\ chain = [on |-> FALSE, asked |-> {}, todo |-> <<>>, calling |-> FALSE,
                  value |-> <<>>, reported |-> {}]
      /\ emission = [on |-> FALSE, told |-> {}, waiting |-> {}, reported |-> {}]
      /\ filters = {} /\ actions = {} /\ counter = 0
  BY DEF HooksInit, Rest, Silent
<1>2. <<>> \in Seq(Registered) OBVIOUS
<1>3. HooksTyped BY <1>1, <1>2 DEF HooksTyped
<1>4. Numbered BY <1>1, FS_EmptySet DEF Numbered
<1>5. OnItsWay(chain)
  <2>1. /\ chain.calling = FALSE /\ chain.todo = <<>> /\ chain.value = <<>>
        /\ chain.reported = {} /\ chain.asked = {}
    BY <1>1
  <2>2. DOMAIN chain.todo = {} /\ DOMAIN chain.value = {} BY <2>1
  <2> QED BY <2>1, <2>2 DEF OnItsWay, Sorted, Members
<1> QED BY <1>1, <1>3, <1>4, <1>5 DEF HooksInv

LEMMA RegistryKeepsHooks ==
  ASSUME PrioritiesAreNumbers, HooksInv,
         (\E h \in Handlers : Register(h)) \/ (\E r \in filters \union actions : Unregister(r))
  PROVE  HooksInv'
<1>1. UNCHANGED <<chain, emission>> BY DEF Register, Unregister
<1>2. HooksTyped /\ Numbered BY DEF HooksInv
<1>3. CASE \E h \in Handlers : Register(h)
  <2>1. PICK h \in Handlers : Register(h) BY <1>3
  <2>2. PICK new : new = [handler |-> h, order |-> counter] OBVIOUS
  <2>3. new \in Registered /\ new.order = counter BY <1>2, <2>2 DEF Registered, HooksTyped
  <2>4. /\ counter' = counter + 1
        /\ \/ filters' = filters \union {new} /\ actions' = actions
           \/ actions' = actions \union {new} /\ filters' = filters
    BY <2>1, <2>2 DEF Register, Added
  <2>5. HooksTyped' BY <1>1, <1>2, <2>3, <2>4 DEF HooksTyped
  <2>6. IsFiniteSet(filters') BY <1>2, <2>4, FS_AddElement DEF Numbered
  <2>7. Numbered'
    <3>1. \A r \in filters : r.order \in Nat BY <1>2 DEF HooksTyped, Registered
    <3> QED BY <1>2, <2>3, <2>4, <2>6, <3>1 DEF Numbered, HooksTyped
  <2> QED BY <1>1, <2>5, <2>7 DEF HooksInv
<1>4. CASE \E r \in filters \union actions : Unregister(r)
  <2>1. PICK r : filters' = filters \ {r} /\ actions' = actions \ {r} /\ counter' = counter
    BY <1>4 DEF Unregister
  <2>2. HooksTyped' BY <1>1, <1>2, <2>1 DEF HooksTyped
  <2>3. IsFiniteSet(filters') BY <1>2, <2>1, FS_Subset DEF Numbered
  <2>4. Numbered' BY <1>2, <2>1, <2>3 DEF Numbered
  <2> QED BY <1>1, <2>2, <2>4 DEF HooksInv
<1> QED BY <1>3, <1>4

\* A handler done with, one way or the other.
LEMMA PastOne ==
  ASSUME PrioritiesAreNumbers, HooksTyped, OnItsWay(chain), chain.calling,
         NEW d, d \in {Returned(chain), Failed(chain)}
  PROVE  /\ d \in [on : BOOLEAN, asked : SUBSET Registered, todo : Seq(Registered),
                   calling : BOOLEAN, value : Seq(Registered), reported : SUBSET Registered]
         /\ OnItsWay(d)
<1>1. PICK on, asked, todo, value, reported :
        /\ chain = [on |-> on, asked |-> asked, todo |-> todo, calling |-> TRUE,
                    value |-> value, reported |-> reported]
        /\ on \in BOOLEAN /\ asked \in SUBSET Registered /\ todo \in Seq(Registered)
        /\ value \in Seq(Registered) /\ reported \in SUBSET Registered
        /\ chain.todo = todo /\ chain.value = value /\ chain.reported = reported
        /\ chain.asked = asked
  BY DEF HooksTyped
<1>2. PICK n : n = Len(todo) OBVIOUS
<1>3. PICK h, rest : h = Head(todo) /\ rest = Tail(todo) OBVIOUS
<1>4. todo # <<>> BY <1>1 DEF OnItsWay
<1>5. /\ n \in Nat /\ n > 0 /\ DOMAIN todo = 1..n
      /\ h = todo[1] /\ h \in Registered /\ rest \in Seq(Registered)
      /\ DOMAIN rest = 1..(n - 1) /\ \A k \in 1..(n - 1) : rest[k] = todo[k + 1]
  BY <1>1, <1>2, <1>3, <1>4
<1>6. /\ Sorted(value) /\ Sorted(todo)
      /\ \A k \in DOMAIN value, l \in DOMAIN todo : Precedes(value[k], todo[l])
      /\ Members(value) \cap reported = {} /\ Members(todo) \cap reported = {}
      /\ Members(value) \union reported \union Members(todo) = asked
  BY <1>1 DEF OnItsWay
<1>7. Members(todo) = {h} \union Members(rest)
  <2>1. \A k \in 1..n : k = 1 \/ (k - 1 \in 1..(n - 1) /\ todo[k] = rest[k - 1]) BY <1>5
  <2>2. \A k \in 1..(n - 1) : k + 1 \in 1..n BY <1>5
  <2>3. ASSUME NEW e \in Members(todo) PROVE e = h \/ e \in Members(rest)
    <3>1. PICK k \in 1..n : e = todo[k] BY <1>5, <2>3 DEF Members
    <3> QED BY <1>5, <2>1, <3>1 DEF Members
  <2>4. h \in Members(todo) BY <1>5 DEF Members
  <2>5. ASSUME NEW e \in Members(rest) PROVE e \in Members(todo)
    <3>1. PICK k \in 1..(n - 1) : e = rest[k] BY <1>5, <2>5 DEF Members
    <3> QED BY <1>5, <2>2, <3>1 DEF Members
  <2> QED BY <2>3, <2>4, <2>5
<1>8. Sorted(rest) /\ \A l \in DOMAIN rest : Precedes(h, rest[l])
  <2>1. \A k, l \in 1..(n - 1) : k < l => k + 1 < l + 1 /\ k + 1 \in 1..n /\ l + 1 \in 1..n
    BY <1>5
  <2>2. \A l \in 1..(n - 1) : 1 < l + 1 /\ l + 1 \in 1..n /\ 1 \in 1..n BY <1>5
  <2> QED BY <1>5, <1>6, <2>1, <2>2 DEF Sorted
<1>9. \A k \in DOMAIN value : Precedes(value[k], h) /\ \A l \in DOMAIN rest : Precedes(value[k], rest[l])
  <2>1. \A l \in 1..(n - 1) : l + 1 \in 1..n BY <1>5
  <2>2. 1 \in 1..n BY <1>5
  <2> QED BY <1>5, <1>6, <2>1, <2>2
<1>10. h \notin Members(rest) /\ h \notin Members(value)
  BY <1>5, <1>8, <1>9, PrecedenceIsAnOrder DEF Members
<1>11. CASE d = Returned(chain)
  <2>1. PICK more : more = Append(value, h) OBVIOUS
  <2>2. d = [on |-> on, asked |-> asked, todo |-> rest, calling |-> FALSE, value |-> more,
             reported |-> reported]
    BY <1>1, <1>3, <1>11, <2>1 DEF Returned, Past
  <2>3. PICK m : m = Len(value) OBVIOUS
  <2>4. /\ more \in Seq(Registered) /\ m \in Nat /\ DOMAIN value = 1..m
        /\ DOMAIN more = 1..(m + 1) /\ more[m + 1] = h /\ \A k \in 1..m : more[k] = value[k]
    BY <1>1, <1>5, <2>1, <2>3
  <2>5. Sorted(more) BY <1>6, <1>9, <2>4 DEF Sorted
  <2>6. \A k \in DOMAIN more, l \in DOMAIN rest : Precedes(more[k], rest[l])
    BY <1>8, <1>9, <2>4
  <2>7. Members(more) = Members(value) \union {h}
    <3>1. \A k \in 1..(m + 1) : k \in 1..m \/ k = m + 1 BY <2>4
    <3>2. \A k \in 1..m : k \in 1..(m + 1) BY <2>4
    <3>3. m + 1 \in 1..(m + 1) BY <2>4
    <3> QED BY <2>4, <3>1, <3>2, <3>3 DEF Members
  <2>8. /\ d.calling = FALSE /\ d.todo = rest /\ d.value = more /\ d.reported = reported
        /\ d.asked = asked
    BY <2>2
  <2>9. OnItsWay(d) BY <1>6, <1>7, <1>8, <2>5, <2>6, <2>7, <2>8 DEF OnItsWay
  <2> QED BY <1>1, <1>5, <2>2, <2>4, <2>9
<1>12. CASE d = Failed(chain)
  <2>1. d = [on |-> on, asked |-> asked, todo |-> rest, calling |-> FALSE, value |-> value,
             reported |-> reported \union {h}]
    BY <1>1, <1>3, <1>12 DEF Failed, Past
  <2>2. /\ d.calling = FALSE /\ d.todo = rest /\ d.value = value
        /\ d.reported = reported \union {h} /\ d.asked = asked
    BY <2>1
  <2>3. OnItsWay(d) BY <1>6, <1>7, <1>8, <1>9, <1>10, <2>2 DEF OnItsWay
  <2> QED BY <1>1, <1>5, <2>1, <2>3
<1> QED BY <1>11, <1>12

LEMMA FiltersKeepHooks ==
  ASSUME PrioritiesAreNumbers, HooksInv, Apply \/ Call \/ Settles \/ FilterTimesOut \/ Applied
  PROVE  HooksInv'
<1>1. UNCHANGED <<filters, actions, counter, emission>>
  BY DEF Apply, Call, Settles, FilterTimesOut, Applied
<1>2. HooksTyped /\ Numbered /\ OnItsWay(chain) BY DEF HooksInv
<1> DEFINE Chains == [on : BOOLEAN, asked : SUBSET Registered, todo : Seq(Registered),
                      calling : BOOLEAN, value : Seq(Registered), reported : SUBSET Registered]
<1>3. PICK c : c = chain' OBVIOUS
<1>4. CASE Settles \/ FilterTimesOut
  <2>1. chain.calling /\ c \in {Returned(chain), Failed(chain)}
    BY <1>3, <1>4 DEF Settles, FilterTimesOut, Deadline
  <2>2. c \in Chains /\ OnItsWay(c) BY <1>2, <2>1, PastOne
  <2> QED BY <1>1, <1>2, <1>3, <2>2 DEF HooksInv, HooksTyped, Numbered
<1>5. CASE Apply
  <2>1. PICK s : s = ByPriority(filters) OBVIOUS
  <2>2. s \in Seq(Registered) /\ Sorted(s) /\ Members(s) = filters
    BY <1>2, <2>1, FiltersInOrder
  <2>3. c = [on |-> TRUE, asked |-> filters, todo |-> s, calling |-> FALSE, value |-> <<>>,
             reported |-> {}]
    BY <1>3, <1>5, <2>1 DEF Apply, Rest
  <2>4. <<>> \in Seq(Registered) OBVIOUS
  <2>5. c \in Chains BY <1>2, <2>2, <2>3, <2>4 DEF HooksTyped
  <2>6. /\ c.calling = FALSE /\ c.todo = s /\ c.value = <<>> /\ c.reported = {}
        /\ c.asked = filters /\ DOMAIN c.value = {}
    BY <2>3
  <2>7. OnItsWay(c) BY <2>2, <2>6 DEF OnItsWay, Sorted, Members
  <2> QED BY <1>1, <1>2, <1>3, <2>5, <2>7 DEF HooksInv, HooksTyped, Numbered
<1>6. CASE Call \/ Applied
  <2>1. chain \in Chains BY <1>2 DEF HooksTyped
  <2>2. /\ c \in Chains /\ c.todo = chain.todo /\ c.value = chain.value
        /\ c.reported = chain.reported /\ c.asked = chain.asked
        /\ c.calling => chain.todo # <<>>
    <3>1. CASE Call BY <1>3, <2>1, <3>1 DEF Call
    <3>2. CASE Applied BY <1>2, <1>3, <2>1, <3>2 DEF Applied, OnItsWay
    <3> QED BY <1>6, <3>1, <3>2
  <2>3. OnItsWay(c) BY <1>2, <2>2 DEF OnItsWay
  <2> QED BY <1>1, <1>2, <1>3, <2>2, <2>3 DEF HooksInv, HooksTyped, Numbered
<1> QED BY <1>4, <1>5, <1>6

LEMMA EventsKeepHooks ==
  ASSUME HooksInv,
         \/ Emit \/ Told \/ UNCHANGED hookVars
         \/ \E r \in emission.waiting : ActionSettles(r) \/ ActionTimesOut(r)
  PROVE  HooksInv'
<1>1. UNCHANGED <<filters, actions, counter, chain>>
  BY DEF Emit, Told, ActionSettles, ActionTimesOut, hookVars
<1>2. HooksTyped /\ Numbered /\ OnItsWay(chain) BY DEF HooksInv
<1> DEFINE Emissions == [on : BOOLEAN, told : SUBSET Registered, waiting : SUBSET Registered,
                         reported : SUBSET Registered]
<1>3. emission \in Emissions /\ actions \in SUBSET Registered BY <1>2 DEF HooksTyped
<1>4. emission' \in Emissions /\ (emission'.on \/ emission'.waiting = {})
  <2>1. CASE Emit
    <3>1. emission' = [on |-> TRUE, told |-> actions, waiting |-> actions, reported |-> {}]
      BY <2>1 DEF Emit, Silent
    <3> QED BY <1>3, <3>1
  <2>2. CASE Told
    <3>1. emission' = [emission EXCEPT !.on = FALSE] /\ emission.waiting = {}
      BY <2>2 DEF Told, AllTold
    <3> QED BY <1>3, <3>1
  <2>3. CASE UNCHANGED hookVars BY <1>3, <2>3 DEF hookVars, HooksInv
  <2>4. CASE \E r \in emission.waiting : ActionSettles(r) \/ ActionTimesOut(r)
    <3>1. PICK r \in emission.waiting : ActionSettles(r) \/ ActionTimesOut(r) BY <2>4
    <3>2. emission.on /\ r \in Registered BY <1>3 DEF HooksInv
    <3>3. \/ emission' = [emission EXCEPT !.waiting = @ \ {r}]
          \/ emission' = [emission EXCEPT !.waiting = @ \ {r}, !.reported = @ \union {r}]
      BY <3>1 DEF ActionSettles, ActionTimesOut
    <3>4. PICK on, told, waiting, reported :
            /\ emission = [on |-> on, told |-> told, waiting |-> waiting, reported |-> reported]
            /\ on = TRUE /\ told \in SUBSET Registered /\ waiting \in SUBSET Registered
            /\ reported \in SUBSET Registered
      BY <1>3, <3>2
    <3>5. PICK pending, said :
            /\ emission' = [on |-> TRUE, told |-> told, waiting |-> pending, reported |-> said]
            /\ pending = waiting \ {r} /\ said \in {reported, reported \union {r}}
      BY <3>3, <3>4
    <3>6. pending \in SUBSET Registered /\ said \in SUBSET Registered BY <3>2, <3>4, <3>5
    <3>7. emission' \in Emissions BY <3>4, <3>5, <3>6
    <3>8. emission'.on BY <3>5
    <3> QED BY <3>7, <3>8
  <2> QED BY <2>1, <2>2, <2>3, <2>4
<1> QED BY <1>1, <1>2, <1>4 DEF HooksInv, HooksTyped, Numbered

\* What comes out of the filters went through those registered when it set out, in order,
\* and each it did not go through is reported; a write is answered only once every handler
\* it told is done with: for any handlers, priorities and registrations (createHooks).
THEOREM HooksAgree ==
  PrioritiesAreNumbers =>
    (HooksInit /\ [][HooksNext]_hookVars => [](FiltersAgree /\ ToldBeforeAnswered))
<1> SUFFICES ASSUME PrioritiesAreNumbers
             PROVE  HooksInit /\ [][HooksNext]_hookVars => [](FiltersAgree /\ ToldBeforeAnswered)
  OBVIOUS
<1>1. HooksInit => HooksInv BY HooksStart
<1>2. HooksInv /\ [HooksNext]_hookVars => HooksInv'
  BY RegistryKeepsHooks, FiltersKeepHooks, EventsKeepHooks DEF HooksNext
<1>3. HooksInv => FiltersAgree /\ ToldBeforeAnswered
  <2> SUFFICES ASSUME HooksInv PROVE FiltersAgree /\ ToldBeforeAnswered
    OBVIOUS
  <2>1. OnItsWay(chain) /\ Went(chain) = Members(chain.value) BY DEF HooksInv, Went, Members
  <2>2. chain.todo = <<>> => Members(chain.todo) = {} BY DEF Members
  <2> QED BY <2>1, <2>2 DEF HooksInv, FiltersAgree, ToldBeforeAnswered, OnItsWay, Sorted
<1> QED BY <1>1, <1>2, <1>3, PTL

=============================================================================
