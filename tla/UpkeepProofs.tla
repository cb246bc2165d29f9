---------------------------- MODULE UpkeepProofs ----------------------------
(***************************************************************************)
(* What the commands and the probes beside the requests keep true, for any *)
(* number of them: the reconciliation of media references, the             *)
(* provisioning of the bucket, and the health checks.                      *)
(***************************************************************************)
EXTENDS ObjectStore, Health, TLAPS

CONSTANTS Docs, Media, Commands, Servers, Writers, MaxInterrupts

VARIABLES refs, foreign, media, mirror, marker, run, server, saving, interrupts

INSTANCE Reconciliation WITH Runs <- Commands

-----------------------------------------------------------------------------
(* The mirror.                                                             *)

Pairs == Docs \X Media

Locked == {"reading", "checking", "comparing", "writing", "settling"}

Phases == {"resting", "locking"} \cup Locked

\* One reconciliation at a time.
Alone == \A r, s \in Commands : run[r] # Resting /\ run[s] # Resting => r = s

\* What a reconciliation has read is still so: no save, no deployment and no
\* other command gets between its statements; a deletion may.
Consistent(r) ==
  /\ run[r].phase \in {"checking", "comparing", "writing", "settling"} =>
       run[r].wanted = {p \in ReferencesOf(refs) : p[1] \notin foreign}
  /\ run[r].phase \in {"comparing", "writing", "settling"} => foreign = {}
  /\ run[r].phase \in {"writing", "settling"} =>
       run[r].stale = mirror \ run[r].wanted /\ run[r].fresh = run[r].wanted \ mirror
  /\ run[r].phase = "settling" => NamedBy(run[r].fresh) \subseteq media

MirrorInv ==
  /\ ReconciliationTypeOK
  /\ Alone
  /\ \A r \in Commands : Consistent(r)
  /\ NamedBy(mirror) \subseteq media
  /\ ReadyMeansMirrored
  /\ ServedMeansEnforced

LEMMA MirrorStarts ==
  ASSUME MaxInterrupts \in Nat, Init
  PROVE  MirrorInv
<1>1. ReconciliationTypeOK
  BY DEF Init, ReconciliationTypeOK, Resting, TableLocked
<1>2. \A r \in Commands : run[r] = Resting /\ run[r].phase = "resting" BY DEF Init, Resting
<1>3. Alone /\ \A r \in Commands : Consistent(r) BY <1>2 DEF Alone, Consistent
<1>4. NamedBy(mirror) \subseteq media BY DEF Init, NamedBy
<1>5. ReadyMeansMirrored BY DEF Init, ReadyMeansMirrored
<1>6. ServedMeansEnforced BY DEF Init, ServedMeansEnforced, Serving
<1> QED BY <1>1, <1>3, <1>4, <1>5, <1>6 DEF MirrorInv

\* The phases of the others are theirs when one moves.
LEMMA PhaseMoves ==
  ASSUME ReconciliationTypeOK, NEW r \in Commands, NEW phase, To(r, phase)
  PROVE  /\ run'[r].phase = phase /\ run'[r].wanted = run[r].wanted
         /\ run'[r].stale = run[r].stale /\ run'[r].fresh = run[r].fresh
         /\ \A s \in Commands : s # r => run'[s] = run[s]
BY DEF ReconciliationTypeOK, To

LEMMA RunEnds ==
  ASSUME ReconciliationTypeOK, NEW r \in Commands, End(r)
  PROVE  /\ run'[r] = Resting
         /\ \A s \in Commands : s # r => run'[s] = run[s]
BY DEF ReconciliationTypeOK, End

\* A command that ends leaves the others as they were.
LEMMA EndIsQuiet ==
  ASSUME MirrorInv, NEW r \in Commands, run[r] # Resting, End(r)
  PROVE  Alone' /\ \A s \in Commands : run'[s] = Resting
<1>1. /\ run'[r] = Resting
      /\ \A s \in Commands : s # r => run'[s] = run[s]
  BY RunEnds DEF MirrorInv
<1>2. \A s \in Commands : s # r => run[s] = Resting BY DEF MirrorInv, Alone
<1>3. \A s \in Commands : run'[s] = Resting BY <1>1, <1>2
<1> QED BY <1>3 DEF Alone

LEMMA ReconcileTyped ==
  ASSUME MaxInterrupts \in Nat, MirrorInv, NEW r \in Commands, Reconcile(r) \/ Interrupt(r)
  PROVE  /\ run' \in [Commands -> [phase : Phases, wanted : SUBSET Pairs, stale : SUBSET Pairs,
                               fresh : SUBSET Pairs]]
         /\ interrupts' \in 0..MaxInterrupts
         /\ mirror' \subseteq Pairs /\ marker' \in {"pending", "ready"}
         /\ UNCHANGED <<refs, foreign, media, server, saving>>
<1>1. /\ run \in [Commands -> [phase : Phases, wanted : SUBSET Pairs, stale : SUBSET Pairs,
                           fresh : SUBSET Pairs]]
      /\ mirror \subseteq Pairs /\ marker \in {"pending", "ready"}
      /\ interrupts \in 0..MaxInterrupts
  BY DEF MirrorInv, ReconciliationTypeOK, Pairs, Phases, Locked
<1>2. ReferencesOf(refs) \subseteq Pairs BY DEF ReferencesOf, Pairs
<1>3. CASE LockMarker(r) BY <1>1, <1>3 DEF LockMarker, To, Phases
<1>4. CASE LockTable(r) BY <1>1, <1>4 DEF LockTable, To, Phases, Locked
<1>5. CASE ReadDocuments(r) BY ZenonT(60), <1>1, <1>2, <1>5 DEF ReadDocuments, Phases, Locked
<1>6. CASE Diagnose(r) BY <1>1, <1>6 DEF Diagnose, To, End, Resting, Phases, Locked
<1>7. CASE Compare(r)
  <2>1. PICK stale : stale = mirror \ run[r].wanted OBVIOUS
  <2>2. PICK fresh : fresh = run[r].wanted \ mirror OBVIOUS
  <2>3. stale \subseteq Pairs /\ fresh \subseteq Pairs BY <1>1, <2>1, <2>2
  <2>4. run' = [run EXCEPT ![r].phase = "writing", ![r].stale = stale, ![r].fresh = fresh]
    BY <1>7, <2>1, <2>2 DEF Compare
  <2>5. "writing" \in Phases BY DEF Phases, Locked
  <2>6. run' \in [Commands -> [phase : Phases, wanted : SUBSET Pairs, stale : SUBSET Pairs,
                          fresh : SUBSET Pairs]]
    BY ZenonT(60), <1>1, <2>3, <2>4, <2>5
  <2> QED BY <1>1, <1>7, <2>6 DEF Compare
<1>8. CASE WriteRows(r) BY <1>1, <1>8 DEF WriteRows, To, End, Resting, Phases, Locked
<1>9. CASE SettleRun(r)
  <2>1. (mirror \ run[r].stale) \cup run[r].fresh \subseteq Pairs BY <1>1
  <2> QED BY <1>1, <1>9, <2>1 DEF SettleRun, End, Resting, Phases
<1>10. CASE Interrupt(r)
  <2>1. interrupts' \in 0..MaxInterrupts BY <1>1, <1>10 DEF Interrupt
  <2> QED BY <1>1, <1>10, <2>1 DEF Interrupt, End, Resting, Phases
<1> QED BY <1>3, <1>4, <1>5, <1>6, <1>7, <1>8, <1>9, <1>10 DEF Reconcile

\* The command, statement by statement.
LEMMA ReconcileKeepsMirror ==
  ASSUME MaxInterrupts \in Nat, MirrorInv, NEW r \in Commands, Reconcile(r) \/ Interrupt(r)
  PROVE  MirrorInv'
<1>1. UNCHANGED <<refs, foreign, media, server, saving>> BY ReconcileTyped
<1>2. Serving' = Serving /\ ReferencesOf(refs)' = ReferencesOf(refs)
  BY <1>1 DEF Serving, ReferencesOf
<1>3. ReconciliationTypeOK BY DEF MirrorInv
<1>4. \A s \in Commands : s # r /\ run[r] # Resting => run[s] = Resting BY DEF MirrorInv, Alone
<1>5. ASSUME TableLocked' => \A w \in Writers : saving[w] = None
      PROVE  ReconciliationTypeOK'
  BY <1>1, <1>3, <1>5, ReconcileTyped
     DEF ReconciliationTypeOK, Pairs, Phases, Locked, TableLocked
<1>6. ASSUME run[r].phase \in Locked PROVE \A w \in Writers : saving[w] = None
  BY <1>3, <1>6 DEF ReconciliationTypeOK, TableLocked, Locked
<1>7. ASSUME \A s \in Commands : run'[s] = Resting
      PROVE  ReconciliationTypeOK' /\ Alone' /\ \A s \in Commands : Consistent(s)'
  <2>1. ~TableLocked' BY <1>7 DEF TableLocked, Resting
  <2> QED BY <1>5, <1>7, <2>1 DEF Alone, Consistent, Resting
<1>8. ASSUME mirror' = mirror, marker' \in {marker, "pending"}
      PROVE  NamedBy(mirror)' \subseteq media' /\ ReadyMeansMirrored' /\ ServedMeansEnforced'
  BY <1>1, <1>2, <1>8 DEF MirrorInv, NamedBy, ReadyMeansMirrored, ServedMeansEnforced
\* One that goes on: the others rest.
<1>9. ASSUME \A s \in Commands : s # r => run'[s] = Resting, Consistent(r)',
             mirror' = mirror, marker' = marker,
             run'[r].phase \in Locked => \A w \in Writers : saving[w] = None
      PROVE  MirrorInv'
  <2>1. Alone' BY <1>9 DEF Alone
  <2>2. \A s \in Commands : Consistent(s)' BY <1>9 DEF Consistent, Resting
  <2>3. TableLocked' => \A w \in Writers : saving[w] = None
    BY <1>9 DEF TableLocked, Resting, Locked
  <2> QED BY <1>5, <1>8, <1>9, <2>1, <2>2, <2>3 DEF MirrorInv
<1>10. ASSUME run[r] # Resting, End(r), mirror' = mirror, marker' \in {marker, "pending"}
       PROVE  MirrorInv'
  BY <1>7, <1>8, <1>10, EndIsQuiet DEF MirrorInv
<1>11. CASE LockMarker(r)
  <2>1. \A s \in Commands : s # r => run'[s] = Resting
    BY <1>3, <1>11, PhaseMoves DEF LockMarker
  <2>2. run'[r].phase = "locking" BY <1>3, <1>11, PhaseMoves DEF LockMarker
  <2> QED BY <1>9, <1>11, <2>1, <2>2 DEF LockMarker, Consistent, Locked
<1>12. CASE LockTable(r)
  <2>1. run[r] # Resting BY <1>12 DEF LockTable, Resting
  <2>2. run'[r].phase = "reading" /\ \A s \in Commands : s # r => run'[s] = Resting
    BY <1>3, <1>4, <1>12, <2>1, PhaseMoves DEF LockTable
  <2> QED BY <1>9, <1>12, <2>2 DEF LockTable, Consistent, Locked
<1>13. CASE ReadDocuments(r)
  <2>1. run[r] # Resting /\ run[r].phase \in Locked BY <1>13 DEF ReadDocuments, Resting, Locked
  <2>2. PICK wanted : wanted = {p \in ReferencesOf(refs) : p[1] \notin foreign} OBVIOUS
  <2>3. /\ run'[r].phase = "checking" /\ run'[r].wanted = wanted
        /\ \A s \in Commands : s # r => run'[s] = run[s]
    BY <1>3, <1>13, <2>2 DEF ReadDocuments, ReconciliationTypeOK
  <2>4. Consistent(r)' BY <1>1, <1>2, <2>2, <2>3 DEF Consistent
  <2> QED BY <1>4, <1>6, <1>9, <1>13, <2>1, <2>3, <2>4 DEF ReadDocuments
<1>14. CASE Diagnose(r)
  <2>1. run[r] # Resting /\ run[r].phase \in Locked BY <1>14 DEF Diagnose, Resting, Locked
  <2>2. CASE NamedBy(run[r].wanted) \subseteq media /\ foreign = {}
    <3>1. To(r, "comparing") /\ marker' = marker /\ mirror' = mirror BY <1>14, <2>2 DEF Diagnose
    <3>2. /\ run'[r].phase = "comparing" /\ run'[r].wanted = run[r].wanted
          /\ \A s \in Commands : s # r => run'[s] = run[s]
      BY <1>3, <3>1, PhaseMoves
    <3>3. run[r].wanted = {p \in ReferencesOf(refs) : p[1] \notin foreign}
      BY <1>14 DEF Diagnose, MirrorInv, Consistent
    <3>4. Consistent(r)' BY <1>1, <1>2, <2>2, <3>2, <3>3 DEF Consistent
    <3> QED BY <1>4, <1>6, <1>9, <2>1, <3>1, <3>2, <3>4
  <2>3. CASE ~(NamedBy(run[r].wanted) \subseteq media /\ foreign = {})
    BY <1>10, <1>14, <2>1, <2>3 DEF Diagnose
  <2> QED BY <2>2, <2>3
<1>15. CASE Compare(r)
  <2>1. run[r] # Resting /\ run[r].phase \in Locked BY <1>15 DEF Compare, Resting, Locked
  <2>2. PICK stale : stale = mirror \ run[r].wanted OBVIOUS
  <2>3. PICK fresh : fresh = run[r].wanted \ mirror OBVIOUS
  <2>4. /\ run'[r].phase = "writing" /\ run'[r].wanted = run[r].wanted
        /\ run'[r].stale = stale /\ run'[r].fresh = fresh
        /\ \A s \in Commands : s # r => run'[s] = run[s]
    BY <1>3, <1>15, <2>2, <2>3 DEF Compare, ReconciliationTypeOK
  <2>5. run[r].wanted = {p \in ReferencesOf(refs) : p[1] \notin foreign} /\ foreign = {}
    BY <1>15 DEF Compare, MirrorInv, Consistent
  <2>6. mirror' = mirror /\ marker' = marker BY <1>15 DEF Compare
  <2>7. Consistent(r)' BY <1>1, <1>2, <2>2, <2>3, <2>4, <2>5, <2>6 DEF Consistent
  <2> QED BY <1>4, <1>6, <1>9, <2>1, <2>4, <2>6, <2>7
<1>16. CASE WriteRows(r)
  <2>1. run[r] # Resting /\ run[r].phase \in Locked BY <1>16 DEF WriteRows, Resting, Locked
  <2>2. mirror' = mirror /\ marker' = marker BY <1>16 DEF WriteRows
  <2>3. CASE NamedBy(run[r].fresh) \subseteq media
    <3>1. To(r, "settling") BY <1>16, <2>3 DEF WriteRows
    <3>2. /\ run'[r].phase = "settling" /\ run'[r].wanted = run[r].wanted
          /\ run'[r].stale = run[r].stale /\ run'[r].fresh = run[r].fresh
          /\ \A s \in Commands : s # r => run'[s] = run[s]
      BY <1>3, <3>1, PhaseMoves
    <3>3. Consistent(r) /\ run[r].phase = "writing" BY <1>16 DEF WriteRows, MirrorInv
    <3>4. Consistent(r)' BY <1>1, <1>2, <2>2, <2>3, <3>2, <3>3 DEF Consistent
    <3> QED BY <1>4, <1>6, <1>9, <2>1, <2>2, <3>2, <3>4
  <2>4. CASE ~(NamedBy(run[r].fresh) \subseteq media)
    BY <1>10, <1>16, <2>1, <2>2, <2>4 DEF WriteRows
  <2> QED BY <2>3, <2>4
<1>17. CASE SettleRun(r)
  <2>1. run[r] # Resting /\ run[r].phase = "settling" /\ End(r)
    BY <1>17 DEF SettleRun, Resting
  <2>2. /\ run[r].wanted = {p \in ReferencesOf(refs) : p[1] \notin foreign} /\ foreign = {}
        /\ run[r].stale = mirror \ run[r].wanted /\ run[r].fresh = run[r].wanted \ mirror
        /\ NamedBy(run[r].fresh) \subseteq media
    BY <2>1 DEF MirrorInv, Consistent
  <2>3. run[r].wanted = ReferencesOf(refs) BY <2>2
  <2>4. (mirror \ run[r].stale) \cup run[r].fresh = run[r].wanted BY <2>2
  <2>5. mirror' = ReferencesOf(refs) /\ marker' = "ready" BY <1>17, <2>3, <2>4 DEF SettleRun
  <2>6. NamedBy(ReferencesOf(refs)) \subseteq media
    <3>1. ReferencesOf(refs) \subseteq mirror \cup run[r].fresh BY <2>2, <2>3
    <3> QED BY <2>2, <3>1 DEF MirrorInv, NamedBy
  <2>7. NamedBy(mirror)' \subseteq media' /\ ReadyMeansMirrored' /\ ServedMeansEnforced'
    BY <1>1, <1>2, <2>5, <2>6 DEF NamedBy, ReadyMeansMirrored, ServedMeansEnforced
  <2> QED BY <1>7, <2>1, <2>7, EndIsQuiet DEF MirrorInv
<1>18. CASE Interrupt(r) BY <1>10, <1>18 DEF Interrupt
<1> QED BY <1>11, <1>12, <1>13, <1>14, <1>15, <1>16, <1>17, <1>18 DEF Reconcile

\* A step that leaves the commands, the tables and the documents alone.
LEMMA OthersKeepMirror ==
  ASSUME MirrorInv, ReconciliationTypeOK',
         UNCHANGED <<refs, foreign, media, mirror, marker, run>>,
         Serving' => Serving \/ marker = "ready"
  PROVE  MirrorInv'
<1>1. ReferencesOf(refs)' = ReferencesOf(refs) /\ NamedBy(mirror)' = NamedBy(mirror)
  BY DEF ReferencesOf, NamedBy
<1>2. Alone' /\ \A r \in Commands : Consistent(r)' BY DEF MirrorInv, Alone, Consistent, ReferencesOf
<1>3. ReadyMeansMirrored' BY <1>1 DEF MirrorInv, ReadyMeansMirrored
<1>4. marker = "ready" => ReferencesOf(refs) = mirror BY DEF MirrorInv, ReadyMeansMirrored
<1>5. ServedMeansEnforced'
  BY <1>1, <1>4 DEF MirrorInv, ServedMeansEnforced, NamedBy
<1> QED BY <1>1, <1>2, <1>3, <1>5 DEF MirrorInv

LEMMA CommitKeepsMirror ==
  ASSUME MirrorInv, NEW w \in Writers, CommitSave(w)
  PROVE  MirrorInv'
<1>1. PICK d : d = saving[w].doc OBVIOUS
<1>2. PICK names : names = saving[w].names OBVIOUS
<1>3. /\ saving[w] # None /\ d \in Docs /\ names \subseteq Media
      /\ refs \in [Docs -> SUBSET Media] /\ mirror \subseteq Docs \X Media
  BY <1>1, <1>2 DEF CommitSave, MirrorInv, ReconciliationTypeOK
<1>4. ~TableLocked BY <1>3 DEF MirrorInv, ReconciliationTypeOK
<1>5. UNCHANGED <<foreign, media, marker, run, server, interrupts>> BY DEF CommitSave
<1>6. saving' = [saving EXCEPT ![w] = None] BY DEF CommitSave
<1>7. ~TableLocked' /\ Serving' = Serving BY <1>4, <1>5 DEF TableLocked, Serving
<1>8. CASE names \subseteq media
  <2>1. /\ refs' = [refs EXCEPT ![d] = names]
        /\ mirror' = {p \in mirror : p[1] # d} \cup ({d} \X names)
    BY <1>1, <1>2, <1>8 DEF CommitSave
  <2>2. refs' \in [Docs -> SUBSET Media] /\ mirror' \subseteq Docs \X Media BY <1>3, <2>1
  <2>3. ReconciliationTypeOK'
    BY <1>3, <1>5, <1>6, <1>7, <2>2 DEF MirrorInv, ReconciliationTypeOK
  <2>4. Alone' BY <1>5 DEF MirrorInv, Alone
  <2>5. \A r \in Commands : run[r].phase \notin Locked
    BY <1>4 DEF TableLocked, Locked
  <2>6. \A r \in Commands : Consistent(r)' BY <1>5, <2>5 DEF Consistent, Locked
  <2>7. NamedBy(mirror') \subseteq media'
    BY <1>5, <1>8, <2>1 DEF MirrorInv, NamedBy
  <2>8. ReferencesOf(refs') = {p \in ReferencesOf(refs) : p[1] # d} \cup ({d} \X names)
    BY <1>3, <2>1 DEF ReferencesOf
  <2>9. ReadyMeansMirrored'
    <3> SUFFICES ASSUME marker' = "ready" PROVE mirror' = ReferencesOf(refs')
      BY DEF ReadyMeansMirrored
    <3>1. mirror = ReferencesOf(refs) BY <1>5 DEF MirrorInv, ReadyMeansMirrored
    <3> QED BY <2>1, <2>8, <3>1
  <2>10. ServedMeansEnforced'
    <3> SUFFICES ASSUME Serving'
                 PROVE  ReferencesOf(refs') \subseteq mirror' /\ NamedBy(ReferencesOf(refs')) \subseteq media'
      BY DEF ServedMeansEnforced
    <3>1. ReferencesOf(refs) \subseteq mirror BY <1>7 DEF MirrorInv, ServedMeansEnforced
    <3>2. ReferencesOf(refs') \subseteq mirror' BY <2>1, <2>8, <3>1
    <3> QED BY <2>7, <3>2 DEF NamedBy
  <2> QED BY <2>3, <2>4, <2>6, <2>7, <2>9, <2>10 DEF MirrorInv, NamedBy
<1>9. CASE ~(names \subseteq media)
  <2>1. UNCHANGED <<refs, mirror>> BY <1>1, <1>2, <1>9 DEF CommitSave
  <2>2. ReconciliationTypeOK'
    BY <1>3, <1>5, <1>6, <1>7, <2>1 DEF MirrorInv, ReconciliationTypeOK
  <2> QED BY <1>5, <1>7, <2>1, <2>2, OthersKeepMirror
<1> QED BY <1>8, <1>9

LEMMA DeletionKeepsMirror ==
  ASSUME MirrorInv, NEW m \in Media, DeleteMedia(m)
  PROVE  MirrorInv'
<1>1. /\ Serving /\ m \in media /\ m \notin NamedBy(mirror) /\ media' = media \ {m}
      /\ \A r \in Commands : run[r].phase = "settling" => m \notin NamedBy(run[r].fresh)
      /\ UNCHANGED <<refs, foreign, mirror, marker, run, server, saving, interrupts>>
  BY DEF DeleteMedia
<1>2. ReconciliationTypeOK' BY <1>1 DEF MirrorInv, ReconciliationTypeOK, TableLocked
<1>3. ReferencesOf(refs)' = ReferencesOf(refs) /\ NamedBy(mirror)' = NamedBy(mirror)
      /\ Serving' = Serving
  BY <1>1 DEF ReferencesOf, NamedBy, Serving
<1>4. Alone' BY <1>1 DEF MirrorInv, Alone
<1>5. \A r \in Commands : Consistent(r)' BY <1>1, <1>3 DEF MirrorInv, Consistent, NamedBy
<1>6. NamedBy(mirror)' \subseteq media' BY <1>1, <1>3 DEF MirrorInv
<1>7. ReadyMeansMirrored' BY <1>1, <1>3 DEF MirrorInv, ReadyMeansMirrored
<1>8. ServedMeansEnforced'
  <2>1. ReferencesOf(refs) \subseteq mirror BY <1>1 DEF MirrorInv, ServedMeansEnforced
  <2>2. NamedBy(ReferencesOf(refs)) \subseteq NamedBy(mirror) BY <2>1 DEF NamedBy
  <2> QED BY <1>1, <1>3, <1>6, <2>1, <2>2 DEF ServedMeansEnforced, NamedBy
<1> QED BY <1>2, <1>4, <1>5, <1>6, <1>7, <1>8 DEF MirrorInv

LEMMA RepairKeepsMirror ==
  ASSUME MirrorInv, NEW d \in Docs, Repair(d)
  PROVE  MirrorInv'
<1>1. PICK kept : kept = refs[d] \cap media OBVIOUS
<1>2. /\ marker = "pending" /\ ~TableLocked /\ refs' = [refs EXCEPT ![d] = kept]
      /\ UNCHANGED <<foreign, media, mirror, marker, run, server, saving, interrupts>>
  BY <1>1 DEF Repair
<1>3. refs \in [Docs -> SUBSET Media] BY DEF MirrorInv, ReconciliationTypeOK
<1>4. refs' \in [Docs -> SUBSET Media] /\ ReferencesOf(refs') \subseteq ReferencesOf(refs)
  BY <1>1, <1>2, <1>3 DEF ReferencesOf
<1>5. ~TableLocked' /\ Serving' = Serving BY <1>2 DEF TableLocked, Serving
<1>6. ReconciliationTypeOK' BY <1>2, <1>4, <1>5 DEF MirrorInv, ReconciliationTypeOK
<1>7. \A r \in Commands : run[r].phase \notin Locked BY <1>2 DEF TableLocked, Locked
<1>8. Alone' /\ \A r \in Commands : Consistent(r)'
  BY <1>2, <1>7 DEF MirrorInv, Alone, Consistent, Locked
<1>9. ReadyMeansMirrored' BY <1>2 DEF ReadyMeansMirrored
<1>10. ServedMeansEnforced' /\ NamedBy(mirror)' \subseteq media'
  BY <1>2, <1>4, <1>5 DEF MirrorInv, ServedMeansEnforced, NamedBy
<1> QED BY <1>6, <1>8, <1>9, <1>10 DEF MirrorInv

LEMMA DeployKeepsMirror ==
  ASSUME MirrorInv, NEW types \in SUBSET Docs, Deploy(types)
  PROVE  MirrorInv'
<1>1. /\ \A r \in Commands : run[r] = Resting
      /\ foreign' = types
      /\ UNCHANGED <<refs, media, mirror, marker, run, server, saving, interrupts>>
  BY DEF Deploy
<1>2. ReconciliationTypeOK' BY <1>1 DEF MirrorInv, ReconciliationTypeOK, TableLocked
<1>3. Alone' /\ \A r \in Commands : Consistent(r)' BY <1>1 DEF Alone, Consistent, Resting
<1>4. ReferencesOf(refs)' = ReferencesOf(refs) /\ Serving' = Serving
  BY <1>1 DEF ReferencesOf, Serving
<1>5. ReadyMeansMirrored' /\ ServedMeansEnforced' /\ NamedBy(mirror)' \subseteq media'
  BY <1>1, <1>4 DEF MirrorInv, ReadyMeansMirrored, ServedMeansEnforced, NamedBy
<1> QED BY <1>2, <1>3, <1>5 DEF MirrorInv

LEMMA MirrorKept ==
  ASSUME MaxInterrupts \in Nat, MirrorInv, [Next]_vars
  PROVE  MirrorInv'
<1>1. ASSUME NEW s \in Servers, Boot(s) PROVE MirrorInv'
  <2>1. ReconciliationTypeOK'
    BY <1>1 DEF Boot, MirrorInv, ReconciliationTypeOK, TableLocked
  <2> QED BY <1>1, <2>1, OthersKeepMirror DEF Boot
<1>2. ASSUME NEW s \in Servers, Stop(s) PROVE MirrorInv'
  <2>1. saving' = saving \/ saving' = [w \in Writers |-> None] BY <1>2 DEF Stop
  <2>2. ReconciliationTypeOK'
    BY <1>2, <2>1 DEF Stop, MirrorInv, ReconciliationTypeOK, TableLocked
  <2>3. Serving' => Serving
    <3>1. server' = [server EXCEPT ![s] = "down"] /\ server \in [Servers -> {"up", "down"}]
      BY <1>2 DEF Stop, MirrorInv, ReconciliationTypeOK
    <3> QED BY <3>1 DEF Serving
  <2> QED BY <1>2, <2>2, <2>3, OthersKeepMirror DEF Stop
<1>3. ASSUME NEW w \in Writers, NEW d \in Docs, NEW names \in SUBSET Media, BeginSave(w, d, names)
      PROVE  MirrorInv'
  <2>1. PICK write : write = [doc |-> d, names |-> names] OBVIOUS
  <2>2. write \in [doc : Docs, names : SUBSET Media] BY <2>1
  <2>3. /\ saving' = [saving EXCEPT ![w] = write] /\ ~TableLocked
        /\ UNCHANGED <<refs, foreign, media, mirror, marker, run, server, interrupts>>
    BY <1>3, <2>1 DEF BeginSave
  <2>4. ReconciliationTypeOK'
    <3>1. \A v \in Writers : saving'[v] = None \/ saving'[v] \in [doc : Docs, names : SUBSET Media]
      BY <2>2, <2>3 DEF MirrorInv, ReconciliationTypeOK
    <3>2. ~TableLocked' BY <2>3 DEF TableLocked
    <3> QED BY <2>3, <3>1, <3>2 DEF MirrorInv, ReconciliationTypeOK
  <2>5. Serving' = Serving BY <2>3 DEF Serving
  <2> QED BY <2>3, <2>4, <2>5, OthersKeepMirror
<1>4. CASE UNCHANGED vars
  <2>1. ReconciliationTypeOK' BY <1>4 DEF vars, MirrorInv, ReconciliationTypeOK, TableLocked
  <2>2. Serving' = Serving BY <1>4 DEF vars, Serving
  <2> QED BY <1>4, <2>1, <2>2, OthersKeepMirror DEF vars
<1> QED BY <1>1, <1>2, <1>3, <1>4, ReconcileKeepsMirror, CommitKeepsMirror, DeletionKeepsMirror,
           RepairKeepsMirror, DeployKeepsMirror DEF Next, Save

ReconciliationSpec == Init /\ [][Next]_vars

\* However commands, saves, deletions, repairs and deployments interleave, and
\* wherever a command is interrupted: the marker says ready only of a mirror that
\* is what the documents name, and while a server is up no asset a document names
\* is missing (reconcileMediaReferences, buildApp).
THEOREM MirrorAlwaysHolds == MaxInterrupts \in Nat => (ReconciliationSpec => []MirrorHolds)
<1>1. MirrorInv => MirrorHolds BY DEF MirrorInv, MirrorHolds
<1>2. MaxInterrupts \in Nat /\ Init => MirrorInv BY MirrorStarts
<1>3. ASSUME MaxInterrupts \in Nat PROVE ReconciliationSpec => []MirrorHolds
  <2>1. Init => MirrorInv BY <1>2, <1>3
  <2>2. MirrorInv /\ [Next]_vars => MirrorInv' BY <1>3, MirrorKept
  <2> QED BY <1>1, <2>1, <2>2, PTL DEF ReconciliationSpec
<1> QED BY <1>3

-----------------------------------------------------------------------------
(* The health checks.                                                      *)

HealthSafety == HealthInit /\ [][HealthNext]_healthVars

\* A probe whose operation is outstanding holds it.
HealthInv ==
  HealthTypeOK /\ SingleFlight /\ \A p \in Probes : running[p] > 0 => p \in pending

\* However many checks come and give up while dependencies hang, come back and are
\* out again, there is one operation of each probe outstanding: with any requests,
\* probes and outages (createProbe).
THEOREM OneOperationOfEachProbe ==
  {} \in Outages => (HealthSafety => [](HealthTypeOK /\ SingleFlight))
<1> SUFFICES ASSUME {} \in Outages PROVE HealthSafety => [](HealthTypeOK /\ SingleFlight)
  OBVIOUS
<1>1. HealthInit => HealthInv
  <2> SUFFICES ASSUME HealthInit PROVE HealthInv
    OBVIOUS
  <2>1. Idle \in [Probes -> {"idle", "waiting", "up", "down"}] BY DEF Idle
  <2>2. asked \in [Requests -> [Probes -> {"idle", "waiting", "up", "down"}]]
    BY <2>1 DEF HealthInit
  <2>3. running \in [Probes -> Nat] /\ \A p \in Probes : running[p] = 0 BY DEF HealthInit
  <2>4. SingleFlight /\ \A p \in Probes : running[p] > 0 => p \in pending
    BY <2>3 DEF SingleFlight
  <2>5. HealthTypeOK BY <2>2, <2>3 DEF HealthInit, HealthTypeOK
  <2> QED BY <2>4, <2>5 DEF HealthInv
<1>2. HealthInv /\ [HealthNext]_healthVars => HealthInv'
  <2> SUFFICES ASSUME HealthInv, [HealthNext]_healthVars PROVE HealthInv'
    OBVIOUS
  <2>1. CASE UNCHANGED healthVars
    BY <2>1 DEF healthVars, HealthInv, HealthTypeOK, SingleFlight
  <2>2. ASSUME NEW q \in Requests, Ask(q) PROVE HealthInv'
    <3>1. asked' \in [Requests -> [Probes -> {"idle", "waiting", "up", "down"}]]
      BY <2>2 DEF Ask, HealthInv, HealthTypeOK
    <3>2. \A p \in Probes : p \notin pending => running[p] = 0
      BY DEF HealthInv, HealthTypeOK
    <3>3. running' \in [Probes -> Nat] /\ \A p \in Probes : running'[p] <= 1
      BY <2>2, <3>2 DEF Ask, HealthInv, HealthTypeOK, SingleFlight
    <3>4. degraded' \in BOOLEAN BY <2>2 DEF Ask
    <3> QED BY <2>2, <3>1, <3>3, <3>4 DEF Ask, HealthInv, HealthTypeOK, SingleFlight
  <2>3. ASSUME NEW q \in Requests, NEW p \in Probes, Budget(q, p) PROVE HealthInv'
    <3>1. asked' \in [Requests -> [Probes -> {"idle", "waiting", "up", "down"}]]
      BY <2>3 DEF Budget, HealthInv, HealthTypeOK
    <3> QED BY <2>3, <3>1 DEF Budget, HealthInv, HealthTypeOK, SingleFlight
  <2>4. ASSUME NEW q \in Requests, Respond(q) PROVE HealthInv'
    <3>1. Idle \in [Probes -> {"idle", "waiting", "up", "down"}] BY DEF Idle
    <3>2. asked' \in [Requests -> [Probes -> {"idle", "waiting", "up", "down"}]]
      BY <2>4, <3>1 DEF Respond, HealthInv, HealthTypeOK
    <3>3. answer' \in {200, 503} BY <2>4 DEF Respond, StatusOf
    <3> QED BY <2>4, <3>2, <3>3 DEF Respond, HealthInv, HealthTypeOK, SingleFlight
  <2>5. ASSUME NEW p \in Probes, Settle(p) PROVE HealthInv'
    <3>1. asked' \in [Requests -> [Probes -> {"idle", "waiting", "up", "down"}]]
      <4>1. ASSUME NEW q \in Requests
            PROVE  asked'[q] \in [Probes -> {"idle", "waiting", "up", "down"}]
        <5>1. asked[q] \in [Probes -> {"idle", "waiting", "up", "down"}]
          BY DEF HealthInv, HealthTypeOK
        <5>2. PICK verdict \in {"up", "down"} : verdict = IF Up(p) THEN "up" ELSE "down"
          OBVIOUS
        <5>3. asked'[q] = asked[q] \/ asked'[q] = [asked[q] EXCEPT ![p] = verdict]
          BY <2>5, <5>2 DEF Settle
        <5> QED BY <5>1, <5>2, <5>3
      <4> QED BY <2>5, <4>1 DEF Settle
    <3>2. running' \in [Probes -> Nat] /\ running'[p] = 0
          /\ \A x \in Probes \ {p} : running'[x] = running[x]
      BY <2>5 DEF Settle, HealthInv, HealthTypeOK, SingleFlight
    <3> QED BY <2>5, <3>1, <3>2 DEF Settle, HealthInv, HealthTypeOK, SingleFlight
  <2>6. CASE ClientError BY <2>6 DEF ClientError, HealthInv, HealthTypeOK, SingleFlight
  <2>7. CASE Outage BY <2>7 DEF Outage, HealthInv, HealthTypeOK, SingleFlight
  <2> QED BY <2>1, <2>2, <2>3, <2>4, <2>5, <2>6, <2>7 DEF HealthNext
<1>3. HealthInv => HealthTypeOK /\ SingleFlight BY DEF HealthInv
<1> QED BY <1>1, <1>2, <1>3, PTL DEF HealthSafety

-----------------------------------------------------------------------------
(* The bucket.                                                             *)

BucketSpec == BucketInit /\ [][BucketNext]_bucketVars

\* An existing bucket is never modified: with any number of commands side by side, one
\* makes readable only a bucket that it created itself, and only where readers ask the
\* store.  No command goes by the value for nobody.
THEOREM OnlyEverItsOwnBucket ==
  None \notin Runs => (BucketSpec => []OnlyItsOwnBucket)
<1> SUFFICES ASSUME None \notin Runs PROVE BucketSpec => []OnlyItsOwnBucket
  OBVIOUS
<1> DEFINE BucketInv ==
             /\ provision \in [Runs -> {"idle", "looking", "creating", "allowing",
                                       "writing", "checking", "done", "failed"}]
             /\ OnlyItsOwnBucket
<1>1. BucketInit => BucketInv BY DEF BucketInit, OnlyItsOwnBucket
<1>2. BucketInv /\ [BucketNext]_bucketVars => BucketInv'
  <2> SUFFICES ASSUME BucketInv, [BucketNext]_bucketVars PROVE BucketInv'
    OBVIOUS
  <2>1. CASE UNCHANGED bucketVars BY <2>1 DEF bucketVars, OnlyItsOwnBucket, Direct
  <2>2. CASE Weather BY <2>2 DEF Weather, OnlyItsOwnBucket, Direct
  <2>3. CASE OperatorMakes BY <2>3 DEF OperatorMakes, OnlyItsOwnBucket, Direct
  <2>4. CASE OperatorSets BY <2>4 DEF OperatorSets, OnlyItsOwnBucket, Direct
  <2>5. ASSUME NEW r \in Runs, Create(r) PROVE BucketInv'
    <3>1. CASE bucket = None
      <4>1. \A x \in Runs : provision[x] # "allowing" BY <3>1 DEF OnlyItsOwnBucket
      <4>2. \A x \in Runs : provision'[x] = "allowing" => x = r /\ bucket' = r /\ Direct
        BY <2>5, <4>1 DEF Create, Go
      <4>3. base' = base BY <2>5 DEF Create
      <4>4. provision' \in [Runs -> {"idle", "looking", "creating", "allowing",
                                     "writing", "checking", "done", "failed"}]
        BY <2>5 DEF Create, Go
      <4> QED BY <4>2, <4>3, <4>4 DEF OnlyItsOwnBucket, Direct
    <3>2. CASE bucket # None
      BY <2>5, <3>2 DEF Create, Go, OnlyItsOwnBucket, Direct
    <3> QED BY <3>1, <3>2
  <2>6. ASSUME NEW r \in Runs,
               Start(r) \/ Look(r) \/ Allow(r) \/ Write(r) \/ Check(r) \/ Kill(r)
        PROVE  BucketInv'
    <3>1. bucket' = bucket /\ base' = base
      BY <2>6 DEF Start, Look, Allow, Write, Check, Kill
    <3>2. \E step \in {"looking", "creating", "writing", "checking", "done", "failed"} :
            Go(r, step)
      BY <2>6 DEF Start, Look, Allow, Write, Check, Kill
    <3> QED BY <3>1, <3>2 DEF Go, OnlyItsOwnBucket, Direct
  <2> QED BY <2>1, <2>2, <2>3, <2>4, <2>5, <2>6 DEF BucketNext, Provision
<1>3. BucketInv => OnlyItsOwnBucket OBVIOUS
<1> QED BY <1>1, <1>2, <1>3, PTL DEF BucketSpec

=============================================================================
