------------------------------- MODULE Blocks -------------------------------
(***************************************************************************)
(* The blocks of a draft and what editing does to them: the plain-text     *)
(* fields of the galley over runs of text that carry marks, and the        *)
(* identities by which blocks are addressed.                               *)
(*                                                                         *)
(* A block is its identity and its runs: a paragraph, a heading, a quote   *)
(* or a caption has one, a list one per item, a divider none.              *)
(***************************************************************************)
EXTENDS Naturals, SequencesExt

CONSTANTS
  Ids,           \* the identities there are
  Characters, Marks,
  Plain,         \* no marks
  MaxLength,     \* bound: how much text a draft holds
  MaxRuns,       \* bound: the runs of a block
  MaxBlocks      \* bound: the blocks of a draft

\* There is always another identity to draw.
ASSUME BlocksAssumption ==
  /\ MaxLength \in Nat /\ MaxRuns \in Nat /\ MaxBlocks \in Nat
  /\ IsFiniteSet(Ids) /\ MaxBlocks <= Cardinality(Ids)

VARIABLE galley  \* the blocks of the draft

Least(a, b)    == IF a < b THEN a ELSE b
Greatest(a, b) == IF a > b THEN a ELSE b

Node(text, marks) == [text |-> text, marks |-> marks]

\* inlineToText.
TextOf(run) == FlattenSeq([k \in DOMAIN run |-> run[k].text])

\* Where a node starts in the plain text.
Offset(run, k) == Len(TextOf(SubSeq(run, 1, k - 1)))

-----------------------------------------------------------------------------
(* The splice.                                                             *)

CommonPrefix(before, after) ==
  CHOOSE n \in 0..Least(Len(before), Len(after)) :
    /\ \A i \in 1..n : before[i] = after[i]
    /\ n < Least(Len(before), Len(after)) => before[n + 1] # after[n + 1]

\* Mutant: the suffix may overlap the prefix.
OverlappingSuffix(before, after, prefix) == CommonPrefix(Reverse(before), Reverse(after))

\* Without overlapping the prefix.
CommonSuffix(before, after, prefix) ==
  Least(CommonPrefix(Reverse(before), Reverse(after)),
        Least(Len(before), Len(after)) - prefix)

\* What a node that starts at an offset has between two others: nothing, or a node.
Cut(node, offset, from, to) ==
  LET text == SubSeq(node.text, Greatest(from, offset) - offset + 1,
                                Least(to - offset, Len(node.text)))
  IN  IF text = <<>> THEN <<>> ELSE <<Node(text, node.marks)>>

\* The nodes that cover a range of the plain text, split at its edges.
Slice(run, from, to) ==
  FlattenSeq([k \in DOMAIN run |-> Cut(run[k], Offset(run, k), from, to)])

\* The node that covers an offset, 0 when there is none.
NodeAt(run, offset) ==
  LET covering == {k \in DOMAIN run : /\ Offset(run, k) <= offset
                                      /\ offset < Offset(run, k) + Len(run[k].text)}
  IN  IF covering = {} THEN 0 ELSE CHOOSE k \in covering : TRUE

\* Adjacent nodes that carry the same marks are one, and a node without text is none.
Join(nodes, node) ==
  IF node.text = <<>> THEN nodes
  ELSE IF nodes # <<>> /\ Last(nodes).marks = node.marks
    THEN Append(Front(nodes), Node(Last(nodes).text \o node.text, node.marks))
    ELSE Append(nodes, node)

Merge(nodes) == FoldLeft(Join, <<>>, nodes)

\* What is typed inside one node is marked as that node is; across two it is plain.
Inherited(run, from, to) ==
  LET anchor == NodeAt(run, IF from = to THEN Greatest(1, from) - 1 ELSE from)
  IN  IF anchor # 0 /\ NodeAt(run, Greatest(1, to) - 1) = anchor THEN run[anchor].marks ELSE Plain

ReplaceInlineText(run, next) ==
  LET before == TextOf(run)
      from   == CommonPrefix(before, next)
      suffix == CommonSuffix(before, next, from)
      to     == Len(before) - suffix
      middle == Node(SubSeq(next, from + 1, Len(next) - suffix), Inherited(run, from, to))
  IN  IF before = next THEN run
      ELSE IF next = <<>> THEN <<>>
      ELSE IF run = <<>> THEN <<Node(next, Plain)>>
      ELSE Merge(Slice(run, 0, from) \o <<middle>> \o Slice(run, to, Len(before)))

-----------------------------------------------------------------------------
(* The galley.                                                             *)

Block(id, runs) == [id |-> id, runs |-> runs]
IdsOf(blocks)   == {blocks[k].id : k \in DOMAIN blocks}

\* The first block with an identity keeps it; later ones are given others, in order.
NewId(fresh, taken) ==
  fresh[CHOOSE k \in DOMAIN fresh :
          fresh[k] \notin taken /\ \A j \in 1..(k - 1) : fresh[j] \in taken]

WithUniqueIds(blocks, fresh) ==
  FoldLeft(LAMBDA out, block :
             Append(out, IF block.id \notin IdsOf(out) THEN block
                         ELSE [block EXCEPT !.id = NewId(fresh, IdsOf(out))]),
           <<>>, blocks)

AllText(blocks) == FlattenSeq([k \in DOMAIN blocks |->
                     FlattenSeq([r \in DOMAIN blocks[k].runs |-> TextOf(blocks[k].runs[r])])])

\* Every block with the identity becomes the next one.
Replace(id, next) ==
  galley' = [k \in DOMAIN galley |-> IF galley[k].id = id THEN next ELSE galley[k]]

\* A keystroke, a paste or a deletion, wherever the caret or the selection is: what
\* the field then says.
TypeInto(k, r, next) ==
  LET block == galley[k] IN
  /\ Len(AllText(galley)) + Len(next) - Len(TextOf(block.runs[r])) <= MaxLength
  /\ Replace(block.id, [block EXCEPT !.runs[r] = ReplaceInlineText(block.runs[r], next)])

\* An item is added at the end of a list.
AddItem(k) ==
  /\ Len(galley[k].runs) \in 1..(MaxRuns - 1)
  /\ Replace(galley[k].id, [galley[k] EXCEPT !.runs = Append(@, <<>>)])

Move(k, target) ==
  /\ target \in DOMAIN galley
  /\ galley' = InsertAt(RemoveAt(galley, k), target, galley[k])

\* Every block with the identity goes.
RemoveBlock(k) ==
  galley' = FlattenSeq([j \in DOMAIN galley |->
              IF galley[j].id = galley[k].id THEN <<>> ELSE <<galley[j]>>])

\* The palette: a block starts with no text, under an identity of its own.
AddBlock(id, runs) ==
  /\ Len(galley) < MaxBlocks /\ id \notin IdsOf(galley)
  /\ galley' = Append(galley, Block(id, [r \in 1..runs |-> <<>>]))

-----------------------------------------------------------------------------
Typings == BoundedSeq(Characters, MaxLength)

\* What an import may hold: nodes split anywhere, and identities that repeat.
Runs  == {run \in BoundedSeq({Node(text, m) : text \in Typings \ {<<>>}, m \in Marks}, 2) :
            Len(TextOf(run)) <= MaxLength}

Imported == {Block(id, <<run>>) : id \in Ids, run \in Runs}

BlocksInit ==
  \E stored \in BoundedSeq(Imported, MaxBlocks) :
  \E fresh \in {SetToSeq(Ids), Reverse(SetToSeq(Ids))} :
    /\ Len(AllText(stored)) <= MaxLength
    /\ galley = WithUniqueIds(stored, fresh)

BlocksNext ==
  \/ \E k \in DOMAIN galley :
       \/ \E r \in DOMAIN galley[k].runs, next \in Typings : TypeInto(k, r, next)
       \/ AddItem(k) \/ RemoveBlock(k)
       \/ k > 1 /\ Move(k, k - 1)
       \/ Move(k, k + 1)
  \/ \E id \in Ids : \E runs \in 0..1 : AddBlock(id, runs)

BlocksSpec == BlocksInit /\ [][BlocksNext]_galley

-----------------------------------------------------------------------------
\* A character with the marks it carries.
Marked(run) == FlattenSeq([k \in DOMAIN run |->
                 [i \in DOMAIN run[k].text |-> <<run[k].text[i], run[k].marks>>]])

\* Blocks are addressed by identity, so a draft never holds two with one, whatever
\* was opened (editing.ts withUniqueIds, blocks.ts blocksSchema).
IdsDistinct == Cardinality(IdsOf(galley)) = Len(galley)

\* Every run of the draft with every text its field may be given.
Edited(P(_, _)) ==
  \A k \in DOMAIN galley : \A r \in DOMAIN galley[k].runs : \A next \in Typings :
    P(galley[k].runs[r], next)

\* A field says what its author typed, however the edit is taken apart into a splice
\* (editing.ts replaceInlineText).
TypedIsKept == Edited(LAMBDA run, next : TextOf(ReplaceInlineText(run, next)) = next)

\* What an edit did not touch keeps its marks, the text before and after the change
\* (editing.ts: an edit is a splice).
MarksStay ==
  Edited(LAMBDA run, next :
    LET was    == Marked(run)
        is     == Marked(ReplaceInlineText(run, next))
        before == CommonPrefix(TextOf(run), next)
        after  == CommonSuffix(TextOf(run), next, before)
    IN  /\ SubSeq(is, 1, before) = SubSeq(was, 1, before)
        /\ SubSeq(is, Len(is) - after + 1, Len(is)) = SubSeq(was, Len(was) - after + 1, Len(was)))

\* An edit leaves no seam: no empty node and no two neighbours with the same marks
\* (editing.ts merge).
NoSeams ==
  Edited(LAMBDA run, next :
    LET edited == ReplaceInlineText(run, next) IN
    next # TextOf(run) =>
      /\ \A n \in DOMAIN edited : edited[n].text # <<>>
      /\ \A n \in 1..(Len(edited) - 1) : edited[n].marks # edited[n + 1].marks)

\* What editing promises: the text that was typed, with the marks of what was there, and
\* blocks that can be told apart (editing.ts).
EditsHold == IdsDistinct /\ TypedIsKept /\ MarksStay /\ NoSeams
=============================================================================
