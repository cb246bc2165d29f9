------------------------------ MODULE MCEditor ------------------------------
(***************************************************************************)
(* An author at the editor, with as many writes as it takes for one of     *)
(* them to be late: who opens the history while a colleague writes too, or *)
(* the picker, alone; or who asks for links to a preview.  The part that   *)
(* is not the scene stays as it began.                                     *)
(***************************************************************************)
EXTENDS Editor

VARIABLES
  scene,
  status, now, screen, request, link, copied, copying, clipboard, tokens, visit, readable

previews == <<status, now, screen, request, link, copied, copying, clipboard, tokens,
              visit, readable>>

INSTANCE Preview WITH
  Documents <- {"a", "b"}, Author <- [d \in {"a", "b"} |-> "somebody"],
  Asker <- [id |-> "asker", role |-> "author"], Ttl <- 1, MaxNow <- 1, MaxLinks <- 2

MCInit ==
  /\ scene \in {"history", "picker", "preview"}
  /\ EditorInit
  /\ scene \notin {"history", "picker"} => row # NoRow
  /\ PreviewInit
  /\ scene # "preview" => \A d \in DOMAIN status : status[d] = "published"

MCNext ==
  \/ /\ scene \in {"history", "picker"} /\ EditorNext
     /\ scene = "history" => ~upload'.open
     /\ scene = "picker" => ~panel'.open /\ row'.text \cap Others = {}
     /\ UNCHANGED <<previews, scene>>
  \/ scene = "preview" /\ PreviewNext /\ UNCHANGED <<editorVars, scene>>

MCSpec == MCInit /\ [][MCNext]_<<editorVars, previews, scene>> /\ EditorFairness
=============================================================================
