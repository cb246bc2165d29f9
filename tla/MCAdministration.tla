--------------------------- MODULE MCAdministration ---------------------------
(***************************************************************************)
(* What an administration interface asks of the API, one part a behaviour: *)
(* uploads, deletions and sweeps, with one permit, one place to wait, one  *)
(* image that is stored and two files that are refused if they get there;  *)
(* a listing, read page by page; the descriptions of an image; the blocks  *)
(* of a draft; and preferences.  A part that is not the scene stays as it  *)
(* began.                                                                  *)
(***************************************************************************)
EXTENDS Library, Blocks

CONSTANTS u1, u2, u3

VARIABLES
  scene,
  column, table, instant, uploaded, pages, fetching, steady,
  alt, owner, lock, field, patches, sent,
  account, session, cookie, shown, document, user, fetch, wire, choices, elsewhere

listing     == <<column, table, instant, uploaded, pages, fetching, steady>>
captions    == <<alt, owner, lock, field, patches, sent>>
preferences == <<account, session, cookie, shown, document, user, fetch, wire, choices,
                 elsewhere>>

-----------------------------------------------------------------------------
Image(format) == [sent |-> TRUE, accepted |-> TRUE, large |-> FALSE, format |-> format]
OtherFiles == {Image("animated"), Image("bomb"), [Image("svg") EXCEPT !.accepted = FALSE]}

AnyFile == [u \in Uploads |-> IF u = u1 THEN OtherFiles \cup {Image("still")} ELSE OtherFiles]

StuckObject == {<<u1, "avif">>}

RowsListed == {1, 2, 3}

INSTANCE Paging WITH Ids <- RowsListed, PageSize <- 1, MaxInstant <- 2, flight <- fetching

Describers == {"author", "editor"}

INSTANCE Descriptions WITH
  Languages <- {"en", "fr"}, People <- Describers, Role <- [p \in Describers |-> p],
  Uploader <- "author", Sayings <- {"x"}, MaxPatches <- 2

INSTANCE Preferences WITH
  People <- {"somebody"}, Themes <- {"dark", "system"}, Locales <- {"en", "fr"},
  Guess <- [theme |-> "system", locale |-> "en"], MaxChoices <- 2, MaxElsewhere <- 1

-----------------------------------------------------------------------------
(* The listing has a row to begin with. *)
SceneInit ==
  /\ scene \in {"library", "listing", "descriptions", "blocks", "preferences"}
  /\ IF scene = "blocks" THEN BlocksInit ELSE galley = <<>>
  /\ Init
  /\ PagingInit /\ Present # {}
  /\ scene # "listing" => column = "created_at" /\ table = [d \in RowsListed |-> 0]
  /\ DescriptionsInit
  /\ field["author"].language = "en"
  /\ scene # "descriptions" => field["editor"].language = "en"
  /\ PreferencesInit
  /\ cookie["theme"] = "none"
  /\ scene # "preferences" => session = None /\ cookie["locale"] = "none"

SceneNext ==
  \/ scene = "library" /\ Next /\ UNCHANGED <<listing, captions, galley, preferences, scene>>
  \/ scene = "listing" /\ PagingNext /\ UNCHANGED <<vars, captions, galley, preferences, scene>>
  \/ /\ scene = "descriptions" /\ DescriptionsNext
     /\ UNCHANGED <<vars, listing, galley, preferences, scene>>
  \/ /\ scene = "blocks" /\ BlocksNext
     /\ UNCHANGED <<vars, listing, captions, preferences, scene>>
  \/ /\ scene = "preferences" /\ PreferencesNext
     /\ UNCHANGED <<vars, listing, captions, galley, scene>>

SceneSpec == SceneInit /\ [][SceneNext]_<<vars, listing, captions, galley, preferences, scene>>
=============================================================================
