---------------------------- MODULE MCPublicSite ----------------------------
(***************************************************************************)
(* Instances of PublicSite for TLC: a few documents, the pages that show   *)
(* them and the changes that matter to those pages.                        *)
(***************************************************************************)
EXTENDS PublicSite

CONSTANTS g1, g2, m1

VARIABLE scenario   \* which of the two below a behaviour is in

Row(type, locale, group, slug, parent, status) ==
  [type |-> type, locale |-> locale, group |-> group, slug |-> slug, title |-> "old",
   parent |-> parent, status |-> status, date |-> 0, refs |-> {}]

Cacheable == [u \in Keys |-> 1]

Edit(column, values) == {[column |-> column, value |-> v] : v \in values}

DocumentPage(type, locale, path) ==
  [kind |-> "document", type |-> type, locale |-> locale, path |-> path]

Listing(kind, locale, number) ==
  [kind |-> kind, type |-> "post", locale |-> locale, number |-> number]

Sitemap == [kind |-> "sitemap"]

-----------------------------------------------------------------------------
(* Posts: an English one with its French translation, and another English  *)
(* one still to be published or created; an archive of one post a page.    *)
(* The fourth row is long gone.                                            *)

Post(locale, group, slug, status) == Row("post", locale, group, slug, None, status)

PostSeeds ==
  {<<[Post("en", g1, "a", "published") EXCEPT !.refs = {m1}],
     Post("fr", g1, "a", "published"), Post("en", g2, "b", "draft"), Deleted>>,
   <<[Post("en", g1, "a", "published") EXCEPT !.refs = {m1}], Absent,
     Post("en", g2, "b", "published"), Deleted>>}

PostCreations == {Post("fr", g1, "c", "published")}

PostEdits ==
  Edit("status", {"draft", "published"}) \cup Edit("slug", {"a", "b"})
    \cup Edit("refs", {{}})

PostKeys ==
  {DocumentPage("post", locale, <<"a">>) : locale \in {"en", "fr"}}
    \cup {Listing("archive", "en", n) : n \in 1..2} \cup {Listing("feed", "en", 1)}

-----------------------------------------------------------------------------
(* Pages: an English root with a child, a French translation of the child  *)
(* under a root of its own.                                                *)

TreePage(locale, group, slug, parent, status) ==
  Row("page", locale, group, slug, parent, status)

TreeSeeds ==
  {<<TreePage("en", g2, "a", None, "published"), TreePage("en", g1, "b", 1, "published"),
     TreePage("fr", g2, "c", None, "published"), TreePage("fr", g1, "b", 3, "published")>>}

TreeEdits ==
  Edit("slug", {"d"}) \cup Edit("status", {"draft", "published"})
    \cup Edit("parent", {None, 1}) \cup Edit("title", {"new"})

TreeKeys ==
  {DocumentPage("page", "en", path) : path \in {<<"b">>, <<"a", "b">>}} \cup {Sitemap}

-----------------------------------------------------------------------------
(* The two together, with one page cached at a time: those of others do    *)
(* not enter into what it says.  The scenario never changes.               *)

SiteSeeds == PostSeeds \cup TreeSeeds
SiteEdits == PostEdits \cup TreeEdits
SiteKeys == PostKeys \cup TreeKeys

Scenario(name) ==
  CASE name = "posts" ->
         [seeds |-> PostSeeds, edits |-> PostEdits, creations |-> PostCreations,
          keys |-> PostKeys, media |-> Media, requests |-> 2]
    [] name = "tree" ->
         [seeds |-> TreeSeeds, edits |-> TreeEdits, creations |-> {},
          keys |-> TreeKeys, media |-> {}, requests |-> 1]

ScenarioInit ==
  /\ scenario \in {"posts", "tree"}
  /\ SiteInit
  /\ rows \in Scenario(scenario).seeds

ScenarioChanges(w, s) ==
  \/ \E d \in Docs, row \in s.creations : CreateDocument(w, d, row)
  \/ \E d \in Docs, edit \in s.edits : SaveDocument(w, d, edit)
  \/ \E d \in Docs : DeleteDocument(w, d)
  \/ \E m \in s.media : UpdateAsset(w, m) \/ DeleteAsset(w, m)

(* Quiet, where the scenario has fewer requests than MaxRequests. *)
Rest(s) ==
  /\ \A r \in Requests : ~Rendering(r)
  /\ \A w \in Writers : outbox[w] = {}
  /\ left.requests = MaxRequests - s.requests
  /\ UNCHANGED siteVars

ScenarioNext ==
  LET s == Scenario(scenario)
  IN /\ \/ /\ left.requests > MaxRequests - s.requests
           /\ \E r \in Requests, u \in s.keys :
                Get(r, u) /\ \A k \in s.keys \ {u} : ~Cached(valkey, k)
        \/ \E r \in Requests : Answers(r) \/ GiveUp(r)
        \/ \E w \in Writers : ScenarioChanges(w, s)
        \/ (\E w \in Writers : Purge(w) \/ Lose(w)) /\ UNCHANGED <<rows, assets, view>>
        \/ Rest(s)
        \/ (Valkey \/ Quiet) /\ UNCHANGED <<rows, assets, view>>
     /\ UNCHANGED scenario

ScenarioSpec == ScenarioInit /\ [][ScenarioNext]_<<siteVars, scenario>>
=============================================================================
