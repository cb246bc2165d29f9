----------------------------- MODULE PublicSite -----------------------------
(***************************************************************************)
(* The public site over the page cache: what each route reads from the     *)
(* database, query by query, and the tags it collects; which writes the    *)
(* API makes, and the tags its invalidation module purges for them.        *)
(*                                                                         *)
(* The actions of PageCache run underneath: a request is a miss, its       *)
(* queries are reads of tags, its response is kept or dropped, a write     *)
(* raises the tags its event names.  Here a page has a body, and it is     *)
(* current when rendering it again would give the same one.                *)
(***************************************************************************)
EXTENDS PageCache, Sequences

CONSTANTS
  Docs,               \* content ids, ordered as ids are (naturals)
  Media,
  Types, Locales, Groups,
  HierarchicalTypes,  \* their documents nest; the others have archives
  Absent,             \* no such row, yet
  Deleted,            \* a row that is gone: no id is given twice
  MAX_ANCESTRY_DEPTH,
  PER_PAGE,
  Seeds,              \* databases a run may start from
  Creations,          \* rows that may be created
  Edits               \* columns a save may change, each with its new value

VARIABLES
  rows,    \* contents, as far as the site shows them
  assets,  \* the alternative text of each asset, or Absent
  view     \* what each render has gathered

siteVars == <<vars, rows, assets, view>>

-----------------------------------------------------------------------------
(* Tags and the events that purge them.                                    *)

ContentTag(d) == <<"content", d>>
ContentListTag(type, locale) == <<"list", type, locale>>
TranslationGroupTag(g) == <<"group", g>>
MediaTag(m) == <<"media", m>>

EveryTag ==
  {ContentTag(d) : d \in Docs} \cup {MediaTag(m) : m \in Media}
    \cup {TranslationGroupTag(g) : g \in Groups}
    \cup {ContentListTag(type, locale) : type \in Types, locale \in Locales}

PurgeContent(d, row) ==
  {ContentTag(d), ContentListTag(row.type, row.locale), TranslationGroupTag(row.group)}

-----------------------------------------------------------------------------
(* Queries, on the rows as they stand.                                     *)

Exists(d) == rows[d] \notin {Absent, Deleted}

PubliclyVisible(d, time) ==
  Exists(d) /\ rows[d].status = "published" /\ rows[d].date <= time

(* What a page shows of a row. *)
Shown(d) == [id |-> d, locale |-> rows[d].locale, group |-> rows[d].group,
             slug |-> rows[d].slug, title |-> rows[d].title, date |-> rows[d].date,
             refs |-> rows[d].refs]

Slug(u) == u.path[Len(u.path)]

FindPublishedBySlug(u) ==
  {d \in Docs : /\ PubliclyVisible(d, clock)
                /\ rows[d].type = u.type
                /\ rows[d].locale = u.locale
                /\ rows[d].slug = Slug(u)}

Alike(d, e) ==
  /\ Exists(d) /\ Exists(e)
  /\ rows[d].type = rows[e].type /\ rows[d].locale = rows[e].locale

(* The walk from a row to its root, which need not be visible; levels is   *)
(* how far it may still go.                                                *)
Ancestry(d) ==
  LET climb[levels \in 0..MAX_ANCESTRY_DEPTH] ==
        IF levels = 0 THEN [e \in Docs |-> [slugs |-> <<>>, complete |-> FALSE]]
        ELSE [e \in Docs |->
                IF rows[e].parent # None /\ Alike(rows[e].parent, e)
                THEN [climb[levels - 1][rows[e].parent]
                        EXCEPT !.slugs = Append(@, rows[e].slug)]
                ELSE [slugs |-> <<rows[e].slug>>, complete |-> rows[e].parent = None]]
  IN climb[MAX_ANCESTRY_DEPTH][d]

PathOf(d) ==
  IF rows[d].type \in HierarchicalTypes THEN Ancestry(d).slugs ELSE <<rows[d].slug>>

Resolves(d) ==
  /\ Exists(d)
  /\ rows[d].type \in HierarchicalTypes => Ancestry(d).complete

(* Mistake: a translation counts whether it is published or not. *)
ListTranslations(g) == {d \in Docs : Exists(d) /\ rows[d].group = g}

ListPublishedTranslations(g) ==
  {d \in Docs : PubliclyVisible(d, clock) /\ rows[d].group = g}

ListPublished(u, time) ==
  {d \in Docs : /\ PubliclyVisible(d, time)
                /\ rows[d].type = u.type
                /\ rows[d].locale = u.locale}

(* PUBLISHED_ORDER: newest first, the id deciding between two of a date. *)
Precedes(e, d) ==
  rows[e].date > rows[d].date \/ (rows[e].date = rows[d].date /\ e > d)

OnPage(u, time) ==
  LET listed == ListPublished(u, time)
      before(d) == Cardinality({e \in listed : Precedes(e, d)})
  IN {d \in listed : before(d) \div PER_PAGE = u.number - 1}

PageCount(total) == IF total = 0 THEN 1 ELSE (total + PER_PAGE - 1) \div PER_PAGE

(* The walk from the roots down, through visible rows alone. *)
ListPublishedPaths ==
  LET reached[levels \in 0..MAX_ANCESTRY_DEPTH] ==
        IF levels = 0 THEN {}
        ELSE {d \in Docs : /\ PubliclyVisible(d, clock)
                           /\ \/ rows[d].parent = None
                              \/ /\ Alike(rows[d].parent, d)
                                 /\ rows[d].parent \in reached[levels - 1]}
  IN reached[MAX_ANCESTRY_DEPTH]

AltsOf(refs) == {<<m, assets[m]>> : m \in {n \in refs : assets[n] # Absent}}

-----------------------------------------------------------------------------
(* Pages.                                                                  *)

Body == [row |-> None, path |-> <<>>, links |-> {}, entries |-> {}, pages |-> 0,
         alts |-> {}]

DocumentUrl(d) == [kind |-> "document", type |-> rows[d].type,
                   locale |-> rows[d].locale, path |-> PathOf(d)]

Entry(d) == [row |-> Shown(d), url |-> DocumentUrl(d)]

LinksOf(ds) == {Entry(d) : d \in {e \in ds : Resolves(e)}}

RefsOf(ds) == UNION {rows[d].refs : d \in ds}

(* The page at u as it would be now, or None: a 404 or a redirect. *)
Rendered(u) ==
  CASE u.kind = "document" ->
         IF \E d \in FindPublishedBySlug(u) : Resolves(d) /\ PathOf(d) = u.path
         THEN LET d == CHOOSE d \in FindPublishedBySlug(u) : TRUE
              IN [Body EXCEPT !.row = Shown(d), !.path = u.path,
                    !.links = LinksOf(ListPublishedTranslations(rows[d].group)),
                    !.alts = AltsOf(rows[d].refs)]
         ELSE None
    [] u.kind \in {"archive", "feed"} ->
         LET total == Cardinality(ListPublished(u, clock))
             shown == OnPage(u, clock)
         IN IF u.number > PageCount(total) THEN None
            ELSE [Body EXCEPT !.entries = {Entry(d) : d \in shown}, !.pages = PageCount(total),
                    !.alts = IF u.kind = "feed" THEN AltsOf(RefsOf(shown)) ELSE {}]
    [] u.kind = "sitemap" ->
         [Body EXCEPT !.entries = {Entry(d) : d \in ListPublishedPaths}]

-----------------------------------------------------------------------------
(* Requests.  todo is the set of queries a render still has to send.       *)

NoView == [todo |-> {}, doc |-> None, siblings |-> {}, body |-> Body]

FirstQueries(u) ==
  CASE u.kind = "document" -> {"document"}
    [] u.kind \in {"archive", "feed"} -> {"rows", "total"}
    [] u.kind = "sitemap" -> {"paths"}

Url(r) == request[r].key

Todo(r) == view[r].todo

(* The page is not kept: a 404, a redirect, or an error. *)
GiveUp(r) ==
  /\ Drop(r)
  /\ view' = [view EXCEPT ![r] = NoView]
  /\ UNCHANGED <<rows, assets>>

Gathers(r, tags, gathered) ==
  /\ Read(r, tags)
  /\ view' = [view EXCEPT ![r] = gathered]
  /\ UNCHANGED <<rows, assets>>

Get(r, u) ==
  /\ Miss(r, u)
  /\ view' = [view EXCEPT ![r] = [NoView EXCEPT !.todo = FirstQueries(u)]]
  /\ UNCHANGED <<rows, assets>>

LoadDocument(r) ==
  /\ "document" \in Todo(r)
  /\ \/ FindPublishedBySlug(Url(r)) = {} /\ GiveUp(r)
     \/ \E d \in FindPublishedBySlug(Url(r)) :
          Gathers(r, {ContentTag(d), TranslationGroupTag(rows[d].group)},
                  [view[r] EXCEPT !.todo = {"ancestry"}, !.doc = d,
                                  !.body.row = Shown(d)])

(* A flat type asks nothing: the path is the slug already read. *)
Canonical(r) ==
  Url(r).type \in HierarchicalTypes =>
    LET d == view[r].doc IN Resolves(d) /\ PathOf(d) = Url(r).path

LoadAncestry(r) ==
  /\ "ancestry" \in Todo(r)
  /\ IF Canonical(r)
     THEN Gathers(r, {}, [view[r] EXCEPT !.todo = {"translations"},
                                         !.body.path = Url(r).path])
     ELSE GiveUp(r)

LoadTranslations(r) ==
  LET siblings == ListPublishedTranslations(view[r].body.row.group)
      nests == Url(r).type \in HierarchicalTypes
      links == IF nests THEN {} ELSE LinksOf(siblings)
  IN /\ "translations" \in Todo(r)
     /\ Gathers(r, {TranslationGroupTag(view[r].body.row.group)}
                     \cup {ContentTag(d) : d \in siblings},
                [view[r] EXCEPT !.todo = {"links", "media"}, !.body.links = links,
                                !.siblings = IF nests THEN {<<d, Shown(d)>> : d \in siblings}
                                                      ELSE {}])

(* One query for the ancestors of each sibling, in any order. *)
ResolveSibling(r) ==
  /\ "links" \in Todo(r)
  /\ \/ /\ view[r].siblings = {}
        /\ Gathers(r, {}, [view[r] EXCEPT !.todo = @ \ {"links"}])
     \/ \E s \in view[r].siblings :
          LET link == IF Resolves(s[1])
                      THEN {[row |-> s[2], url |-> DocumentUrl(s[1])]} ELSE {}
          IN Gathers(r, {}, [view[r] EXCEPT !.siblings = @ \ {s},
                                            !.body.links = @ \cup link])

MediaTags(refs) == {MediaTag(m) : m \in {n \in refs : assets[n] # Absent}}

LoadMedia(r) ==
  LET body == view[r].body
      refs == IF Url(r).kind = "document" THEN body.row.refs
              ELSE UNION {e.row.refs : e \in body.entries}
  IN /\ Todo(r) = {"media"}
     /\ Gathers(r, MediaTags(refs),
                [view[r] EXCEPT !.todo = {"response"}, !.body.alts = AltsOf(refs)])

(* Mistake: only the documents on the page are tagged, not the list. *)
TagsOfEntries(u, ds) == {ContentTag(d) : d \in ds}

ArchiveTags(u, ds) ==
  {ContentListTag(u.type, u.locale)} \cup {ContentTag(d) : d \in ds}

AfterArchive(u, todo) ==
  IF todo # {} THEN todo ELSE IF u.kind = "feed" THEN {"media"} ELSE {"response"}

LoadRows(r) ==
  LET u == Url(r)
      shown == OnPage(u, request[r].at)
  IN /\ "rows" \in Todo(r)
     /\ Gathers(r, ArchiveTags(u, shown),
                [view[r] EXCEPT !.todo = AfterArchive(u, @ \ {"rows"}),
                                !.body.entries = {Entry(d) : d \in shown}])

LoadTotal(r) ==
  LET u == Url(r)
      total == Cardinality(ListPublished(u, request[r].at))
  IN /\ "total" \in Todo(r)
     /\ Gathers(r, {}, [view[r] EXCEPT !.todo = AfterArchive(u, @ \ {"total"}),
                                       !.body.pages = PageCount(total)])

SitemapTags == {ContentListTag(type, locale) : type \in Types, locale \in Locales}

LoadEveryPublishedPath(r) ==
  /\ "paths" \in Todo(r)
  /\ Gathers(r, SitemapTags,
             [view[r] EXCEPT !.todo = {"response"},
                             !.body.entries = {Entry(d) : d \in ListPublishedPaths}])

(* A page number past the end is a 404. *)
PastTheEnd(r) ==
  /\ Url(r).kind = "archive"
  /\ Url(r).number > view[r].body.pages

Respond(r) ==
  /\ Todo(r) = {"response"}
  /\ IF PastTheEnd(r) THEN GiveUp(r)
     ELSE /\ \E life \in Lifetimes : Keep(r, life, view[r].body)
          /\ view' = [view EXCEPT ![r] = NoView]
          /\ UNCHANGED <<rows, assets>>

-----------------------------------------------------------------------------
(* Writes, as the content store commits them.                              *)

(* Slugs are unique within a type and a locale, languages and types within  *)
(* a group, and parents make a tree.                                        *)
WellFormed(contents) ==
  LET Row(d) == contents[d]
      there == {d \in Docs : Row(d) \notin {Absent, Deleted}}
      rooted[levels \in 0..MAX_ANCESTRY_DEPTH] ==
        IF levels = 0 THEN {}
        ELSE {d \in there : \/ Row(d).parent = None
                            \/ /\ Row(d).type \in HierarchicalTypes
                               /\ Row(d).parent \in rooted[levels - 1]
                               /\ Row(Row(d).parent).type = Row(d).type
                               /\ Row(Row(d).parent).locale = Row(d).locale}
  IN /\ there \subseteq rooted[MAX_ANCESTRY_DEPTH]
     /\ \A d, e \in there : d # e =>
          /\ <<Row(d).type, Row(d).locale, Row(d).slug>>
               # <<Row(e).type, Row(e).locale, Row(e).slug>>
          /\ Row(d).group = Row(e).group =>
               Row(d).type = Row(e).type /\ Row(d).locale # Row(e).locale

Commits(w, contents, tags) ==
  /\ WellFormed(contents)
  /\ rows' = contents
  /\ Write(w, tags)
  /\ UNCHANGED <<assets, view>>

CreateDocument(w, d, row) ==
  /\ rows[d] = Absent
  /\ Commits(w, [rows EXCEPT ![d] = row], PurgeContent(d, row))

SaveDocument(w, d, edit) ==
  /\ Exists(d)
  /\ rows[d][edit.column] # edit.value
  /\ Commits(w, [rows EXCEPT ![d][edit.column] = edit.value], PurgeContent(d, rows[d]))

(* The children become roots, and nothing is announced of them. *)
DeleteDocument(w, d) ==
  /\ Exists(d)
  /\ Commits(w, [e \in Docs |->
                   IF e = d THEN Deleted
                   ELSE IF Exists(e) /\ rows[e].parent = d
                        THEN [rows[e] EXCEPT !.parent = None]
                        ELSE rows[e]],
             PurgeContent(d, rows[d]))

UpdateAsset(w, m) ==
  /\ assets[m] # Absent
  /\ assets' = [assets EXCEPT ![m] = @ + 1]
  /\ Write(w, {MediaTag(m)})
  /\ UNCHANGED <<rows, view>>

(* Refused while a document uses it. *)
DeleteAsset(w, m) ==
  /\ assets[m] # Absent
  /\ \A d \in Docs : Exists(d) => m \notin rows[d].refs
  /\ assets' = [assets EXCEPT ![m] = Absent]
  /\ Write(w, {MediaTag(m)})
  /\ UNCHANGED <<rows, view>>

-----------------------------------------------------------------------------
(* What the constants stand for.                                           *)

GivenRows ==
  (Creations \cup UNION {{seed[d] : d \in Docs} : seed \in Seeds}) \ {Absent, Deleted}

(* What a column may hold: what a row is given there, then or by a save. *)
Given(column) ==
  {row[column] : row \in GivenRows}
    \cup {edit.value : edit \in {e \in Edits : e.column = column}}

RowSpace == [type: Types, locale: Locales, group: Groups, slug: Given("slug"),
             title: Given("title"), parent: Docs \cup {None}, status: Given("status"),
             date: Given("date"), refs: SUBSET Media]

Contents == [Docs -> RowSpace \cup {Absent, Deleted}]

(* A save keeps the type and the locale of its row; its group changes when  *)
(* it joins another, which is not among the writes here.                   *)
IsSave(edit) ==
  /\ edit.column \in {"slug", "title", "parent", "status", "date", "refs"}
  /\ edit.column = "parent" => edit.value \in Docs \cup {None}
  /\ edit.column = "refs" => edit.value \in SUBSET Media

(* The routes that are cached. A type at the root of a locale has no        *)
(* archive and no feed, and the one that nests is there.                   *)
IsRoute(u) ==
  \/ /\ u.kind = "document"
     /\ u.type \notin HierarchicalTypes => u.path = <<Slug(u)>>
  \/ /\ u.kind \in {"archive", "feed"}
     /\ u.type \in Types \ HierarchicalTypes /\ u.locale \in Locales
     /\ u.number \in Nat /\ (u.kind = "feed" => u.number = 1)
  \/ u.kind = "sitemap"

(* What a page may say. *)
ShownRow == [id: Docs, locale: Locales, group: Groups, slug: Given("slug"),
             title: Given("title"), date: Given("date"), refs: SUBSET Media]

EntryOfPage ==
  [row: ShownRow,
   url: [kind: {"document"}, type: Types, locale: Locales, path: Seq(Given("slug"))]]

PageBodies ==
  [row: ShownRow \cup {None},
   path: Seq(Given("slug")) \cup {u.path : u \in {k \in Keys : k.kind = "document"}},
   links: SUBSET EntryOfPage, entries: SUBSET EntryOfPage, pages: Nat,
   alts: SUBSET (Media \X Nat)]

ASSUME SiteAssumption ==
  /\ Docs \in SUBSET Nat /\ IsFiniteSet(Docs)
  /\ None \notin Docs /\ Absent \notin Nat
  /\ MAX_ANCESTRY_DEPTH \in Nat \ {0} /\ PER_PAGE \in Nat \ {0}
  /\ Absent \notin RowSpace /\ Deleted \notin RowSpace
  /\ None \notin PageBodies
  /\ Given("date") \subseteq Int
  /\ Creations \subseteq RowSpace
  /\ \A seed \in Seeds : seed \in Contents /\ WellFormed(seed)
  /\ \A edit \in Edits : IsSave(edit)
  /\ \A u \in Keys : IsRoute(u)
  /\ EveryTag \subseteq Tags

-----------------------------------------------------------------------------
(* The specification.                                                      *)

SiteInit ==
  /\ CacheInit
  /\ rows \in Seeds
  /\ assets = [m \in Media |-> 0]
  /\ view = [r \in Requests |-> NoView]

Answers(r) ==
  \/ LoadDocument(r) \/ LoadAncestry(r) \/ LoadTranslations(r) \/ ResolveSibling(r)
  \/ LoadMedia(r) \/ LoadRows(r) \/ LoadTotal(r) \/ LoadEveryPublishedPath(r)
  \/ Respond(r)

Changes(w) ==
  \/ \E d \in Docs, row \in Creations : CreateDocument(w, d, row)
  \/ \E d \in Docs, edit \in Edits : SaveDocument(w, d, edit)
  \/ \E d \in Docs : DeleteDocument(w, d)
  \/ \E m \in Media : UpdateAsset(w, m) \/ DeleteAsset(w, m)

SiteNext ==
  \/ \E r \in Requests, u \in Keys : Get(r, u)
  \/ \E r \in Requests : Answers(r) \/ GiveUp(r)
  \/ (\E w \in Writers : Changes(w))
  \/ (\E w \in Writers : Purge(w) \/ Lose(w)) /\ UNCHANGED <<rows, assets, view>>
  \/ (Valkey \/ Quiet) /\ UNCHANGED <<rows, assets, view>>

SiteSpec == SiteInit /\ [][SiteNext]_siteVars

-----------------------------------------------------------------------------
(* Properties.                                                             *)

Now(k) == valkey.page[k].body

(* A purge that concerns the page is on its way, or was lost. *)
PurgeIsDue(k) == valkey.page[k].tags \cap Due # {}

Current(k) == Cached(valkey, k) => PurgeIsDue(k) \/ Now(k) = Rendered(k)

OfATree(u) == u.kind = "document" /\ u.type \in HierarchicalTypes

(* Whatever interleaving of queries, writes and purges made it, a cached   *)
(* page that shows no path through a tree is what rendering it now would   *)
(* give, or a purge of one of its tags is due: the tags its queries        *)
(* collected cover everything that changed (ARCHITECTURE.md, "every        *)
(* document, listing and asset the page actually read is recorded").       *)
SiteIsCurrent == \A k \in Keys : ~OfATree(k) => Current(k)

(* A cached page of a tree shows its document, its translations and its    *)
(* assets as they are, or a purge is due; its path is another matter.      *)
TextIsCurrent ==
  \A k \in Keys : OfATree(k) /\ Cached(valkey, k) =>
    LET d == Now(k).row.id IN
    \/ PurgeIsDue(k)
    \/ /\ PubliclyVisible(d, clock)
       /\ Now(k).row = Shown(d)
       /\ {link.row : link \in Now(k).links}
            = {Shown(e) : e \in ListPublishedTranslations(rows[d].group)}
       /\ Now(k).alts = AltsOf(rows[d].refs)

(* What is cached is current, or about to be purged: pages outside a tree  *)
(* as a whole, those of a tree but for their path (store.ts, purge.ts).    *)
PagesAreCurrent == SiteIsCurrent /\ TextIsCurrent

(* Every page, those of a tree included, is purged the moment the content  *)
(* behind it changes (README.md, the page cache).                          *)
TreesAreCurrent == \A k \in Keys : Current(k)

(* Every link the site would print leads to a page: the entries of a list  *)
(* or the sitemap and the translations of a document resolve, at their own *)
(* canonical path (content.ts, "an hreflang that answers 404 is worse than *)
(* a missing one").                                                        *)
LinksResolve ==
  \A u \in Keys :
    LET page == Rendered(u)
    IN page # None =>
         \A entry \in page.entries \cup page.links : Rendered(entry.url) # None
=============================================================================
