# PressLabz: a verification project

TLA+ models of PressLabz, a self-hosted publishing system (an API over
PostgreSQL, Valkey and an object store; a public site; an administration
interface), with the TLC configurations that check them on small instances and
TLAPS proofs of what matters most for every instance.

1. [The system](#the-system)
2. [Modules](#modules)
3. [The content store](#the-content-store)
4. [The page cache](#the-page-cache)
5. [The public site](#the-public-site)
6. [Media](#media)
7. [Reconciliation](#reconciliation)
8. [Hooks](#hooks)
9. [Services](#services)
10. [Sessions, quotas and accounts](#sessions-quotas-and-accounts)
11. [The administration interface](#the-administration-interface)
12. [Runs](#runs)
13. [Fairness](#fairness)
14. [What the code does not do](#what-the-code-does-not-do)
15. [Proofs](#proofs)
16. [Not modelled](#not-modelled)

## The system

| Part | State it keeps | Operations | What makes it correct |
| --- | --- | --- | --- |
| Content repository (`packages/db/.../contents.ts`) | documents, translation groups, revisions, references to media, all in PostgreSQL | create (opening or joining a group), save, restore, delete, publish what is due | no lost save; pages form a forest no deeper than a path; a group exists while it has members; revisions record every superseded state; nothing is published without the right to; no reference to an asset that is gone |
| Authorization (`packages/core`) | none | may this actor read, write, delete, publish, join | one decision for each question, on the row as it is |
| Content routes and scheduler (`apps/api/src/content`) | a running flag | requests, a pass every interval | decisions inside the transaction, events after it |
| Hooks (`packages/core/src/hooks.ts`) | registrations | emit, apply | a failing or slow handler harms nobody else |
| Page cache (`packages/cache`, `packages/modules`) | pages, tag sets and purge stamps in Valkey | look up, store, purge, clear | a page rendered before a purge is never stored after it |
| Public reading (`public-contents.ts`, `apps/web/src/data`) | none | resolve a path, list an archive | only what is public is served; every page is tagged with what it shows |
| Media library (`apps/api/src/media`, `media.ts`) | rows, objects, orphans | upload, edit, delete, sweep | no row without its objects; every object without a row is eventually removed |
| Reference reconciliation (`media-references.ts`) | a marker row | reconcile | once it says ready, the mirror is exact |
| Upload admission (`admission.ts`) | permits, a queue | acquire, release, time out, abort | never more than the permits, none lost or idle, everybody who waits answered |
| Object store provisioning (`storage.ts`, `storage-init.ts`) | the bucket, its policy | look, create, allow, write, check | an existing bucket is never modified |
| Rate limiting (`valkey-store.ts`, `client-ip.ts`, `app.ts`) | counters in Valkey | count, refuse or let through when the store fails, resolve the client | logins stay within their quota, and what a restart of Valkey forgets of it, whatever fails; a request is counted as who sent it |
| Health (`health/`) | one probe in flight per dependency, last states | probe, report | one probe at a time, every answer within its budget, every lasting change reported |
| Sessions and accounts (`apps/api/src/auth`, `sessions.ts`, `users.ts`) | sessions, users | log in, renew, log out, sweep, create the first administrator | what was signed out stays out; one first administrator |
| Administration interface (`apps/admin`) | a draft and the version it came from, a query cache, preferences, descriptions, listings | load, edit, save, restore, describe, choose, page | late answers never replace newer work; what is said to be saved is |
| Blocks (`packages/blocks`) | none | edit the text, items and order of blocks | what is typed is kept, marks stay, identities are distinct |

They interact through PostgreSQL (every part), through the hooks (a write
announces events after it commits, and the cache and any module listen),
through Valkey (pages, counters), through the object store, and, in the
browser, through requests whose answers come late, out of order or never.

What is hard here is concurrency through the database. Every write is a READ
COMMITTED transaction that locks rows one statement at a time, several API
processes run the same code, the scheduler of each publishes on its own, and
correctness rests on which row is locked before which read. After that come the
gaps between systems that share no transaction: a commit and its announcement,
a page rendered from a read that a write has overtaken, an object stored for a
row that is never inserted. In the browser it is a form that outlives the query
it was filled from.

## Modules

| Module | Models |
| --- | --- |
| `Access` | the authorization rules, as operators |
| `ContentStore` | the content repository, the routes that write and the scheduler's pass, one action per SQL statement that can wait |
| `Documents` | the abstract promise: documents written one atomic operation at a time |
| `MCContentStore` | seeds, patches and creations for TLC |
| `ContentStoreProofs` | the inductive invariant of `ContentStore`, what each commit writes, and the theorems that gives |
| `DocumentsProofs` | groups, histories and trees of `ContentStore`, and that it implements `Documents` |
| `PageCache` | the three Valkey scripts, the site's middleware, the API's purges, expiry, snapshots and `clear()`, over abstract tags |
| `MCPageCache` | constants for TLC |
| `PageCacheProofs` | the inductive invariants of `PageCache` and of `PublicSite` over it, and the theorems they give |
| `PublicSite` | what each route reads and tags, what each write purges |
| `Admission` | the gate in front of uploads |
| `Library` | uploads, deletions, orphans and their sweep, against the object store |
| `Reconciliation` | the pass that fills `content_media`, its marker and the servers that read it |
| `Hooks` | the registry: filters, actions, timeouts |
| `ObjectStore` | the bucket, its provisioning and what a server finds |
| `Health` | the probes and their report |
| `Sessions` | sessions, the browser's cookie and the interface's idea of who is signed in |
| `RateLimit` | counters, failing stores, clients behind proxies |
| `Accounts` | the first administrator; the memory of what was reported |
| `Editor` | the editor with its queries and writes, its picker and its history |
| `Preview` | links to a preview: asked for, copied, opened |
| `Paging` | a listing read page by page while it changes |
| `Preferences` | the theme and the language, on the device and on the account |
| `Descriptions` | the alternative texts of an image, edited by several people |
| `Blocks` | the editing operations on blocks |
| `AccountsProofs` | theorems of `Sessions`, `RateLimit` and `Accounts` |
| `LibraryProofs` | theorems of `Admission` and `Library` |
| `UpkeepProofs` | theorems of `Reconciliation`, `Health` and `ObjectStore` |
| `EditorProofs` | theorems of `Editor` and `Blocks` |
| `AdministrationProofs` | theorems of `Descriptions`, `Preview`, `Preferences`, `Paging` and `Hooks` |
| `MCPublicSite`, `MCAdministration`, `MCUpkeep`, `MCServices`, `MCAccounts`, `MCEditor` | constants and scenes for TLC |

`ContentStore` extends `Access` and instantiates `Documents` under a refinement
mapping; `MCContentStore` and `ContentStoreProofs` extend `ContentStore`, and
`DocumentsProofs` extends `ContentStoreProofs`.
`PublicSite` extends `PageCache` and runs its actions underneath its own;
`MCPageCache` extends `PageCache`, `MCPublicSite` and `PageCacheProofs` extend
`PublicSite`. `Library` extends `Admission`: an upload holds its permit from the
gate to its last await.

The other modules of proofs extend the modules they are about; where two of
those have names in common, as in `UpkeepProofs` and `AdministrationProofs`,
they instantiate them over variables of their own, each under its own names.

Several modules that do not touch each other's state are checked by one run: an
`MC` module holds them side by side as scenes, each behaviour plays one scene
and leaves the rest as they began. A scene is exactly the module's own
specification; nothing is lost but the product of states that do not interact.

## The content store

**State.** `rows`, `groups`, `uses`, `revisions` and `media` are the committed
tables (`contents`, `translation_groups`, `content_media`,
`content_revisions`, `media`). `born` holds the ids handed out: a uuid is never
used twice, and a revision may name a parent long gone. `rowLock` and
`groupLock` are the FOR UPDATE locks. `tx` has one record per connection, what
the function running on it has in its variables; `ticks` orders the starts of
transactions, which is what `now()` and therefore `created_at` report; `now` is
the wall clock publication dates are compared with. A document's state keeps
the fields the properties tell apart: slug, status, publication date, parent,
and the assets it uses. Title, excerpt, blocks and metadata behave as the slug
does and are left out.

**Steps.** A step is what happens between two points where the code can wait
for another transaction: a lock granted with the reads and decisions made under
it, or a commit. A save is `OpenForm` (the editor reads the document),
`BeginUpdate`, `LockForUpdate` (the row lock, the version, the merge, the
validation, the authorization), `LockAncestor` for each ancestor when the
document moves, `MeasureHeight`, `CommitUpdate`, and `Announce` for each event.
A creation, a restore, a deletion and a publish pass are laid out likewise.
Writes appear at the commit: READ COMMITTED hides them until then, and each row
written is locked before the decision. A refusal ends the transaction
and releases its locks. `Abort` is a crash, a lost connection or a client that
leaves, at any step; in the announce step it loses the events that were left.

**PostgreSQL.** A statement that locks several rows (`LockChild`, `Claim`)
locks them one by one, re-evaluates its condition on each once the lock is
granted and keeps the lock on a row it then leaves out. The publish pass orders
its rows by its own snapshot. Unique, foreign key and check constraints are
`ConstraintsHold` at the commit: of two transactions that conflict the second
to commit is refused, where PostgreSQL makes it wait for the first and then
refuses it. Deadlock detection is `BreakDeadlock`, which may fail any
transaction of a cycle of waiting ones. The KEY SHARE locks of foreign
keys are not modelled; FOR UPDATE locks are the ones the code takes on purpose.

**Abstraction.** `Documents` says what a reader of the repository's comments
expects: a creation, a save, a removal or a publication is one step, permitted
on the documents as they are in that step, that leaves them sound (unique slugs
and languages, parents of the same kind, paths that end, references that
exist). The mapping forgets connections, locks and the times of revisions;
`asking` is the users of transactions about to commit, so that a write is
attributed to one who asked for it.

## The page cache

**State.** `valkey` is what Valkey holds: for each page its payload, its own
list of tags, for each tag the set of pages that carry it and the stamp of its
last purge, each with the time it expires. `saved` is the snapshot it restarts
from. `request` is the render behind each reader: the clock its look-up
returned, the tags collected so far. `outbox` holds, for each writer of the
API, the tags of a commit whose purge has not run. `version` counts the changes
of what a tag stands for and a page keeps the versions it was read under
(`seen`): that is how "stale" is said. `lost` and `unsaved` remember which
purges never arrived, or arrived after the snapshot.

**Steps.** A script is one step, because Valkey runs it alone: `Miss` (look-up),
`Keep` (the middleware's conditions, then the store script), `Purge`. Between
the first two, `Read` is a query of the render. `Write` is a commit, `Purge` its
handler, and anything may happen between. `Lose` is a process that dies or a
purge that fails: it is reported and not sent again. `Expire` removes what is
past its time; sets whose last member is removed disappear. `Restart` loads the
snapshot and drops what has expired meanwhile, `Unlink` is one key of one batch
of `clear()`.

**Time.** The clock is Valkey's; steps share an instant as they share a
millisecond, so that a purge and a look-up may tie. A render ends within
`RenderLimit` of its look-up, which is at most `StampTtl`: `store.ts:79` says so
of the stamp ("It only has to outlive a render"), and it is the one assumption
about time. `Lifetimes` are the values of `PAGE_CACHE_TTL_SECONDS` in use; the
environment overrides the build, so instances may differ.

## The public site

**State.** `rows` are the documents as far as a page shows them, `assets` the
alternative text of each asset, `view` what each render has gathered. A cache
key is an address: a document's path, a page of an archive, a feed or the
sitemap.

**Steps.** Each query of a route is a step, in the order the route awaits it,
and reads the rows of that moment: `LoadDocument`, `LoadAncestry`,
`LoadTranslations`, `ResolveSibling` (one query per sibling, in any order),
`LoadMedia`; `LoadRows` and `LoadTotal` in either order; `LoadEveryPublishedPath`.
Each collects the tags the code collects there, and a 404 or a redirect is
`GiveUp`. Writes are single steps, as `ContentStore` shows them to be, and put
in the outbox the tags `cache-invalidation.ts` purges for their events. An edit
that is announced twice is purged twice with the same tags; the model purges it
once.

**What is compared.** `Rendered(u)` is the page at `u` as the rows stand now,
written from the queries as one function. A cached page is current when its
body is that, and the properties ask that every cached page be current or have
a purge due of a tag it carries. Nothing in them mentions which tags a
route ought to collect.

**Abstraction.** Slug, status, date, parent, title (for everything a page
prints of its own row) and the assets a row uses. The site's clock and Valkey's
are one. Routes are given by kind and type rather than parsed from a string.

**What the constants may be.** `SiteAssumption` says which databases, saves and
routes there are: ids are naturals and finitely many; a run starts from contents
that the constraints of `contents` admit (`WellFormed`), a save keeps the type,
the language and the group (`IsSave`), an archive or a feed is of a flat type
(`IsRoute`). `PageBodies` is what a page may then say, and the configurations
give it to the cache as the payloads it may store.

## Media

**State.** `Admission`: permits in use, the queue and where each request is.
`Library`: `step` of each upload's handler, `owed` the puts whose promise has
not settled, `written` the keys the handler remembers, `flight` the puts the
store may still carry out, `objects` what it holds; `rows`, `orphans` and `used`
are the tables; `deletion` is where each DELETE is and `sweep` what the running
pass has left to try.

**Steps.** An upload enters, waits, is refused or gives up at the gate. Both
puts are sent at once; the first that is rejected settles `Promise.all`, and the
other may still be carried out. The insert may fail; what was written is then
noted and removed. A deletion asks who uses the asset, deletes row and notes
objects in one transaction, removes the objects and forgets those that are gone.
The sweep takes the oldest, one at a time, and carries on after a failure.
`Crash` empties what the process had in memory and nothing else.

**Descriptions.** The field keeps one buffer per language and sends one patch
when it is left; the server locks the row, decides by its owner, merges. The
owner's account may be deleted before, between and after.

## Reconciliation

One action per statement of the pass: the marker's lock, the lock on
`contents`, the two reads, the inserts and deletions, the marker, the commit.
Writers save beside it and are held back by the table lock where PostgreSQL
would hold them; a pass is interrupted anywhere; a second one runs at the same
time; servers boot on the marker and keep what they read.

## Hooks

Handlers are registered and removed while a value goes through the filters and
an event is told. A handler returns, returns nothing, throws or never settles;
`Deadline` is its timeout. Filters go one by one by priority, a failed one
leaves the value it was given; actions are told together and the emission ends
when the last has settled.

## Services

`ObjectStore` runs `storage:init` twice, under grants that lack a permission,
against a bucket that is missing, there, or somebody else's, with the operator
changing it meanwhile; each question it asks may be refused or fail.
`Health` has dependencies that fail, hang and return, requests that share the
one operation in flight of a probe, and the budget after which each is answered
without it.

## Sessions, quotas and accounts

`Sessions` has one browser with overlapping requests: the cookie is what the
last answer to arrive said. A request is served in three steps (look-up,
renewal, answer), with sign-outs and expiry between; answers arrive in any order
or never; `Shows` is what the interface believes. A token is used once, and time
counts in fractions of a session's life. `RateLimit` counts through two
instances into one Valkey that fails before or after a command, saves its
counters now and then (`StoreSaves`, `--save 60 1`) and restarts from what it
saved last (`StoreRestarts`, `--appendonly no`): the sign-ins it had counted
since are gone from the counter and come to stand in `forgotten`, which counts
what the window lets through beyond its quota. The address of a client comes from
the socket, the forwarded header or the configured one, through proxies and
forgeries. `Accounts` creates the first administrator from two processes, of
which one may die before its COMMIT (`Abort`) or never hear of it (`Commit` with
the answer lost: the row is there and the command reports a failure), and bounds
the memory of reported rows.

## The administration interface

**Editor.** `row` and `revisions` are the document, `cache` the document query,
`page` the draft with what it was seeded from and how the screen may be left,
`save` and `restore` the two mutations, `wire` the writes sent: what each
carried, what the server answered and whether that was heard. `upload` is the
picker with the draft its callback closed over, `panel` the history with what is
selected, loaded, asked and said. A text is the set of edits it contains, so
that "lost" can be said of each. A colleague writes at any moment; answers are
late or lost; a deadline passes while its write is still to be executed; a
refetch may begin whenever the screen is there, because the connection came back or
a write invalidated the query (`main.tsx:15` turns refetching on focus off). A
write paused while the browser is offline, for which no deadline runs, is left out.

**Preview.** Links are minted for the document as it is, carry their own
expiry, are copied by a promise that settles later, and are opened on a site
that reads the document then. **Preferences** follows a choice through state,
cookie, document and account, with another device of the same person.
**Paging** is the keyset query over rows that come, go and move between two
pages, with timestamps finer than the cursor's milliseconds. **Blocks** applies
the editing operations to short texts over two characters and two marks; a
field changes by any replacement, as a field's `onChange` may report.

## Runs

| Run | Scenes and bounds | Shows |
| --- | --- | --- |
| `Content` | *tree*: three pages in every shape of at most three levels, room for a fourth, two transactions among moves, creations and deletions. *groups*: three documents, two groups, three languages (English is not added to), two types, an editor and a contributor, three transactions among joins, creations and deletions. *versions*: one document, the two of them, two revisions kept, four transactions among saves, restores and publish passes, the clock moving once | no cycle, no chain too long; a group exists exactly while it has members and a join is judged on the members there are at its commit; no lost save, no publication without the right to, exact revisions and events, nothing a save replaces lost; the refinement of `Documents` |
| `References` | one page, room for two more, one asset, two levels, three transactions among saves, moves, restores, creations and deletions, and the deletion of the asset | no dangling reference and an exact mirror; every transaction ends, the crossed moves included |
| `Cache` | two pages, two tags, two renders, one write, one restart, lifetimes 1 and 2, stamps 1 | a purge finds every page it concerns; a stale page has a purge due, or one that was lost or that the snapshot does not know |
| `Backstop` | one page, two renders, one write, one restart, one clear, lifetimes 1 and 3 | no page is stale for ever |
| `Site` | *posts*: three posts in two languages, one asset, an archive of one post a page, a feed, two requests that miss, of the same page if the first was kept. *tree*: four pages in two trees, the sitemap, one request. Two writes in each | a cached page says what it would say now, but for the addresses in a tree, or is about to be purged; every link leads to a page |
| `Administration` | *library*: three uploads, one permit, one place to wait, one restart, a stuck object, two renditions, a batch of two. *listing*: three rows, a page size of one, two instants. *descriptions*: an author and an editor, two languages, two patches. *blocks*: two ids, two characters, two marks, texts of three, two runs, two blocks. *preferences*: one person, two choices, one made on another device | the gate, the library, the listing, the descriptions, the blocks and the preferences keep what they promise |
| `Upkeep` | *references*: two documents, two assets, two passes, a server, a writer, one interruption. *library*: two uploads, one rendition, as above. *hooks*: two handlers, three registrations | what the reconciliation says is so; what must end ends: a repeated reconciliation, an upload, a sweep, an emission |
| `Services` | *bucket*: two passes, three sets of grants. *health*: two requests, three probes, five outages | no bucket but one just created is opened; health answers in time, from one operation at a time, and reports every lasting change |
| `Accounts` | *sessions*: one user, two tokens, two requests, three instants of a life of two. *limits*: two instances, a visitor, a stranger, two proxies, a quota of two, windows of two; one sign-in forgotten, where clients are told by the socket. *accounts*: two processes, four rows, room for two | what was signed out stays out; quotas hold but for what restarts forget, and come back; one first administrator |
| `Editor` | *history*: one edit of the author's, one of a colleague's, three versions, two writes. *picker*: the same without the colleague. *preview*: two documents, two links, one instant | late answers, deadlines and refetches take no typed word and tell no lies, and nothing unsaved is left unasked; links are copied, shown and honoured as said |
| `StaleDraft`, `MovedTrees` | the bounds of `Editor` and of the *tree* of `Site` | the two findings below |

`Content` and `References` lower `MAX_HIERARCHY_DEPTH` (8) and `REVISION_LIMIT`
(50), so that the limits are reached; `Administration` does so with the page
size and the batch of the sweep.

**Properties with parts.** A module that has several invariants states one
conjunction of them, and each part has its own comment beside it:

| Property | Parts |
| --- | --- |
| `StoreHolds` | `PathsResolve`, `GroupsLive`, `RevisionsCounted` |
| `HistoriesHold` | `RevisionIsWhatWasSuperseded`, `ReplacedIsKept` |
| `PagesAreCurrent` | `SiteIsCurrent`, `TextIsCurrent` |
| `GateHolds` | `PermitsCounted`, `WaitersQueued`, `NoIdlePermit` |
| `AssetsHold` | `RowsAreStored`, `RowsAreNotOrphans` |
| `ObjectsStayListed` | `DeletionsAreListed`, `NotesOutliveObjects` |
| `UploadsEnd` | `WaitersAnswered`, `PermitsReturn`, `OrphansCleared` |
| `ListingsHold` | `PagesFollow`, `SteadyRowsAreShown` |
| `DescriptionsHold` | `DescribesItsLanguage`, `OthersWordsStay`, `OwnersDecide` |
| `PreferencesHold` | `OnePath`, `FollowsThePerson` |
| `EditsHold` | `IdsDistinct`, `TypedIsKept`, `MarksStay`, `NoSeams` |
| `MirrorHolds` | `ReadyMeansMirrored`, `ServedMeansEnforced` |
| `HooksHold` | `FiltersAgree`, `ToldBeforeAnswered`, `HooksReturn` |
| `HealthHolds` | `SingleFlight`, `ChecksReturn`, `OutageReported`, `RecoveryReported` |
| `SessionsHold` | `SignedOutIsOver`, `UseProlongs` |
| `SessionsSettle` | `ExpiredAreSwept`, `InterfaceAgrees` |
| `ClientsHold` | `CountedAsItself`, `ProxiesAreNoClients` |
| `AccountsHold` | `OneFirstAdministrator`, `SilenceIsBounded` |
| `OutcomesHold` | `SavedIsTrue`, `OutcomeBelongs` |
| `WorkIsKept` | `NothingLeftBehind`, `TypedStays`, `LateWritesLose` |
| `LinksHold` | `CopiedIsTrue`, `LinkIsItsOwn`, `ADelegatedRead` |

Each property is broken by a small mistake planted in a definition that models
the code (the operators marked "Mistake" or "Mutant" beside what they stand in
for).

**Why the bounds are enough.** Two connections cross in every way two can, a
third and a fourth transaction come before or after them, three levels are
enough for a chain to be at, above and below the limit, and two revisions for
the prune to have something to choose from. Two renders and a write between
them are what it takes for a store to overtake a purge; two tags, for a page to
change its tags; a lifetime of two, for a set to be joined twice before it
expires. The site's run renders one page at a time, since what two renders do
to each other happens in the cache, and gives pages and stamps no lifetime
beyond an instant, because lifetimes are `PageCache`'s subject: within it every
interleaving of queries, writes and purges is there. One permit and one place to
wait make the third upload the one that is refused; two keys of one asset are
what a half failure needs. One edit and one colleague's edit are a conflict, and
two writes are what it takes for an answer to be late. Two passes and a writer
are all that meet in a reconciliation. `Inserting` leaves the lost answer of
an insert out (see below). One forgotten sign-in is what it takes for a window to
let more than its quota through; restarts are told apart in socket mode only, since
what they forget has nothing to do with how a client is named. The cache's clock
has no bound: time passes while something is still to expire.

**Deadlock.** `Quiet` and its like are the only step of a system whose requests
have all been answered, and everything else that cannot move is an error, where
`CHECK_DEADLOCK` stays on. It is off in `Administration`, `Upkeep`, `Editor` and
`StaleDraft`, which bound what people do and have no such step: when every
upload is over and everything allowed has been typed, nothing is left to do.
That what must end does end there is what `UploadsEnd`, `ReadyInTheEnd`,
`HooksHold` and `WritesSettle` say instead.

## Fairness

`References` assumes weak fairness of `Proceed(t)` for each connection: a
statement whose lock is free runs, an event is emitted, and PostgreSQL's
deadlock detector breaks a cycle. That is what a live process and a live server
do. Nothing obliges a client to send a request, the scheduler to find something
due, or a process to die (`Abort` has no fairness). Weak fairness is enough
because a waiter's lock, once released, is taken only by a transaction that is
itself obliged to end, and the number of transactions is bounded.

`Backstop`: weak fairness of `Tick`, a clock that goes on, and of `Ends(r)`, a
render that finishes or fails. Neither purges nor writers are fair:
`StalenessEnds` holds without any purge arriving. Time is held back only by a
render at its limit, which fairness makes end.

`Upkeep`, reconciliation: a pass that can go on goes on, PostgreSQL queues lock
requests so that `LOCK TABLE` gets its turn among saves (strong fairness),
saves commit, and the operator repairs what the command reported and runs it
again, in the end with one build. Nothing keeps a pass from being interrupted
once. Library: the waiter's timer fires, every await of a handler settles
(except the put nobody awaits any more after the first has failed), sweeps keep
starting; the store agrees again and again to delete what is not stuck, and
PostgreSQL to note a failure, hence strong fairness. A stuck object is never
deleted, and `OrphansCleared` is about the others. Hooks: timers fire and the
registry goes on. No handler is obliged to settle.

`Services`: health is asked for again and again, timers fire, and an operation
settles once its dependency answers, whatever it did in between (strong). No
dependency is obliged to come back; `RecoveryReported` is about one that does.

`Accounts`: a server works off its requests; the sweep's timer fires, and its
DELETE ends and succeeds sometimes (strong): a sweep that hangs for ever is not
covered, see below; the windows of the limiter pass. Nobody is obliged to ask who is
signed in, nor is an answer to arrive: `InterfaceAgrees` is about an interface
that goes on asking and hearing, which is its premise. `Editor`: of each write
either the answer arrives or its deadline passes.

## What the code does not do

Two runs expect a violation. Each states what the repository says, and finds
a behaviour of the code that contradicts it.

* `StaleDraft`. `content-editor.tsx:265` says that a save carries what its edit
  was composed against, so that the server refuses one that would replace work
  its author never saw. The draft is seeded once, and the version is read from
  the query's cache when the save is sent: a refetch, when the connection comes
  back, the screen is mounted again or a write invalidates the query, brings a
  colleague's version in under the old draft, the server finds the versions
  equal, and the colleague's work is replaced. A restore reads its version in
  the same way.
* `MovedTrees`. `README.md:23` says pages are purged the moment the content
  behind them changes. The ancestors a path is made of are read without a tag:
  rename one and the pages below it stay cached at their old addresses.

Met while modelling, and without a run of their own.

In the database: `contents.ts:1131` says that of two moves, A under B and B
under A, one waits and then finds itself in the other's tree; `updateContent`
locks the document that moves before the parent, so each holds what the other
waits for and PostgreSQL fails one of them (40P01), an error no handler
translates. `README.md:25` promises the last fifty revisions; the prune keeps the
newest by `created_at`, the start of the transaction that wrote them
(`contents.ts:1047`), so a publish pass that began before two saves and waited
for the row writes the newest revision with the oldest date, its own prune
removes it and an older one stays: the history has a gap. A save cannot do this:
the version its form names would have been overtaken (`ReplacedIsKept`).
Two publish passes whose snapshots
straddle a change of dates lock the same rows in opposite orders
(`contents.ts:846` says one order is common to both). The deletion of a page
rewrites its children without a version (`docs/ARCHITECTURE.md:463`). A document
created published is announced by `content:created` alone (`hooks.events.ts:47`).

In the cache and the site: `store.ts:200` says tag sets outlive the pages in
them; `EXPIRE` replaces a set's lifetime, so after `PAGE_CACHE_TTL_SECONDS` is
lowered by more than the stamps' fifteen minutes a store shortens sets under
pages that have longer to live, and a purge no longer finds those. A route's
`maxAge` decides whether its pages are kept and not for how long
(`runtime.ts:10`, `astro.config.ts:59`). A published page under a draft is
served and missing from the sitemap (`sitemap.xml.ts:12`). A row stored as
published with a later date appears without a write, so no list is purged for it.

In the library: when the first put fails, the handler notes and deletes what was
written while the other put may still be carried out, and what that one writes
is listed nowhere (`media/routes.ts:304`); an insert whose answer is lost is
taken for a failure, and the objects of an asset that exists are deleted;
`deleteObjects` reads no per-key error. Fifty or more objects that cannot be
deleted fill every batch of the sweep. Timestamps carry microseconds and a
cursor milliseconds (`cursor.ts:12`): a row that shares its millisecond with the
last row of a page is on no page, though `cursor.ts:10-16` has the id break the tie
so that none is lost; that is the exception `SteadyRowsAreShown` makes.

In the sessions: a sweep whose query never ends leaves the flag of `cleanup.ts:47`
set, and no later one runs until the process is restarted; the query has no timeout.
`auth/plugin.ts:216` says the interface polls every minute per open tab;
`useSession` has no interval and `main.tsx:15` turns refetching on focus off. It
asks when it is mounted and its answer is over a minute old, or on reconnect, so
a session that has ended, or an `/auth/me` answered after a sign-out, stays on
the screen until then. `InterfaceAgrees` asks no more than that it is then put right.

In the interface: the effect at `app.tsx:30` puts back the session's old
preference until the PATCH of a new one is answered
(`theme-switcher.tsx:19` says the choice applies at once); PATCHes answered out
of order and a late `/auth/me` do the same. A picker closes over the draft that
was there when it was opened, so what is typed while an upload lasts is
replaced when it is inserted (`content-editor.tsx:389`). A field's buffer of a
description is never cleared, and two patches sent by two blurs may arrive in
the other order. The copy of an earlier panel's link may reach the clipboard
late, and an expired link is still shown. A save answered while the form has
moved on leaves the screen on `/new`; a creation whose answer was lost is
refused as a slug that is taken when it is sent again. `toLocalInput` drops the
seconds of a date. Splicing a text cannot tell which of several equal characters
was typed, and may split a surrogate pair. The refusal `locale-not-served` has
no sentence in `REASON_MESSAGES`. In the hooks, a `report` that throws makes
`emit` reject, and a handler that blocks or returns a thenable that is not a
Promise is not timed.

## Proofs

Each theorem is of a specification without fairness, for any values of the
constants that satisfy the assumptions named; what it takes beyond them is a
premise of the theorem. TLC evaluates the assumptions on every run. The pattern
is the same throughout: an inductive invariant, one lemma for each action that
keeps it, and the property from it.

### The content store

`ContentStoreProofs` and `DocumentsProofs` prove, for any documents, users,
groups, connections and limits, from `ContentAssumption` (ids are naturals and
finitely many, the special values are distinct from the ids, limits are
positive) and `SeedsAssumption` (a run starts from documents as their creation
left them: rooted in a tree, in first versions, unlike in what the unique
indexes cover):

| Theorem | Property |
| --- | --- |
| `TypesHold` | `TypeOK` |
| `Invariance` | the inductive invariant `Inv` |
| `NoUpdateIsLost` | `NoLostUpdate` |
| `PublishingIsAuthorized` | `PublishAuthorized` |
| `OnlyTheDueIsPublished` | `PublishesOnlyTheDue` |
| `RevisionsAreOfTheRowSuperseded` | `RevisionIsWhatWasSuperseded`, a part of `HistoriesHold` |
| `ReferencesAreHeld` | `ReferencesHold` |
| `VisibilityIsTold` | `VisibilityIsAnnounced` |
| `GroupsLiveWithTheirMembers` | `GroupsLive`, a part of `StoreHolds` |
| `JoinsSeeTheirGroup` | `JoinSeesItsGroup` |
| `HistoriesAreCounted` | `RevisionsCounted`, a part of `StoreHolds` |
| `SavesKeepWhatTheyReplace` | `ReplacedIsKept`, a part of `HistoriesHold` |
| `HistoriesAlwaysHold` | `HistoriesHold` |
| `PathsAlwaysResolve` | `PathsResolve`, a part of `StoreHolds` |
| `StoreAlwaysHolds` | `StoreHolds` |
| `StoreImplementsDocuments` | `AtomicDocuments`: `ContentStore` implements `Documents` |

None of these is inductive: each speaks of what was read several steps ago.
`Inv` carries it across:

* `Known`: a document that exists has been born, which is why no creation can
  bring back the id an older form names.
* `Shape(t)`: at each step of the code, the fields of the record it has filled.
* `Protected(t)`: what a connection is about to write it holds locked, and what
  it read there (`cur`, the children to orphan, the rows claimed) is still so.
* `Honest(t)`: the form a save answers, at the version it names, is what the
  document was at that version, but for a parent cleared without a version.

The argument of each step has two parts. A step that only moves the program on
(`LocalStep`) leaves the database alone, so the invariants of every other
connection stand, and its own is a matter of the record. A commit writes rows
it holds locked, so by `Protected` no other connection has anything
locked among them (`StillProtected`); the version it increments keeps old forms
honest (`FormStays`). `WritesOrNot` then says once that a step is one of four
kinds of commit or writes nothing, and `UpdateFacts`, `RemoveFacts` and
`PublishFacts` what each leaves; the rest argues from those.

**Groups** (`GroupsHeld`). A creation past `joinGroup` and a deletion past its
first statement hold the group's lock, and while one does the membership of the
group is what it saw (`MembersMove`): nobody else commits into the group or
empties it. A deletion remembers a group that may be gone, but only once its
document is gone too.

**Histories** (`HistoryHeld`). The revisions of a document at version n have
different versions below n, min(n - 1, REVISION_LIMIT) of them. `PruneFacts` is
the lemma: of one revision too many, ordered by any moments at all, `Prune`
removes exactly one, the oldest. Moments may be out of the order of versions,
so nothing is said of which one. `InTurn` says it for saves and restores: while
the row still has the version such a transaction's form names, every revision
in its history was written by one that began earlier. What the commit adds is
therefore the newest by moment as by version, and is not what `Prune` removes;
`EachGoesOn` and `HistoryMoves` say how moments and histories change in a step.

**Trees** (`TreesHeld`). `PathsResolve` is not inductive, because two moves that
each fit may not fit together. The invariant is that documents can be given
levels, 1 at a root and one more than the parent's elsewhere, none beyond
MAX_HIERARCHY_DEPTH, and that a transaction which has walked up from its new
parent holds locked every document of that chain (`Chain`), which is therefore
still the chain when it commits; and, once measured, there are levels in which
the subtree it moves, its height included, fits below (`Fits`). The lemmas on
trees are about the function from each document to its parent: what lies under
a document (`Under`) is what every set of documents closed under parents misses
without it, grafting relevels exactly that (`GraftLevels`), and a graft
elsewhere, with its own chain locked, leaves this one fitting
(`GraftElsewhere`). `HeightFacts` says that `SubtreeHeight`, which counts
generations, is the height of what `Under` names. Induction on the depth is by the
least counterexample (`LeastNatural`), from the well-foundedness of the
naturals, and a recursive function over an initial segment of the naturals is
shown to exist (`IterationExists`) before anything is said of it.

**The refinement.** `StepsAreAtomic` shows each step of `ContentStore` to be one
of `Documents`, on the mapped state: a commit is the `Create`, `Save`, `Remove`
or `PublishDue` of the same documents, the deletion of an asset and the clock
are themselves, everything else is `Ask`. Three more invariants carry it.
`SchemaHeld` is what the unique indexes and the foreign key to the parent keep,
by `ConstraintsHold`. `EveryoneEntitled` is that what a transaction was allowed
when it decided it is still allowed: a deletion judged its document under the lock it
still holds, a pass looks no further than the present. `Whole` is `Sound` of
`Documents`; its paths are those of `PathsResolve` (`ChainIsPath`), its
references those of `ReferencesHold`. The mapping forgets the moments of revisions, and
`FacesCount` shows that no two then become one, so that `Prune` of the store
keeps as many as `Keeps` of `Documents` asks. A deletion that finds its document
gone commits nothing, and is `Ask`.

### The page cache and the public site

`PageCacheProofs` proves of the cache, for any keys, tags, requests, writers, lifetimes and
bounds, from `CacheAssumption` (numbers are naturals, `RenderLimit <= StampTtl`):

| Theorem | Property | Premises |
| --- | --- | --- |
| `CacheTypesHold` | `CacheTypeOK` | none |
| `PurgesFindTheirPages` | `Findable` | `Uniform`, `MaxClears = 0` |
| `StaleMeansDue` | `StaleOnlyIfDue` | `Uniform`, `MaxClears = 0` |

`Uniform` says that no lifetime in use exceeds another by more than `StampTtl`;
what happens otherwise is told above. A clear that is cut off leaves pages
without their sets, so it is excluded, and `Backstop` shows what remains then.

Neither property is inductive. That a cached page is fresh or due says nothing
of the render that will store the next one, nor of the snapshot a restart will
bring back. `CacheInv` follows a change of a tag from its write to every copy of
what was read before it:

* until the purge runs the tag is due (`Due`), and in the snapshot until then or
  until the purge is saved (`unsaved`);
* from then on its stamp bars every render that read it (`Watched`, `Barred`),
  and for as long as the render may last (`Timely`, `RenderLimit <= StampTtl`);
* a page stored before is removed by the purge, because its sets lead to it
  (`Sound`). For expiry to keep that, a set must live as long as each page in
  it, which a later store could break if no page were `Bounded`.

Each part is asked of `valkey` and of `saved`. One lemma per action shows that
it keeps the invariant; the lemmas before them say what each script does to a
store that is `Sound`.

It then proves of the site, for any documents, types, languages, groups, assets,
routes and depths of a tree, from `CacheAssumption` and `SiteAssumption`:

| Theorem | Property | Premises |
| --- | --- | --- |
| `SiteImplementsCache` | `SiteSpec => CacheSpec` | the four below |
| `PagesStayCurrent` | `PagesAreCurrent` | `Uniform`, `MaxClears = 0`, `NoneAhead`, `PagesAreBodies` |
| `LinksAlwaysResolve` | `LinksResolve` | none |

`NoneAhead` says that no document is dated in the future. Without it the
property is false of the code, which announces no write when a date is reached:
that is the hazard at `visibility.ts:30`. `PagesAreBodies` says that the cache
stores what the site renders.

That a cached page is current is not inductive: it says nothing of the page that
is being put together, of the snapshot, or of why the tags a page carries are
the ones its changes will name. `SiteInv` adds to `CacheInv`:

* `RendersFit`, `PagesFit`: at each stage of a render, what it has in hand has
  the fields the queries so far fill (`Shape`), and the tags it collected name
  them (`Covers`): the document and its group, the list, each asset;
* `RendersRight`, `PagesRight`: what it has in hand is what the database says
  now (`Right`), or a purge that concerns it is due, or has come and its stamp
  bars the render (`Excused`). A render of a list counts its rows and reads them
  in either order, so the tag of the list concerns it before it is collected.

The argument has three parts. A query adds what the database says at that moment
and keeps the rest (one lemma each, `LoadDocumentGoes` to `LoadPathsGoes`). A
write announces every document it changes but the children that a deletion
detaches, whose type and language are announced (`Announced`), and what it does
not announce does not show (`TextStays`, `AltsStay`). A purge that comes either
finds the page, by what is proved of the cache, or bars the render. A page that
is right is then what rendering it gives (`DocumentIsRendered`,
`ListIsRendered`, `SitemapIsRendered`, `TextIsShown`).

`Ancestry`, `ListPublishedPaths` and `WellFormed` go level by level. That such a
function is defined (`LevelsExist`), and what holds of each level, is proved by
taking the least level at which it fails (`LeastNatural`, `EveryLevel`), since
the library's induction theorems cannot be instantiated. `RootedResolves`, that
the tree the constraints promise is the way the resolver takes, and `PathTyped`,
that a path ends in its own slug, are what `LinksAlwaysResolve` rests on.

### Accounts

`AccountsProofs` proves, for any clients, proxies, processes, quotas and
lifetimes, from `SessionAssumption`, `RateLimitAssumption` (quotas and windows
are positive, the bound on what restarts forget is a natural; a proxy is no
visitor and what cannot be read no client) and
`AccountsAssumption` (`"free"` is no process, the memory holds one entry):

| Theorem | Property |
| --- | --- |
| `SessionsAlwaysHold` | `SessionsHold` |
| `QuotasHold` | `LoginsWithinQuota` |
| `ClientsAlwaysHold` | `ClientsHold` |
| `AccountsAlwaysHold` | `AccountsHold` |

* Sessions: `LetIn` says that a request which is about to renew its session will
  give it a full lifetime from now; the clock does not move while the server
  holds a request.
* Quotas: `Accounted` compares what a window let through with the counter the
  instances share: it is ahead of it by no more than restarts forgot. `SavedBefore`,
  a snapshot says no more of a counter than the counter itself, keeps that across
  a restart (`RestartKeepsQuota`).
* Clients: that the walk over the proxies ends at the visitor, whatever the
  visitor wrote in front, is a lemma on the walk.
* Accounts: `Bootstrapping`, who counts or inserts holds the advisory lock, and who
  found no account inserts the first, whether or not it hears so;
  `Remembering`, a pair that is remembered was followed by as many others as
  stand after it.

### Media

`LibraryProofs` proves, for any uploads, renditions, permits and places in the
queue, from `AdmissionAssumption` and `LibraryAssumption` (finitely many uploads
and renditions, limits are naturals):

| Theorem | Property | Premise |
| --- | --- | --- |
| `GateAlwaysHolds` | `GateHolds` | none |
| `LibraryUsesTheGate` | `Library` implements the gate | none |
| `LeftoversStayListed` | `ObjectsStayListed` | `"some" \notin Deleting` |
| `AssetsAlwaysHold` | `AssetsHold` | `"lost" \notin Inserting` |

The premises are the settings of the runs. Where the store answers a deletion in
part, or an insert commits and its answer is lost, the code does otherwise: it
forgets what the store kept, or removes the objects of an asset that exists.
The invariant is per asset
(`Sound(u)`): who still has a hand on it, a fresh upload, a removal or the
sweep, and what each of them has read that must still be so. The gate is proved
once, over `Admission` alone, and carried to `Library` by the implementation.

### Upkeep

`UpkeepProofs` proves:

| Theorem | Property | Premises |
| --- | --- | --- |
| `MirrorAlwaysHolds` | `MirrorHolds` | `MaxInterrupts` is a natural |
| `OneOperationOfEachProbe` | `HealthTypeOK` and `SingleFlight`, the safety part of `HealthHolds` | `{} \in Outages` |
| `OnlyEverItsOwnBucket` | `OnlyItsOwnBucket` | `None \notin Runs` |

The invariant of the mirror says that a pass in its transaction is alone there
(`Alone`), that what it will write is what the documents name (`Consistent`),
and that the mirror never names an asset that is gone.

### The editor

`EditorProofs` proves `OutcomesAlwaysHold` (`OutcomesHold`) and
`WorkIsAlwaysKept` (`WorkIsKept`), for any number of edits, versions and writes
under way, from `EditorAssumption`. `EditorInv` numbers the writes and follows
each from its submission to what the screen says of it: `Attempts`,
`Submitted`, `Versions`, `CleanDraft` (what the screen calls saved is what was
stored) and `Outcomes`. That typed text stays (`TypedStays`) is a matter of each
step: all but the two it names leave the draft alone, add to it or close it.

It also proves `EditsAlwaysHold` (`EditsHold`) of the blocks, for any texts,
marks, identities and drafts, from `BlocksAssumption` (the bounds are naturals,
and there are at least as many identities as a draft may hold blocks, so one is
always left to draw; the code draws them at random). The invariant,
`GalleyApart`, says that the blocks are typed and have an identity each; the rest
of `EditsHold` is true of any run of text and any replacement of it, and is what
takes the work:

* A splice keeps text and marks because its pieces do. A run is read as one
  sequence of characters with their marks (`Marked`). A slice is the part of it
  between two offsets (`SliceKeeps`), merging leaves it alone and leaves no seam
  (`MergeKeeps`), and a head of the common prefix, what was typed and a tail of
  the common suffix make up the new text, because the suffix does not reach into
  the prefix (`JoinedPartsSplice`).
* Repeated identities are given up one at a time, and each draw finds one that
  is not taken, by counting (`IdentifiedApart`). Every edit replaces, moves,
  adds or removes blocks whose identities stay apart (`ReplacedApart`,
  `MovedApart`, `LongerApart`, `WithoutApart`).

`Slice` and `TextOf` flatten, `Merge` and `WithUniqueIds` fold. That these are
defined, and take one element after the other, is proved first
(`FlattenAppends`, `MergeSteps`, `UniqueIdsApart`), from the existence of the
fold over an initial segment (`FoldExists`). What holds of every sequence is
then proved by `EverySequence`, induction stated for a set, which the provers
can instantiate where the library's own theorem takes an operator.

### Administration and hooks

`AdministrationProofs` proves:

| Theorem | Property | Premises |
| --- | --- | --- |
| `DescriptionsAlwaysHold` | `DescriptionsHold` | `None \notin Nat` |
| `LinksAlwaysHold` | `LinksHold` | `Ttl` is a natural |
| `PreferencesAlwaysHold` | `PreferencesHold` | `GuessIsOffered` |
| `ListingsAlwaysHold` | `ListingsHold` | `ListingIsFinite` |
| `HooksAgree` | `FiltersAgree` and `ToldBeforeAnswered`, the safety part of `HooksHold` | `PrioritiesAreNumbers` |

* Descriptions: text stays under the language it was typed in at every place it
  passes (`UnderItsLanguage`), and who writes holds the row (`HeldByTheWriter`).
* Links: what is asked for beside a document is its own (`AskedBesideIt`), and
  every link is within a lifetime of the last moment its document could be read
  by who asked (`Delegated`).
* Preferences: `OnePath`, the half of the property that is about the device, is
  inductive with the types.
* Listings: of the rows nobody touched, each was read, shares its millisecond
  with the last row of a page, or comes after the cursor (`Covers`); what comes
  after the cursor comes after everything read (`InOrder`). Both are said of
  what the screen holds and of what a request under way will make of it. A
  query answers in order: `RanksAreTaken` and `RankedInOrder` say that the
  members of a finite ordered set have the ranks 0 to n - 1, one each, by the
  pigeonhole principle.
* Hooks: what a value went through and what it has yet to go through are in
  order, and with what was reported they are what it set out for (`OnItsWay`).
  The copy that `apply` takes is in order by the same lemmas on ranks.

### Left to TLC

* Liveness, and with it whatever rests on fairness or ENABLED:
  `TransactionsEnd`, `StalenessEnds`, `ReadyInTheEnd`, `UploadsEnd`,
  `SessionsSettle`, `QuotaReturns`, `WritesSettle`, and the parts of `HooksHold`
  and `HealthHolds` that say something happens.
* Which revisions the prune leaves: the theorems say how many, and that a save loses
  nothing it replaces, but not that no version is missing between two that stay.

## Not modelled

**Content.** Title, excerpt, blocks and metadata (they are written and read as
the slug is); listing, search and serialization, which change nothing; the KEY
SHARE locks of foreign keys and the waiting of an insert on another's
uncommitted one, which only delay a step the model allows at its commit; a
document whose type is no longer registered. A join reads its members' rows
without locking them: the permission it was granted on may be withdrawn before
it commits, and no property says otherwise.

**Cache and site.** The null store of development, payloads that no longer
parse (a miss), the digest of long keys, the parsing of headers; previews on
the site itself (never cached), the home page (it reads as the first page of an
archive), `noindex`, filters that modules put on excerpts and blocks, and the
limits of a listing beyond its page size. No document of the site's run has a
date to come: nothing purges the pages it would appear in.

**Services.** Image decoding and resizing beyond "accepted or refused", the
HTTP of the object store, password hashing, CORS, error formats, the language
negotiation of a request. In `Sessions` a token is drawn once and never
guessed; an account's deletion, which no route offers, appears only where an
image outlives its owner.

**Interface.** What a screen shows beyond the state modelled, the message
catalogues, screens that only list, the rendering of blocks to HTML. The draft
of the editor is the set of edits in it, and an image beside; validation of
its fields is left to the server's answer. `Preferences` takes signing in or out
as one step, since `Sessions` takes it apart.

**Around the program.** Themes, formatting, build scripts, migrations, seeds
and tests, which keep no state while it runs.
