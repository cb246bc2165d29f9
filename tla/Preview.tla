------------------------------ MODULE Preview ------------------------------
(***************************************************************************)
(* Preview links: asked for beside the editor, copied to the clipboard,    *)
(* and opened on the public site by whoever holds one.                     *)
(*                                                                         *)
(* A token is the claims it carries: signing makes it one that only the    *)
(* installation can write.  The clipboard is external: it takes a text and *)
(* says so in one step, whenever it gets to it.                            *)
(***************************************************************************)
EXTENDS Naturals, FiniteSets

CONSTANTS
  Documents, Author,   \* the documents, and who wrote each
  Asker,               \* the person at the editor: an id and a role
  Ttl,                 \* PREVIEW_TTL_SECONDS
  MaxNow,              \* bound: the instants
  MaxLinks,            \* bound: the links minted
  None

LOCAL INSTANCE Access WITH Nobody <- None

VARIABLES
  status,        \* what each document is, "gone" once deleted
  now,
  screen,        \* the document open in the editor, and whether a write is in flight
  request,       \* the link asked for
  link,          \* the link shown
  copied,        \* the outcome of a copy, with the link it was asked for
  copying,       \* the links the clipboard was asked to take, with whether this panel asked
  clipboard,     \* what it took last
  tokens,        \* the links minted
  visit,         \* the document a holder of a link was last shown, and when
  readable       \* when the asker could last read each document; history, for the properties

previewVars ==
  <<status, now, screen, request, link, copied, copying, clipboard, tokens, visit, readable>>

Kept == {"draft", "published"}
Shows  == [at |-> "none", doc |-> None, token |-> None]

MayRead(d) == status[d] \in Kept /\ CanRead(Asker, Author[d], status[d])

\* The instants at which each document could be read, kept up with every step.
Watch(statuses, time) ==
  readable' = [d \in Documents |->
    IF statuses[d] \in Kept /\ CanRead(Asker, Author[d], statuses[d]) THEN time ELSE readable[d]]

-----------------------------------------------------------------------------
(* The panel.                                                              *)

\* A request replaces the link on screen, and what was said of it goes with it.
Ask ==
  /\ screen.doc # None /\ ~screen.busy /\ request.at = "none"
  /\ request' = [Shows EXCEPT !.at = "asked", !.doc = screen.doc]
  /\ link' = None /\ copied' = None
  /\ UNCHANGED <<status, now, screen, copying, clipboard, tokens, visit, readable>>

\* POST /content/:type/:id/preview: authorized as reading is.
Mint ==
  /\ request.at = "asked"
  /\ Cardinality(tokens) < MaxLinks
  /\ IF MayRead(request.doc)
       THEN LET token == [n |-> Cardinality(tokens), doc |-> request.doc, expiresAt |-> now + Ttl]
            IN  tokens' = tokens \union {token}
                /\ request' = [request EXCEPT !.at = "minted", !.token = token]
       ELSE request' = [request EXCEPT !.at = "refused"] /\ UNCHANGED tokens
  /\ UNCHANGED <<status, now, screen, link, copied, copying, clipboard, visit, readable>>

\* The answer, heard only by the panel that asked.
Answered ==
  /\ request.at \in {"minted", "refused"}
  /\ link' = request.token
  /\ copied' = None
  /\ request' = Shows
  /\ UNCHANGED <<status, now, screen, copying, clipboard, tokens, visit, readable>>

NoAnswer ==
  /\ request.at # "none"
  /\ request' = Shows
  /\ UNCHANGED <<status, now, screen, link, copied, copying, clipboard, tokens, visit, readable>>

Copy ==
  /\ link # None
  /\ copying' = copying \union {[link |-> link, here |-> TRUE]}
  /\ UNCHANGED <<status, now, screen, request, link, copied, clipboard, tokens, visit, readable>>

\* The browser takes the text or refuses it; a panel that is gone hears neither.
CopySettles(asked, outcome) ==
  /\ asked \in copying
  /\ copying' = copying \ {asked}
  /\ clipboard' = IF outcome = "yes" THEN asked ELSE clipboard
  /\ copied' = IF asked.here THEN [link |-> asked.link, outcome |-> outcome] ELSE copied
  /\ UNCHANGED <<status, now, screen, request, link, tokens, visit, readable>>

\* Mutant: the outcome of a copy speaks for whatever link is shown.
SaysAnyCopied == link # None /\ copied # None /\ copied.outcome = "yes"

\* What the panel says under its link.
SaysCopied == link # None /\ copied # None /\ copied.link = link /\ copied.outcome = "yes"

-----------------------------------------------------------------------------
(* The editor around it.                                                   *)

\* The editor is keyed by the document: opening another starts afresh.
Remount(d) ==
  /\ screen' = [doc |-> d, busy |-> FALSE]
  /\ request' = Shows /\ link' = None /\ copied' = None
  /\ copying' = {[c EXCEPT !.here = FALSE] : c \in copying}
  /\ clipboard' = [clipboard EXCEPT !.here = FALSE]

Go(d) ==
  /\ d # screen.doc
  /\ d # None => MayRead(d)
  /\ Remount(d)
  /\ UNCHANGED <<status, now, tokens, visit, readable>>

\* A save or a restore begins, or is answered.
Freeze ==
  /\ screen.doc # None
  /\ screen' = [screen EXCEPT !.busy = ~@]
  /\ UNCHANGED <<status, now, request, link, copied, copying, clipboard, tokens, visit, readable>>

\* Somebody's write: a publication, a withdrawal, a deletion.
Change(d, next) ==
  /\ status[d] \in Kept /\ next # status[d]
  /\ status' = [status EXCEPT ![d] = next]
  /\ Watch(status', now)
  /\ UNCHANGED <<now, screen, request, link, copied, copying, clipboard, tokens, visit>>

TimePasses ==
  /\ now < MaxNow
  /\ now' = now + 1
  /\ Watch(status, now')
  /\ UNCHANGED <<status, screen, request, link, copied, copying, clipboard, tokens, visit>>

-----------------------------------------------------------------------------
(* The site.                                                               *)

\* verifyPreviewToken.
Verified(token) == token.expiresAt > now

\* The row as it stands, whatever its status; anything else is not found.
OpenLink(token) ==
  /\ token \in tokens
  /\ visit' = IF Verified(token) /\ status[token.doc] \in Kept
                THEN [doc |-> token.doc, at |-> now] ELSE [doc |-> None, at |-> now]
  /\ UNCHANGED <<status, now, screen, request, link, copied, copying, clipboard, tokens, readable>>

-----------------------------------------------------------------------------
PreviewInit ==
  /\ status \in [Documents -> Kept]
  /\ now = 0
  /\ screen = [doc |-> None, busy |-> FALSE]
  /\ request = Shows /\ link = None /\ copied = None
  /\ copying = {} /\ clipboard = [link |-> None, here |-> FALSE] /\ tokens = {}
  /\ visit = [doc |-> None, at |-> 0]
  /\ readable = [d \in Documents |-> 0]

PreviewNext ==
  \/ Ask \/ Mint \/ Answered \/ NoAnswer \/ Copy \/ Freeze \/ TimePasses
  \/ \E d \in Documents \union {None} : Go(d)
  \/ \E d \in Documents : \E next \in Kept \union {"gone"} : Change(d, next)
  \/ \E asked \in copying : \E outcome \in {"yes", "refused"} : CopySettles(asked, outcome)
  \/ \E token \in tokens : OpenLink(token)

PreviewSpec == PreviewInit /\ [][PreviewNext]_previewVars

-----------------------------------------------------------------------------
\* "Copied." under a link is true: of all this panel had copied, the clipboard took
\* that link last, also when the copy of an earlier one is answered late
\* (preview-link.tsx copy).
CopiedIsTrue == SaysCopied /\ clipboard.here => clipboard.link = link

\* The link beside a document opens that document, whichever was asked for
\* before it and is answered after (router.tsx EditDocument, the key).
LinkIsItsOwn == link # None => link.doc = screen.doc

\* A link is a read delegated for a while: nobody is shown a document by one unless
\* somebody who could read it then asked for it less than a lifetime ago
\* (content/routes.ts POST preview, preview.ts verifyPreviewToken).
ADelegatedRead ==
  visit.doc # None => readable[visit.doc] + Ttl > visit.at

\* What stands beside a document is its own link, what is said of a copy is so, and what
\* a link opens may be read (preview-link.tsx, preview.ts).
LinksHold == CopiedIsTrue /\ LinkIsItsOwn /\ ADelegatedRead
=============================================================================
