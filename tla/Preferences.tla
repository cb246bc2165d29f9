---------------------------- MODULE Preferences ----------------------------
(***************************************************************************)
(* The theme and the language of one browser: what the cookies say, what   *)
(* the controls and the document show, and the preferences of the account  *)
(* that is signed in, which other devices change too.                      *)
(*                                                                         *)
(* The browser, React's effects and the query cache are external; Sessions *)
(* has signing in and out in full.                                         *)
(***************************************************************************)
EXTENDS Naturals, FiniteSets

CONSTANTS
  People,
  Themes, Locales,
  Guess,         \* the theme and the language before anything was chosen
  MaxChoices,    \* bound: the choices made on this device
  MaxElsewhere,  \* bound: the choices made on others
  None

VARIABLES
  account,       \* the preferences stored for each person
  session,       \* whose session this browser holds
  cookie,        \* the two cookies: a value, "none" or "unreadable"
  shown,         \* what the controls show
  document,      \* the theme's attribute and the language's
  user,          \* the session query's data
  fetch,         \* its fetch: "none", "asked", "served", and the answer
  wire,          \* the choices sent: to be stored, and those stored to be answered
  choices, elsewhere

preferenceVars ==
  <<account, session, cookie, shown, document, user, fetch, wire, choices, elsewhere>>

Settings == {"theme", "locale"}
Offered  == [theme |-> Themes, locale |-> Locales]

SignedOut   == [known |-> TRUE, name |-> None, prefs |-> Guess]
Unknown     == [SignedOut EXCEPT !.known = FALSE]
Somebody(p) == [known |-> TRUE, name |-> p, prefs |-> account[p]]

-----------------------------------------------------------------------------
(* What a load starts from, and what follows an answer.                    *)

\* An unreadable cookie is no cookie.
StartsFrom(jar) == [s \in Settings |-> IF jar[s] \in Offered[s] THEN jar[s] ELSE Guess[s]]

\* The theme's cookie, when it cannot be read, is written anew; the language's is not.
Repaired(jar) == [s \in Settings |->
  IF s = "theme" /\ jar[s] = "unreadable" THEN Guess[s] ELSE jar[s]]

\* Mutant: what a cookie or the browser guessed wins over what was stored.
KeepTheGuess(data, before) == before

\* The effect over the session: the stored preferences win.
Adopted(data, before) == IF data.name = None THEN before ELSE data.prefs

\* What changes is written down as it is applied.
Written(jar, before, after) ==
  [s \in Settings |-> IF after[s] = before[s] THEN jar[s] ELSE after[s]]

\* The session's data and the interface, after every change of either.
Settle(data, jar, before) ==
  LET after == Adopted(data, before) IN
  /\ user' = data
  /\ shown' = after /\ document' = after
  /\ cookie' = Written(jar, before, after)

NoFetch == [at |-> "none", failed |-> FALSE, user |-> Unknown]
Asked   == [NoFetch EXCEPT !.at = "asked"]

-----------------------------------------------------------------------------
(* The browser.                                                            *)

\* What the page had asked for is not heard of any more.
Load ==
  /\ user' = Unknown
  /\ shown' = StartsFrom(cookie) /\ document' = StartsFrom(cookie)
  /\ cookie' = Repaired(cookie)
  /\ fetch' = Asked
  /\ wire' = {[w EXCEPT !.heard = FALSE] : w \in {x \in wire : ~x.stored}}
  /\ UNCHANGED <<account, session, choices, elsewhere>>

\* The query went stale and the connection came back, or a retry was asked for.
Refetch ==
  /\ fetch.at = "none"
  /\ fetch' = [fetch EXCEPT !.at = "asked"]
  /\ UNCHANGED <<account, session, cookie, shown, document, user, wire, choices, elsewhere>>

\* The loading screen and the one of a failed fetch have no controls.
Controls == user.known /\ ~fetch.failed

Choose(s, v) ==
  /\ choices < MaxChoices
  /\ Controls
  /\ Settle(user, [cookie EXCEPT ![s] = v], [shown EXCEPT ![s] = v])
  /\ wire' = IF user.name = None THEN wire
             ELSE wire \union {[n |-> choices, who |-> session, setting |-> s, value |-> v,
                                stored |-> FALSE, heard |-> TRUE]}
  /\ choices' = choices + 1
  /\ UNCHANGED <<account, session, fetch, elsewhere>>

SignIn(p) ==
  /\ Controls /\ user.name = None
  /\ session' = p
  /\ Settle(Somebody(p), cookie, shown)
  /\ UNCHANGED <<account, fetch, wire, choices, elsewhere>>

SignOut ==
  /\ Controls /\ user.name # None
  /\ session' = None
  /\ Settle(SignedOut, cookie, shown)
  /\ UNCHANGED <<account, fetch, wire, choices, elsewhere>>

-----------------------------------------------------------------------------
(* Requests and answers.                                                   *)

Me == IF session = None THEN SignedOut ELSE Somebody(session)

ServeFetch ==
  /\ fetch.at = "asked"
  /\ fetch' = [fetch EXCEPT !.at = "served", !.user = Me]
  /\ UNCHANGED <<account, session, cookie, shown, document, user, wire, choices, elsewhere>>

HearFetch ==
  /\ fetch.at = "served"
  /\ Settle(fetch.user, cookie, shown)
  /\ fetch' = NoFetch
  /\ UNCHANGED <<account, session, wire, choices, elsewhere>>

FetchFails ==
  /\ fetch.at # "none"
  /\ fetch' = [NoFetch EXCEPT !.failed = TRUE]
  /\ UNCHANGED <<account, session, cookie, shown, document, user, wire, choices, elsewhere>>

\* PATCH /auth/preferences, refused when the session it came with is over.
StoreChoice(w) ==
  /\ w \in wire /\ ~w.stored
  /\ IF w.who = session /\ session # None
       THEN /\ account' = [account EXCEPT ![w.who][w.setting] = w.value]
            /\ wire' = (wire \ {w}) \union (IF w.heard THEN {[w EXCEPT !.stored = TRUE]} ELSE {})
       ELSE /\ wire' = wire \ {w}
            /\ UNCHANGED account
  /\ UNCHANGED <<session, cookie, shown, document, user, fetch, choices, elsewhere>>

\* The answer is merged into whatever the session's data is by now.
HearStored(w) ==
  /\ w \in wire /\ w.stored /\ w.heard
  /\ wire' = wire \ {w}
  /\ Settle(IF user.name = None THEN user ELSE [user EXCEPT !.prefs[w.setting] = w.value],
            cookie, shown)
  /\ fetch' = IF user.name = None THEN fetch ELSE [fetch EXCEPT !.failed = FALSE]
  /\ UNCHANGED <<account, session, choices, elsewhere>>

\* A connection that fails, or a deadline that passes: the server may store it yet.
Fail(w) ==
  /\ w \in wire /\ w.heard
  /\ \E late \in BOOLEAN :
       wire' = (wire \ {w}) \union
                 (IF late /\ ~w.stored THEN {[w EXCEPT !.heard = FALSE]} ELSE {})
  /\ UNCHANGED <<account, session, cookie, shown, document, user, fetch, choices, elsewhere>>

\* Another machine of the same person.
ChooseElsewhere(p, s, v) ==
  /\ elsewhere < MaxElsewhere
  /\ account' = [account EXCEPT ![p][s] = v]
  /\ elsewhere' = elsewhere + 1
  /\ UNCHANGED <<session, cookie, shown, document, user, fetch, wire, choices>>

-----------------------------------------------------------------------------
\* A browser that is loading the administration, with any cookies and any session.
PreferencesInit ==
  /\ account \in [People -> {Guess}]
  /\ session \in People \union {None}
  /\ \E jar \in [Settings -> Themes \union Locales \union {"none", "unreadable"}] :
       /\ \A s \in Settings : jar[s] \in Offered[s] \union {"none", "unreadable"}
       /\ shown = StartsFrom(jar) /\ document = StartsFrom(jar)
       /\ cookie = Repaired(jar)
  /\ user = Unknown
  /\ fetch = Asked
  /\ wire = {}
  /\ choices = 0 /\ elsewhere = 0

PreferencesNext ==
  \/ Load \/ Refetch \/ SignOut \/ ServeFetch \/ HearFetch \/ FetchFails
  \/ \E s \in Settings : \E v \in Offered[s] :
       Choose(s, v) \/ \E p \in People : ChooseElsewhere(p, s, v)
  \/ \E p \in People : SignIn(p)
  \/ \E w \in wire : StoreChoice(w) \/ HearStored(w) \/ Fail(w)

PreferencesSpec == PreferencesInit /\ [][PreferencesNext]_preferenceVars

-----------------------------------------------------------------------------
\* Whatever a preference comes from - a cookie, a click, the account, a late
\* answer - the control, the document and what the next load will start from
\* say the same (theme.tsx syncFromServer, i18n.tsx setLocale).
OnePath == document = shown /\ StartsFrom(cookie) = shown

\* A fetch that still says what the account holds leaves the device showing it,
\* whatever was chosen here or is still under way (app.tsx, the effect over the session).
FollowsThePerson ==
  [][HearFetch /\ fetch.user = Me /\ session # None => shown' = account[session]]_preferenceVars

\* A device agrees with itself at every moment, and with its account once it has heard
\* of it (theme.tsx, i18n.tsx, app.tsx).
PreferencesHold == []OnePath /\ FollowsThePerson
=============================================================================
