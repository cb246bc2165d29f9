-------------------------------- MODULE Hooks --------------------------------
(***************************************************************************)
(* The hook registry: handlers that come and go, a value on its way        *)
(* through the filters, and an event on its way to the actions.            *)
(*                                                                         *)
(* A handler is called with what it is given and returns a value, nothing, *)
(* throws, or never settles.  A value is the handlers it went through.     *)
(***************************************************************************)
EXTENDS Naturals, Sequences, FiniteSets

CONSTANTS
  Handlers,
  Priority,          \* of each handler; lower runs first
  MaxRegistrations   \* bound: handlers registered in all

VARIABLES
  filters, actions,  \* the two registries: handlers with the order they came in
  counter,
  chain,             \* the value being filtered
  emission           \* the event being told

hookVars == <<filters, actions, counter, chain, emission>>

Registrations == [handler : Handlers, order : 0..(MaxRegistrations - 1)]

-----------------------------------------------------------------------------
(* The registry.                                                           *)

Precedes(a, b) ==
  \/ Priority[a.handler] < Priority[b.handler]
  \/ Priority[a.handler] = Priority[b.handler] /\ a.order < b.order

\* A copy: what is registered or unregistered later does not concern this run.
ByPriority(S) ==
  [k \in 1..Cardinality(S) |-> CHOOSE r \in S : Cardinality({o \in S : Precedes(o, r)}) = k - 1]

Added(S, h) == S \union {[handler |-> h, order |-> counter]}

Register(h) ==
  /\ counter < MaxRegistrations
  /\ counter' = counter + 1
  /\ \/ filters' = Added(filters, h) /\ UNCHANGED actions
     \/ actions' = Added(actions, h) /\ UNCHANGED filters
  /\ UNCHANGED <<chain, emission>>

\* Each registration is removed by its own handle, whoever else uses the handler.
Unregister(r) ==
  /\ r \in filters \union actions
  /\ filters' = filters \ {r} /\ actions' = actions \ {r}
  /\ UNCHANGED <<counter, chain, emission>>

-----------------------------------------------------------------------------
(* apply: one filter after the other.                                      *)

Rest == [on |-> FALSE, asked |-> {}, todo |-> <<>>, calling |-> FALSE,
         value |-> <<>>, reported |-> {}]

Apply ==
  /\ ~chain.on
  /\ chain' = [Rest EXCEPT !.on = TRUE, !.asked = filters, !.todo = ByPriority(filters)]
  /\ UNCHANGED <<filters, actions, counter, emission>>

\* Called with the value as it is by now.
Call ==
  /\ chain.on /\ ~chain.calling /\ chain.todo # <<>>
  /\ chain' = [chain EXCEPT !.calling = TRUE]
  /\ UNCHANGED <<filters, actions, counter, emission>>

Past(c) == [c EXCEPT !.calling = FALSE, !.todo = Tail(@)]

Returned(c) == [Past(c) EXCEPT !.value = Append(@, Head(c.todo))]

\* Nothing, an error or no answer in time: the value stands, and it is reported.
Failed(c) == [Past(c) EXCEPT !.reported = @ \union {Head(c.todo)}]

Settles ==
  /\ chain.calling
  /\ chain' \in {Returned(chain), Failed(chain)}
  /\ UNCHANGED <<filters, actions, counter, emission>>

\* Mutant: a handler's own promise is all that is awaited.
NoDeadline(c) == FALSE

Deadline(c) == c.calling

FilterTimesOut ==
  /\ Deadline(chain)
  /\ chain' = Failed(chain)
  /\ UNCHANGED <<filters, actions, counter, emission>>

Applied ==
  /\ chain.on /\ chain.todo = <<>>
  /\ chain' = [chain EXCEPT !.on = FALSE]
  /\ UNCHANGED <<filters, actions, counter, emission>>

-----------------------------------------------------------------------------
(* emit: every action at once.                                             *)

Silent == [on |-> FALSE, told |-> {}, waiting |-> {}, reported |-> {}]

Emit ==
  /\ ~emission.on
  /\ emission' = [Silent EXCEPT !.on = TRUE, !.told = actions, !.waiting = actions]
  /\ UNCHANGED <<filters, actions, counter, chain>>

ActionSettles(r) ==
  /\ r \in emission.waiting
  /\ \/ emission' = [emission EXCEPT !.waiting = @ \ {r}]
     \/ emission' = [emission EXCEPT !.waiting = @ \ {r}, !.reported = @ \union {r}]
  /\ UNCHANGED <<filters, actions, counter, chain>>

ActionTimesOut(r) ==
  /\ r \in emission.waiting
  /\ emission' = [emission EXCEPT !.waiting = @ \ {r}, !.reported = @ \union {r}]
  /\ UNCHANGED <<filters, actions, counter, chain>>

AllTold == emission.waiting = {}

Told ==
  /\ emission.on /\ AllTold
  /\ emission' = [emission EXCEPT !.on = FALSE]
  /\ UNCHANGED <<filters, actions, counter, chain>>

-----------------------------------------------------------------------------

HooksInit ==
  /\ filters = {} /\ actions = {} /\ counter = 0 /\ chain = Rest /\ emission = Silent

HooksNext ==
  \/ (\E h \in Handlers : Register(h)) \/ \E r \in filters \union actions : Unregister(r)
  \/ Apply \/ Call \/ Settles \/ FilterTimesOut \/ Applied
  \/ Emit \/ (\E r \in emission.waiting : ActionSettles(r) \/ ActionTimesOut(r)) \/ Told

\* The event loop goes on, and its timers fire.
HooksFairness ==
  /\ WF_hookVars(Call \/ FilterTimesOut \/ Applied)
  /\ WF_hookVars(Told \/ \E r \in emission.waiting : ActionTimesOut(r))

-----------------------------------------------------------------------------
(* Properties.                                                             *)

Went(c) == {c.value[k] : k \in DOMAIN c.value}

\* What comes out of the filters went through those registered when it set out, by
\* priority and then in the order they came, whatever is registered or unregistered
\* meanwhile; each that it did not go through, and no other, was reported (apply).
FiltersAgree ==
  /\ \A k, l \in DOMAIN chain.value : k < l => Precedes(chain.value[k], chain.value[l])
  /\ Went(chain) \cap chain.reported = {}
  /\ chain.todo = <<>> => Went(chain) \union chain.reported = chain.asked

\* A write is answered only once every handler it told has finished, failed or
\* used up its time (emit).
ToldBeforeAnswered == ~emission.on => emission.waiting = {}

\* No handler holds a request for ever, whatever it awaits (withTimeout).
HooksReturn == /\ chain.on ~> ~chain.on
               /\ emission.on ~> ~emission.on

\* Filters and actions do what they are registered for, in order, and come to an end,
\* whatever their handlers do (createHooks).
HooksHold == [](FiltersAgree /\ ToldBeforeAnswered) /\ HooksReturn
=============================================================================
