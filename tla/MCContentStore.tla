--------------------------- MODULE MCContentStore ---------------------------
(***************************************************************************)
(* Instances of ContentStore for TLC.  Each group of definitions is the    *)
(* constants of one run: the databases it starts from and what its clients *)
(* send.                                                                   *)
(***************************************************************************)
EXTENDS ContentStore, TLC

CONSTANTS g1, g2, g3, g4

VARIABLE scenario   \* which of the three below a behaviour is in

ConnectionSymmetry == Permutations(Connections)

GroupOf == <<g1, g2, g3, g4>>

NoPatch == [slug |-> Keep, status |-> Keep, date |-> Keep, parent |-> Keep,
            refs |-> Keep]

Text(slug, status, date, parent) ==
  [slug |-> slug, status |-> status, date |-> date, parent |-> parent, refs |-> {}]

Document(type, locale, group, author, state) ==
  [type |-> type, locale |-> locale, group |-> group, author |-> author,
   version |-> 1, state |-> state]

RoleTable == [editor |-> "editor", author |-> "author", contributor |-> "contributor"]

RolesOfUsers == [u \in UserIds |-> RoleTable[u]]

-----------------------------------------------------------------------------
(* Page trees: documents 1 to 3 in every shape of at most                  *)
(* MAX_HIERARCHY_DEPTH levels, numbered from the roots down, and 4 still   *)
(* to be created; clients move, delete and create.                         *)

TreeSlug == <<"a", "b", "c", "d">>

Shallow(parent) ==
  \A d \in DOMAIN parent :
    LET up[k \in 0..MAX_HIERARCHY_DEPTH] ==
          IF k = 0 THEN d
          ELSE IF up[k - 1] = None THEN None ELSE parent[up[k - 1]]
    IN up[MAX_HIERARCHY_DEPTH] = None

TreeSeeds ==
  {[d \in Docs |->
      IF d = 4 THEN Absent
      ELSE Document("page", "en", GroupOf[d], "editor",
                    Text(TreeSlug[d], "draft", None, parent[d]))] :
     parent \in {p \in [1..3 -> 1..3 \cup {None}] :
                   Shallow(p) /\ \A d \in 1..3 : p[d] # None => p[d] < d}}

TreePatches == {[NoPatch EXCEPT !.parent = p] : p \in Docs \cup {None}}

TreeCreations == {Text("d", "draft", None, p) : p \in Docs}

-----------------------------------------------------------------------------
(* Translation groups: g1 holds a contributor's English draft, alone or    *)
(* with an editor's French one; documents of two types in two other        *)
(* languages are created, joined and deleted by both.                      *)

GroupSeeds ==
  {[d \in Docs |->
      CASE d = 1 -> Document("post", "en", g1, "contributor",
                             Text("a", "draft", None, None))
        [] d = 2 /\ translated ->
             Document("post", "fr", g1, "editor", Text("a", "draft", None, None))
        [] OTHER -> Absent] : translated \in BOOLEAN}

GroupCreations == {Text("b", "draft", None, None)}

-----------------------------------------------------------------------------
(* One document's history: a contributor's draft that is scheduled, edited *)
(* by both, restored and published.                                        *)

VersionSeeds ==
  {[d \in Docs |-> IF d = 1 THEN Document("post", "en", g1, "contributor",
                                         Text("a", "draft", None, None))
                             ELSE Absent]}

VersionPatches ==
  {[NoPatch EXCEPT !.status = "scheduled", !.date = 1],
   [NoPatch EXCEPT !.status = "published"],
   [NoPatch EXCEPT !.status = "draft", !.slug = "z"]}

-----------------------------------------------------------------------------
(* The three together: what each scenario starts from, and what its        *)
(* clients may send.  The scenario never changes.                          *)

Scenarios == {"tree", "groups", "versions"}

ScenarioSeeds == TreeSeeds \cup GroupSeeds \cup VersionSeeds
ScenarioCreations == TreeCreations \cup GroupCreations
ScenarioPatches == TreePatches \cup VersionPatches

Scenario(name) ==
  CASE name = "tree" ->
         [seeds |-> TreeSeeds, ops |-> {"create", "update", "delete"},
          ids |-> Docs \cup Groups, users |-> {"editor"}, locales |-> {"en"},
          types |-> {"page"}, creations |-> {"d"}, patches |-> TreePatches,
          transactions |-> 2, time |-> 0]
    [] name = "groups" ->
         [seeds |-> GroupSeeds, ops |-> {"create", "delete"},
          ids |-> {1, 2, 3, g1, g2}, users |-> UserIds, locales |-> Locales \ {"en"},
          types |-> Types, creations |-> {"b"}, patches |-> {},
          transactions |-> 3, time |-> 0]
    [] name = "versions" ->
         [seeds |-> VersionSeeds, ops |-> {"update", "restore", "publishDue"},
          ids |-> {1, g1}, users |-> UserIds, locales |-> {"en"},
          types |-> {"post"}, creations |-> {}, patches |-> VersionPatches,
          transactions |-> 4, time |-> 1]

AsCreated(t, s) ==
  /\ tx'[t].locale \in s.locales
  /\ tx'[t].type \in s.types
  /\ tx'[t].group = None \/ tx'[t].group \in s.ids
  /\ tx'[t].next.slug \in s.creations

(* What a connection has just begun belongs to the scenario. *)
Belongs(t, s) ==
  /\ tx'[t].user \in s.users \cup {None}
  /\ tx'[t].pc = "composing" => {"update", "restore"} \cap s.ops # {}
  /\ tx'[t].op \in s.ops \cup {"none"}
  /\ tx'[t].op = "create" => AsCreated(t, s)
  /\ tx'[t].op = "update" => tx'[t].patch \in s.patches

ScenarioInit ==
  /\ scenario \in Scenarios
  /\ Init
  /\ rows \in Scenario(scenario).seeds

(* Only what the scenario may send is tried at all. *)
ScenarioRequest(t, s) ==
  /\ ticks < s.transactions
  /\ \/ s.creations # {} /\ \E u \in s.users : BeginCreate(t, u)
     \/ \E u \in s.users, d \in Docs : OpenForm(t, u, d) \/ BeginDelete(t, u, d)
     \/ BeginUpdate(t)
     \/ BeginRestore(t)
     \/ BeginPublishDue(t)
  /\ Belongs(t, s)

ScenarioNext ==
  LET s == Scenario(scenario)
  IN /\ \/ \E t \in Connections : ScenarioRequest(t, s) \/ Proceed(t) \/ Abort(t)
        \/ now < s.time /\ Tick
        \/ Quiet
     /\ born' \subseteq s.ids
     /\ UNCHANGED scenario

ScenarioSpec == ScenarioInit /\ [][ScenarioNext]_<<vars, scenario>>

-----------------------------------------------------------------------------
(* Pages that start and stop using an asset, move under each other and are *)
(* deleted, while the asset is deleted too.                                *)

ReferenceSeeds ==
  {[d \in Docs |->
      IF d = 1 THEN Document("page", "en", g1, "editor",
                             [Text("a", "draft", None, None) EXCEPT !.refs = Media])
      ELSE Absent]}

ReferencePatches ==
  {[NoPatch EXCEPT !.refs = refs] : refs \in SUBSET Media}
    \cup {[NoPatch EXCEPT !.parent = p] : p \in Docs}

ReferenceCreations == {[Text("b", "draft", None, None) EXCEPT !.refs = Media]}

ReferencesInit == Init /\ scenario = "references"

ReferencesSpec ==
  /\ ReferencesInit
  /\ [][Next /\ UNCHANGED scenario]_<<vars, scenario>>
  /\ TransactionFairness
=============================================================================
