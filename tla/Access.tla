------------------------------- MODULE Access -------------------------------
(***************************************************************************)
(* Who may do what to a document.  Roles grant capabilities, a content     *)
(* type names the capability each operation costs, and ownership turns a   *)
(* ":own" capability into a permission on one row.  Everything here is a   *)
(* pure decision; the repositories and routes that consult it are modelled *)
(* in ContentStore.                                                        *)
(***************************************************************************)
EXTENDS Naturals

CONSTANT Nobody     \* the author of a row whose account is gone

Roles == {"subscriber", "contributor", "author", "editor", "administrator"}

Statuses == {"draft", "scheduled", "published", "archived", "trash"}

PublishableStatuses == {"published", "scheduled"}

PublicStatuses == {"published"}

-----------------------------------------------------------------------------
(* Capabilities: each role holds everything the role below it holds.       *)

SUBSCRIBER == {"content:read", "media:read"}

CONTRIBUTOR ==
  SUBSCRIBER \cup {"content:create", "content:update:own", "content:delete:own"}

AUTHOR == CONTRIBUTOR \cup {"content:publish", "media:upload", "media:update:own"}

EDITOR ==
  AUTHOR \cup {"content:update:any", "content:delete:any", "media:update:any",
               "media:delete:any", "terms:manage", "users:read"}

ADMINISTRATOR ==
  EDITOR \cup {"users:manage", "settings:manage", "plugins:manage"}

CapabilitiesFor ==
  [role \in Roles |->
     CASE role = "subscriber"    -> SUBSCRIBER
       [] role = "contributor"   -> CONTRIBUTOR
       [] role = "author"        -> AUTHOR
       [] role = "editor"        -> EDITOR
       [] role = "administrator" -> ADMINISTRATOR]

-----------------------------------------------------------------------------
(* The ownership rule.  An actor is [id, role]; an operation names the     *)
(* capability that allows it on any row and, for some, the one that allows *)
(* it on the actor's own rows.  A row nobody owns is nobody's own.         *)

AnyCapability ==
  [read   |-> "content:read",       create  |-> "content:create",
   update |-> "content:update:any", delete  |-> "content:delete:any",
   publish |-> "content:publish"]

OwnCapability ==
  [update |-> "content:update:own", delete |-> "content:delete:own"]

Holds(actor, capability) == capability \in CapabilitiesFor[actor.role]

Allows(operation, actor, owner) ==
  \/ Holds(actor, AnyCapability[operation])
  \/ /\ operation \in DOMAIN OwnCapability
     /\ Holds(actor, OwnCapability[operation])
     /\ owner # Nobody
     /\ actor.id = owner

CanRead(actor, owner, status) ==
  /\ Allows("read", actor, owner)
  /\ status \in PublicStatuses \/ Allows("update", actor, owner)

(* Being in front of the public costs content:publish at both ends of a    *)
(* write: entering, staying in, or leaving a publishable status.           *)
TouchesPublic(current, next) ==
  next \in PublishableStatuses \/ current \in PublishableStatuses

CanCreate(actor, next) ==
  /\ Allows("create", actor, Nobody)
  /\ next \in PublishableStatuses => Allows("publish", actor, Nobody)

CanWrite(actor, owner, current, next) ==
  /\ Allows("update", actor, owner)
  /\ TouchesPublic(current, next) => Allows("publish", actor, owner)

CanDelete(actor, owner, current) ==
  /\ Allows("delete", actor, owner)
  /\ current \in PublishableStatuses => Allows("publish", actor, owner)

(* Joining a translation group costs being able to write some member of it *)
(* as it stands; members is the set of rows read under the group's lock.   *)
CanJoin(actor, members) ==
  /\ Allows("create", actor, Nobody)
  /\ \E m \in members :
        CanWrite(actor, m.author, m.state.status, m.state.status)
=============================================================================
