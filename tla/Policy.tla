------------------------------- MODULE Policy -------------------------------
(***************************************************************************)
(* The role matrix and its one resolution rule, translated from            *)
(* platform/policy.  An access is the record the trip-access middleware    *)
(* loads ONCE, before the handler's transaction begins:                    *)
(*   [user |-> ..., role |-> a role, participant |-> a ledger identity]    *)
(* It is therefore a value a handler carries, not a variable it reads      *)
(* again: the modules that need a stale access keep it in a request.       *)
(***************************************************************************)

Roles == {"OWNER", "EDITOR", "CONTRIBUTOR", "VIEWER"}

ViewerActions ==
  {"trip:view", "trip:duplicate", "comment:create", "suggestion:create",
   "export:run", "expense:view-own", "settlement:record-own",
   "settlement:confirm-own"}

ContributorActions ==
  ViewerActions \cup
  {"block:create", "block:edit-own", "comment:resolve-own", "packing:edit",
   "notes:edit", "expense:view", "expense:create", "expense:edit-own"}

EditorActions ==
  ContributorActions \cup
  {"trip:edit", "trip:archive", "day:manage", "block:edit-any",
   "variant:create", "member:invite", "comment:resolve-any",
   "suggestion:review", "share:manage", "expense:edit-any",
   "participant:manage", "settlement:void", "ledger:configure"}

OwnerActions ==
  EditorActions \cup
  {"trip:delete", "trip:transfer-ownership", "variant:promote", "member:manage"}

\* MATRIX: what a role may do.
Permitted(role) ==
  CASE role = "OWNER"       -> OwnerActions
    [] role = "EDITOR"      -> EditorActions
    [] role = "CONTRIBUTOR" -> ContributorActions
    [] role = "VIEWER"      -> ViewerActions

\* The three actions that fall back to an own-variant for the resource's author.
OwnVariant ==
  [action \in {"block:edit-any", "comment:resolve-any", "expense:edit-any"} |->
     CASE action = "block:edit-any"      -> "block:edit-own"
       [] action = "comment:resolve-any" -> "comment:resolve-own"
       [] action = "expense:edit-any"    -> "expense:edit-own"]

\* can(access, action) without a resource: the coarse gate of a route.
May(access, action) == action \in Permitted(access.role)

\* can(access, action, {createdBy}) for one of the -any actions.
MayOn(access, action, author) ==
  \/ May(access, action)
  \/ author = access.user /\ May(access, OwnVariant[action])
=============================================================================
