--------------------------------- MODULE Rbac ---------------------------------
(***************************************************************************)
(* Role based access control: RoleService and PermissionService edit the   *)
(* tables of roles, permissions and grants, AuthorizationService assigns   *)
(* roles and decides whether a user may do something, RbacGuard asks it    *)
(* before a request, and bootstrapRbacStep2 seeds the defaults.            *)
(*                                                                         *)
(* Every query is a step of its own and nothing is in a transaction, so a  *)
(* decision may read the assignments before an edit and the grants after   *)
(* it.  The database is external: it keeps names and keys unique, refuses  *)
(* rows that refer to nothing and deletes what refers to a deleted row.    *)
(*                                                                         *)
(* Left out: display fields and isActive, which no decision reads; an      *)
(* update without permissions; queries that only list.                     *)
(***************************************************************************)
EXTENDS Integers, Sequences, FiniteSets, SequencesExt

CONSTANTS
  Users,
  Calls,           (* calls of the services that may be under way at once     *)
  RoleNames,
  Hierarchy,       (* options.roleHierarchy, from the lowest role up          *)
  Permissions,     (* the permissions that may exist, as <<resource, action>> *)
  Asked,           (* those that authorize is asked for                       *)
  Scopes,          (* values of scopeType and scopeId, Global (null) included *)
  Global,
  Anywhere,        (* a query without a scope                                 *)
  Owner, Team,     (* whom bootstrap gives roles: Team is a sequence of       *)
                   (* <<user, role name>>                                     *)
  Missing,
  MaxIds,          (* bound: roles and permissions ever created               *)
  MaxEdits,        (* bound: calls ever begun that edit                       *)
  MaxDecisions     (* bound: calls ever begun that decide                     *)

Role == [id : Nat \ {0}, system : BOOLEAN]

ASSUME RbacAssumption ==
  /\ \A i \in 1..Len(Hierarchy) : Hierarchy[i] \in RoleNames
  /\ IsFiniteSet(Permissions) /\ Asked \subseteq Permissions
  /\ Global \in Scopes /\ Anywhere \notin Scopes
  /\ "super_admin" \in RoleNames /\ <<"*", "*">> \in Permissions
  /\ Missing \notin Nat /\ Missing \notin Role
  /\ Team \in Seq(Users \X RoleNames) /\ Owner \in Users
  /\ MaxIds \in Nat /\ MaxEdits \in Nat /\ MaxDecisions \in Nat

VARIABLES
  roles,           (* by name: its id and whether it is a system role         *)
  perms,           (* by permission: its id                                   *)
  grants,          (* RolePermission rows <<role id, permission id>>          *)
  assigned,        (* RoleAssignment rows                                     *)
  late,            (* whether the moment has passed at which rows expire that *)
                   (* do                                                      *)
  created,         (* the last id given to a role or permission               *)
  call,            (* the calls under way                                     *)
  begun,           (* how many were begun that edit and that decide           *)
  seen             (* history: what was so ever and always during a decision  *)

tables == <<roles, perms, grants, assigned, created>>
rbacVars == <<roles, perms, grants, assigned, late, created, call, begun, seen>>

-----------------------------------------------------------------------------
(***************************************************************************)
(* The defaults.                                                           *)
(***************************************************************************)
DefaultRoles ==
  LET If(n) == IF n \in RoleNames THEN <<n>> ELSE <<>>
  IN  If("super_admin") \o If("admin") \o If("manager") \o If("member") \o If("viewer")

ViewerPermissions ==
  {"contacts", "orders", "inventory", "invoicing", "expenses", "reports",
   "agents", "workflows", "channels", "users"} \X {"read"}

MemberPermissions ==
  ViewerPermissions \cup {"contacts", "orders", "expenses"} \X {"write"}
                    \cup {"agents", "workflows"} \X {"invoke"}

ManagerPermissions ==
  MemberPermissions \cup {"contacts", "orders"} \X {"delete"}
                    \cup {"inventory", "invoicing", "workflows"} \X {"write"}
                    \cup {"roles", "settings"} \X {"read"}

AdminPermissions ==
  ManagerPermissions
    \cup {"inventory", "invoicing", "expenses", "workflows", "users"} \X {"delete"}
    \cup {"agents", "channels", "users", "roles", "settings"} \X {"write"}
    \cup {"agents", "channels", "users", "roles"} \X {"manage"}
    \cup {"audit", "billing"} \X {"read"}

DefaultPermissions ==
  Permissions \cap
    (AdminPermissions \cup {"settings", "billing"} \X {"manage"}
                      \cup {<<"roles", "delete">>, <<"*", "*">>})

DefaultRolePermissions(name) ==
  CASE name = "super_admin" -> {<<"*", "*">>}
    [] name = "admin"       -> AdminPermissions
    [] name = "manager"     -> ManagerPermissions
    [] name = "member"      -> MemberPermissions
    [] name = "viewer"      -> ViewerPermissions

-----------------------------------------------------------------------------
(***************************************************************************)
(* Queries.                                                                *)
(***************************************************************************)
Exists(id) == \E n \in RoleNames : roles[n] # Missing /\ roles[n].id = id

PermissionIds(ps) == {perms[p] : p \in {q \in ps : perms[q] # Missing}}

\* Rows of RolePermission may be made: all that they refer to is there.
MayGrant(id, ids) == Exists(id) /\ ids \subseteq PermissionIds(Permissions)

Live == {a \in assigned : a.until = "never" \/ ~late}

\* Mutant: rows that have expired are found too.
GetUserRoles_Expired(user, scope) ==
  {a \in assigned : a.user = user /\ scope \in {Anywhere, a.scope}}

\* getUserRoles: a query that names no scope finds the rows of every scope.
GetUserRoles(user, scope) ==
  {a \in Live : a.user = user /\ scope \in {Anywhere, a.scope}}

\* What the roles grant: <<id, name, permission>>.
Granted ==
  {<<roles[np[1]].id, np[1], np[2]>> : np \in
     {q \in RoleNames \X Permissions :
        /\ roles[q[1]] # Missing /\ perms[q[2]] # Missing
        /\ <<roles[q[1]].id, perms[q[2]]>> \in grants}}

GetPermissionsForRoles(ids) ==
  {p \in Permissions : perms[p] # Missing /\ \E id \in ids : <<id, perms[p]>> \in grants}

HasPermission(granted, required) ==
  {<<"*", "*">>, required, <<required[1], "*">>} \cap granted # {}

\* The roles below one of the names.
ExpandRoleHierarchy(names) ==
  {Hierarchy[i] : i \in {j \in 1..Len(Hierarchy) :
                           \E k \in (j + 1)..Len(Hierarchy) : Hierarchy[k] \in names}}
    \ names

-----------------------------------------------------------------------------
(***************************************************************************)
(* Calls.                                                                  *)
(***************************************************************************)
Decisions == {"authorize", "guard"}

Resting == [op |-> "none", step |-> "idle"]

Begin(c, what) ==
  /\ call[c].step \in {"idle", "done"}
  /\ IF what.op \in Decisions
       THEN begun.decisions < MaxDecisions /\ begun' = [begun EXCEPT !.decisions = @ + 1]
       ELSE begun.edits < MaxEdits /\ begun' = [begun EXCEPT !.edits = @ + 1]
  /\ call' = [call EXCEPT ![c] = what]
  /\ UNCHANGED <<tables, late>>

At(c, ops, step) == call[c].op \in ops /\ call[c].step = step

Goes(c, step) == call' = [call EXCEPT ![c].step = step]
Returns(c) == call' = [call EXCEPT ![c] = Resting]

Reads == UNCHANGED <<tables, late, begun>>

(***************************************************************************)
(* authorize, and the guard, which has it decide and then looks for a      *)
(* role.                                                                   *)
(***************************************************************************)
BeginAuthorize(c) ==
  \E u \in Users, p \in Asked, s \in (Scopes \ {Global}) \cup {Anywhere} :
    Begin(c, [op |-> "authorize", step |-> "mine", user |-> u, need |-> p,
              scope |-> s, rows |-> {}, ids |-> {}, answer |-> "none"])

BeginGuard(c) ==
  \E u \in Users, p \in Asked, n \in RoleNames :
    Begin(c, [op |-> "guard", step |-> "mine", user |-> u, need |-> p, role |-> n,
              scope |-> Anywhere, rows |-> {}, ids |-> {}, answer |-> "none"])

Below(rows) == ExpandRoleHierarchy({a.name : a \in rows})

\* The assignments are known: their roles' ids go on, and the names below them.
Resolved(c, rows) ==
  LET ids == {a.role : a \in rows} IN
    call' = [call EXCEPT
      ![c].rows = rows, ![c].ids = ids,
      ![c].step = IF Below(rows) # {} THEN "ids" ELSE IF ids # {} THEN "perms" ELSE "done",
      ![c].answer = IF ids = {} THEN "no" ELSE @]

ReadMine(c) ==
  /\ At(c, Decisions, "mine")
  /\ LET rows == GetUserRoles(call[c].user, call[c].scope) IN
       IF call[c].scope = Anywhere
         THEN Resolved(c, rows)
         ELSE call' = [call EXCEPT ![c].step = "all", ![c].rows = rows]
  /\ Reads

\* "Also include global-scope assignments": the query names no scope, so that it
\* finds those of every other scope too.
ReadAll(c) ==
  /\ At(c, Decisions, "all")
  /\ Resolved(c, call[c].rows \cup GetUserRoles(call[c].user, Anywhere))
  /\ Reads

ReadIds(c) ==
  /\ At(c, Decisions, "ids")
  /\ call' = [call EXCEPT
       ![c].step = "perms",
       ![c].ids = @ \cup {roles[n].id : n \in {m \in Below(call[c].rows) : roles[m] # Missing}}]
  /\ Reads

ReadPermissions(c) ==
  /\ At(c, Decisions, "perms")
  /\ LET allowed == HasPermission(GetPermissionsForRoles(call[c].ids), call[c].need) IN
       call' = [call EXCEPT
         ![c].step = IF allowed /\ call[c].op = "guard" THEN "role" ELSE "done",
         ![c].answer = IF ~allowed THEN "no" ELSE IF call[c].op = "guard" THEN @ ELSE "yes"]
  /\ Reads

\* The guard's roles are looked for among the assigned ones only.
ReadRole(c) ==
  /\ At(c, {"guard"}, "role")
  /\ call' = [call EXCEPT
       ![c].step = "done",
       ![c].answer = IF \E a \in GetUserRoles(call[c].user, Anywhere) : a.name = call[c].role
                       THEN "yes" ELSE "no"]
  /\ Reads

Decide(c) ==
  \/ BeginAuthorize(c) \/ BeginGuard(c)
  \/ ReadMine(c) \/ ReadAll(c) \/ ReadIds(c) \/ ReadPermissions(c) \/ ReadRole(c)

-----------------------------------------------------------------------------
(***************************************************************************)
(* assignRole and revokeRole: the role by its name, then the row by the    *)
(* role's id.                                                              *)
(***************************************************************************)
BeginAssignment(c) ==
  \E op \in {"assign", "revoke"}, u \in Users, n \in RoleNames, s \in Scopes,
     until \in {"never", "later"} :
    /\ op = "revoke" => until = "never"
    /\ Begin(c, [op |-> op, step |-> "find", user |-> u, name |-> n, scope |-> s,
                 until |-> until, id |-> Missing])

FindByName(c) ==
  /\ At(c, {"assign", "revoke"}, "find")
  /\ LET role == roles[call[c].name] IN
       IF role = Missing
         THEN Returns(c)
         ELSE call' = [call EXCEPT ![c].step = "write", ![c].id = role.id]
  /\ Reads

Key(a) == <<a.user, a.role, a.scope>>
WithoutRow(row) == {a \in assigned : Key(a) # Key(row)}

RowOf(c) == [user |-> call[c].user, role |-> call[c].id, name |-> call[c].name,
             scope |-> call[c].scope, until |-> call[c].until]

\* A row takes the place of the one with its key; the database may tell the
\* nulls of two keys of the global scope apart, and then keeps both.
AssignRole(c) ==
  /\ At(c, {"assign"}, "write")
  /\ \/ /\ Exists(call[c].id)
        /\ \/ assigned' = WithoutRow(RowOf(c)) \cup {RowOf(c)}
           \/ call[c].scope = Global /\ assigned' = assigned \cup {RowOf(c)}
     \/ ~Exists(call[c].id) /\ UNCHANGED assigned
  /\ Returns(c)
  /\ UNCHANGED <<roles, perms, grants, late, created, begun>>

RevokeRole(c) ==
  /\ At(c, {"revoke"}, "write")
  /\ assigned' = WithoutRow(RowOf(c))
  /\ Returns(c)
  /\ UNCHANGED <<roles, perms, grants, late, created, begun>>

Assign(c) == BeginAssignment(c) \/ FindByName(c) \/ AssignRole(c) \/ RevokeRole(c)

-----------------------------------------------------------------------------
(***************************************************************************)
(* RoleService: find, resolve the permissions' names, write.               *)
(***************************************************************************)
BeginCreate(c) ==
  \E n \in RoleNames, ps \in SUBSET Asked, isSystem \in BOOLEAN :
    Begin(c, [op |-> "create", step |-> "find", name |-> n, perms |-> ps, ids |-> {},
              system |-> isSystem])

FindConflict(c) ==
  /\ At(c, {"create"}, "find")
  /\ IF roles[call[c].name] # Missing THEN Returns(c) ELSE Goes(c, "resolve")
  /\ Reads

Changes == {"update", "add", "remove"}

\* The caller has the id from a role it has seen.
BeginChange(c) ==
  \E op \in Changes \cup {"delete"}, id \in 1..created, ps \in SUBSET Permissions :
    /\ op = "delete" => ps = {}
    /\ Exists(id)
    /\ Begin(c, [op |-> op, step |-> "find", id |-> id, perms |-> ps, ids |-> {}])

\* A system role may be changed, never deleted.
FindById(c) ==
  /\ At(c, Changes \cup {"delete"}, "find")
  /\ IF \E n \in RoleNames : /\ roles[n] # Missing /\ roles[n].id = call[c].id
                             /\ call[c].op = "delete" => ~roles[n].system
       THEN Goes(c, IF call[c].op = "delete" THEN "write" ELSE "resolve")
       ELSE Returns(c)
  /\ Reads

ResolvePermissionIds(c) ==
  /\ At(c, Changes \cup {"create"}, "resolve")
  /\ IF \A p \in call[c].perms : perms[p] # Missing
       THEN call' = [call EXCEPT ![c].step = "write", ![c].ids = PermissionIds(call[c].perms)]
       ELSE Returns(c)
  /\ Reads

GrantsOf(id) == {g \in grants : g[1] = id}

CreateRole(c) ==
  /\ At(c, {"create"}, "write")
  /\ IF roles[call[c].name] = Missing /\ call[c].ids \subseteq PermissionIds(Permissions)
       THEN /\ created < MaxIds
            /\ created' = created + 1
            /\ roles' = [roles EXCEPT ![call[c].name] =
                           [id |-> created', system |-> call[c].system]]
            /\ grants' = grants \cup {created'} \X call[c].ids
       ELSE UNCHANGED <<created, roles, grants>>
  /\ Returns(c)
  /\ UNCHANGED <<perms, assigned, late, begun>>

\* Mutant: the old permissions are deleted in a query of their own.
UpdateRole_InTwo(c) ==
  /\ \/ /\ At(c, {"update"}, "write")
        /\ grants' = grants \ GrantsOf(call[c].id)
        /\ Goes(c, "rewrite")
     \/ /\ At(c, {"update"}, "rewrite")
        /\ grants' = grants \cup (IF Exists(call[c].id) THEN {call[c].id} \X call[c].ids ELSE {})
        /\ Returns(c)
  /\ UNCHANGED <<roles, perms, assigned, late, created, begun>>

\* update with permissions: deleteMany and create in one query.
UpdateRole(c) ==
  /\ At(c, {"update"}, "write")
  /\ grants' = IF MayGrant(call[c].id, call[c].ids)
                 THEN (grants \ GrantsOf(call[c].id)) \cup {call[c].id} \X call[c].ids
                 ELSE grants
  /\ Returns(c)
  /\ UNCHANGED <<roles, perms, assigned, late, created, begun>>

AddPermissions(c) ==
  /\ At(c, {"add"}, "write")
  /\ grants' = IF MayGrant(call[c].id, call[c].ids)
                 THEN grants \cup {call[c].id} \X call[c].ids
                 ELSE grants
  /\ Returns(c)
  /\ UNCHANGED <<roles, perms, assigned, late, created, begun>>

RemovePermissions(c) ==
  /\ At(c, {"remove"}, "write")
  /\ grants' = grants \ {call[c].id} \X call[c].ids
  /\ Returns(c)
  /\ UNCHANGED <<roles, perms, assigned, late, created, begun>>

DeleteRole(c) ==
  /\ At(c, {"delete"}, "write")
  /\ roles' = [n \in RoleNames |->
                 IF roles[n] # Missing /\ roles[n].id = call[c].id THEN Missing ELSE roles[n]]
  /\ grants' = grants \ GrantsOf(call[c].id)
  /\ assigned' = {a \in assigned : a.role # call[c].id}
  /\ Returns(c)
  /\ UNCHANGED <<perms, late, created, begun>>

EditRole(c) ==
  \/ BeginCreate(c) \/ FindConflict(c) \/ BeginChange(c) \/ FindById(c)
  \/ ResolvePermissionIds(c)
  \/ CreateRole(c) \/ UpdateRole(c) \/ AddPermissions(c) \/ RemovePermissions(c)
  \/ DeleteRole(c)

-----------------------------------------------------------------------------
(***************************************************************************)
(* PermissionService.                                                      *)
(***************************************************************************)
BeginPermission(c) ==
  \E p \in Permissions, op \in {"permit", "forbid"} :
    /\ op = "forbid" => perms[p] # Missing
    /\ Begin(c, [op |-> op, step |-> "find", perm |-> p, id |-> perms[p]])

\* create refuses a name that is there, delete an id that is not.
FindPermission(c) ==
  /\ At(c, {"permit", "forbid"}, "find")
  /\ LET there == perms[call[c].perm] IN
       IF (call[c].op = "permit" /\ there = Missing) \/ (call[c].op = "forbid" /\ there = call[c].id)
         THEN Goes(c, "write")
         ELSE Returns(c)
  /\ Reads

CreatePermission(c) ==
  /\ At(c, {"permit"}, "write")
  /\ IF perms[call[c].perm] = Missing
       THEN /\ created < MaxIds
            /\ created' = created + 1
            /\ perms' = [perms EXCEPT ![call[c].perm] = created']
       ELSE UNCHANGED <<created, perms>>
  /\ Returns(c)
  /\ UNCHANGED <<roles, grants, assigned, late, begun>>

DeletePermission(c) ==
  /\ At(c, {"forbid"}, "write")
  /\ perms' = [perms EXCEPT ![call[c].perm] = IF @ = call[c].id THEN Missing ELSE @]
  /\ grants' = {g \in grants : g[2] # call[c].id}
  /\ Returns(c)
  /\ UNCHANGED <<roles, assigned, late, created, begun>>

EditPermission(c) ==
  \/ BeginPermission(c) \/ FindPermission(c)
  \/ CreatePermission(c) \/ DeletePermission(c)

-----------------------------------------------------------------------------
(***************************************************************************)
(* bootstrapRbacStep2: seedRbac, then the owner and the team.  Its loops   *)
(* go through what is left to do.                                          *)
(***************************************************************************)
Bootstrap(c) ==
  Begin(c, [op |-> "bootstrap", step |-> "permissions", id |-> Missing, ids |-> {},
            at |-> 1])

Bootstraps(c, step) == At(c, {"bootstrap"}, step)

Members == <<<<Owner, "super_admin">>>> \o Team

\* What a loop goes through, and the loop after it.
Work(step) == CASE step = "permissions" -> SetToSeq(DefaultPermissions)
                [] step \in {"roles", "wire"} -> DefaultRoles
                [] step = "member" -> Members
After(step) == [permissions |-> "roles", roles |-> "wire", wire |-> "member"][step]

ToDo(c, step) == Work(step)[call[c].at]

Loop(c, step) ==
  IF call[c].at < Len(Work(step))
    THEN call' = [call EXCEPT ![c].step = step, ![c].at = @ + 1]
    ELSE IF step = "member"
           THEN Returns(c)
           ELSE call' = [call EXCEPT ![c].step = After(step), ![c].at = 1]

SeedPermission(c) ==
  /\ Bootstraps(c, "permissions")
  /\ IF perms[ToDo(c, "permissions")] = Missing
       THEN /\ created < MaxIds
            /\ created' = created + 1
            /\ perms' = [perms EXCEPT ![ToDo(c, "permissions")] = created']
       ELSE UNCHANGED <<created, perms>>
  /\ Loop(c, "permissions")
  /\ UNCHANGED <<roles, grants, assigned, late, begun>>

\* A role of that name that is there becomes a system role.
SeedRole(c) ==
  /\ Bootstraps(c, "roles")
  /\ IF roles[ToDo(c, "roles")] = Missing
       THEN /\ created < MaxIds
            /\ created' = created + 1
            /\ roles' = [roles EXCEPT ![ToDo(c, "roles")] = [id |-> created', system |-> TRUE]]
       ELSE /\ roles' = [roles EXCEPT ![ToDo(c, "roles")].system = TRUE]
            /\ UNCHANGED created
  /\ Loop(c, "roles")
  /\ UNCHANGED <<perms, grants, assigned, late, begun>>

\* The role and its default permissions are looked up, then wired.
FindToWire(c) ==
  /\ Bootstraps(c, "wire")
  /\ LET role == roles[ToDo(c, "wire")] IN
       IF role = Missing
         THEN Loop(c, "wire")
         ELSE call' = [call EXCEPT
                ![c].step = "wiring", ![c].id = role.id,
                ![c].ids = PermissionIds(Permissions \cap DefaultRolePermissions(ToDo(c, "wire")))]
  /\ Reads

Wire(c) ==
  /\ Bootstraps(c, "wiring")
  /\ IF MayGrant(call[c].id, call[c].ids)
       THEN /\ grants' = grants \cup {call[c].id} \X call[c].ids
            /\ Loop(c, "wire")
       ELSE Returns(c) /\ UNCHANGED grants
  /\ UNCHANGED <<roles, perms, assigned, late, created, begun>>

FindMember(c) ==
  /\ Bootstraps(c, "member")
  /\ LET role == roles[ToDo(c, "member")[2]] IN
       IF role = Missing
         THEN Loop(c, "member")
         ELSE call' = [call EXCEPT ![c].step = "joining", ![c].id = role.id]
  /\ Reads

\* The upsert leaves a row that is there alone, or the nulls of its key are told
\* apart; an error is caught for the team, not for the owner.
Join(c) ==
  /\ Bootstraps(c, "joining")
  /\ LET row == [user |-> ToDo(c, "member")[1], role |-> call[c].id, name |-> ToDo(c, "member")[2],
                 scope |-> Global, until |-> "never"]
     IN /\ \/ Exists(row.role) /\ assigned' = assigned \cup {row}
           \/ ~Exists(row.role) /\ UNCHANGED assigned
           \/ WithoutRow(row) # assigned /\ UNCHANGED assigned
        /\ IF ~Exists(row.role) /\ call[c].at = 1
             THEN Returns(c)
             ELSE Loop(c, "member")
  /\ UNCHANGED <<roles, perms, grants, late, created, begun>>

Bootstrapping(c) ==
  \/ Bootstrap(c) \/ SeedPermission(c) \/ SeedRole(c)
  \/ FindToWire(c) \/ Wire(c) \/ FindMember(c) \/ Join(c)

-----------------------------------------------------------------------------
\* The moment passes at which rows expire.
Expire ==
  /\ ~late
  /\ \E a \in assigned : a.until = "later"
  /\ late' = TRUE
  /\ UNCHANGED <<tables, call, begun>>

(***************************************************************************)
(* History: the rows and grants that were there at some moment of a        *)
(* decision, and those that no call under way meanwhile was to take away.  *)
(***************************************************************************)
Unwatched == [everRows |-> {}, everGrants |-> {}, keptRows |-> {}, keptGrants |-> {}]

TakesRow(k, a) ==
  \/ k.op \in {"assign", "revoke"} /\ <<k.user, k.name, k.scope>> = <<a.user, a.name, a.scope>>
  \/ k.op = "delete" /\ k.id = a.role

TakesGrant(k, g) ==
  \/ k.op = "update" /\ k.id = g[1] /\ g[3] \notin k.perms
  \/ k.op = "remove" /\ k.id = g[1] /\ g[3] \in k.perms
  \/ k.op = "delete" /\ k.id = g[1]
  \/ k.op = "forbid" /\ k.perm = g[3]

\* Those that no call that goes on takes away.
KeptRows(rows) == {a \in rows : \A c \in Calls : ~TakesRow(call'[c], a)}
KeptGrants(granted) == {g \in granted : \A c \in Calls : ~TakesGrant(call'[c], g)}

Watch(c) ==
  LET new == call'[c] IN
    IF new.op \notin Decisions THEN Unwatched
    ELSE IF new.step = "done" THEN seen[c]
    ELSE IF new.step = "mine"
      THEN [everRows |-> Live', everGrants |-> Granted',
            keptRows |-> KeptRows({a \in assigned' : a.until = "never"}),
            keptGrants |-> KeptGrants(Granted')]
      ELSE [everRows |-> seen[c].everRows \cup Live',
            everGrants |-> seen[c].everGrants \cup Granted',
            keptRows |-> KeptRows(seen[c].keptRows),
            keptGrants |-> KeptGrants(seen[c].keptGrants)]

\* The ids that the default permissions got, after those of the roles.
SeededIds ==
  LET first == Len(DefaultRoles) + 1
      last == Len(DefaultRoles) + Cardinality(DefaultPermissions)
  IN CHOOSE f \in [DefaultPermissions -> first..last] :
       \A p, q \in DefaultPermissions : f[p] = f[q] => p = q

\* A new database, or one that bootstrap has been through.
RbacInit ==
  /\ \/ /\ roles = [n \in RoleNames |-> Missing]
        /\ perms = [p \in Permissions |-> Missing]
        /\ grants = {} /\ assigned = {} /\ created = 0
     \/ LET RoleId(n) == CHOOSE i \in 1..Len(DefaultRoles) : DefaultRoles[i] = n
            Seeded == {DefaultRoles[i] : i \in 1..Len(DefaultRoles)}
        IN /\ roles = [n \in RoleNames |-> IF n \in Seeded
                                            THEN [id |-> RoleId(n), system |-> TRUE]
                                            ELSE Missing]
           /\ perms = [p \in Permissions |-> IF p \in DefaultPermissions
                                              THEN SeededIds[p] ELSE Missing]
           /\ grants = UNION {{RoleId(n)} \X {SeededIds[p] : p \in Permissions \cap DefaultRolePermissions(n)}
                               : n \in Seeded}
           /\ assigned = {[user |-> Members[i][1], role |-> RoleId(Members[i][2]),
                           name |-> Members[i][2], scope |-> Global, until |-> "never"]
                          : i \in {j \in 1..Len(Members) : Members[j][2] \in Seeded}}
           /\ created = Len(DefaultRoles) + Cardinality(DefaultPermissions)
  /\ late = FALSE
  /\ begun = [edits |-> 0, decisions |-> 0]
  /\ call = [c \in Calls |-> Resting]
  /\ seen = [c \in Calls |-> Unwatched]

RbacNext ==
  /\ \/ Expire
     \/ \E c \in Calls :
          Decide(c) \/ Assign(c) \/ EditRole(c) \/ EditPermission(c) \/ Bootstrapping(c)
  /\ seen' = [c \in Calls |-> Watch(c)]

RbacSpec == RbacInit /\ [][RbacNext]_rbacVars

-----------------------------------------------------------------------------
Rows == [user : Users, role : Nat, name : RoleNames, scope : Scopes,
         until : {"never", "later"}]

Ids == Nat \cup {Missing}

\* The calls, by what they do.
AuthorizeCalls ==
  [op : {"authorize"}, step : {"mine", "all", "ids", "perms", "done"},
   user : Users, need : Permissions, scope : Scopes \cup {Anywhere},
   rows : SUBSET Rows, ids : SUBSET Nat, answer : {"none", "yes", "no"}]
GuardCalls ==
  [op : {"guard"}, step : {"mine", "ids", "perms", "role", "done"},
   user : Users, need : Permissions, role : RoleNames, scope : {Anywhere},
   rows : SUBSET Rows, ids : SUBSET Nat, answer : {"none", "yes", "no"}]
AssignmentCalls ==
  [op : {"assign", "revoke"}, step : {"find", "write"}, user : Users, name : RoleNames,
   scope : Scopes, until : {"never", "later"}, id : Ids]
CreateCalls ==
  [op : {"create"}, step : {"find", "resolve", "write"}, name : RoleNames,
   perms : SUBSET Permissions, ids : SUBSET Nat, system : BOOLEAN]
ChangeCalls ==
  [op : Changes \cup {"delete"}, step : {"find", "resolve", "write"}, id : Nat,
   perms : SUBSET Permissions, ids : SUBSET Nat]
PermissionCalls ==
  [op : {"permit", "forbid"}, step : {"find", "write"}, perm : Permissions, id : Ids]
BootstrapCalls ==
  [op : {"bootstrap"}, id : Ids, ids : SUBSET Nat, at : Nat \ {0},
   step : {"permissions", "roles", "wire", "wiring", "member", "joining"}]

RbacTypeOK ==
  /\ created \in Nat
  /\ roles \in [RoleNames -> Role \cup {Missing}]
  /\ perms \in [Permissions -> Ids]
  /\ grants \subseteq Nat \X Nat
  /\ assigned \subseteq Rows
  /\ late \in BOOLEAN
  /\ call \in [Calls -> {Resting} \cup AuthorizeCalls \cup GuardCalls
                        \cup AssignmentCalls \cup CreateCalls \cup ChangeCalls
                        \cup PermissionCalls \cup BootstrapCalls]
  /\ begun \in [edits : Nat, decisions : Nat]

\* Whether assignments, of whatever scope, and grants let a decision through:
\* some role of the user's, or one below it in the hierarchy, has the
\* permission, and the guard finds its role.
Entitles(c, rows, granted) ==
  LET mine == {a \in rows : a.user = call[c].user} IN
    /\ \E a \in mine, g \in granted :
         /\ HasPermission({g[3]}, call[c].need)
         /\ g[1] = a.role \/ g[2] \in ExpandRoleHierarchy({a.name})
    /\ call[c].op = "guard" => \E a \in mine : a.name = call[c].role

Decided(c, answer) == At(c, Decisions, "done") /\ call[c].answer = answer

\* The assignments that count as the comment in authorize has it: where a scope
\* is named, its own and the global ones.
InScope(c, rows) ==
  {a \in rows : call[c].scope = Anywhere \/ a.scope \in {call[c].scope, Global}}

\* A user is let through only by an assignment that was in force and a grant
\* that was there at some moment of the decision, though not always the same
\* moment: authorize reads them one after the other while roles are revoked,
\* expire, and are edited and deleted.  The assignment is one that counts for
\* the scope asked for; or, where a scope is asked for, one of another scope,
\* which ScopeIsRespected denies and authorize lets in.
AllowedWasGranted ==
  \A c \in Calls : Decided(c, "yes") =>
    LET rows == seen[c].everRows
        counting == InScope(c, rows)
    IN  \/ Entitles(c, counting, seen[c].everGrants)
        \/ /\ call[c].scope # Anywhere
           /\ Entitles(c, rows \ counting, seen[c].everGrants)

\* What a comment of authorize says, "Also include global-scope assignments if
\* a scope is specified": nobody is let through by an assignment of some other
\* scope alone.
ScopeIsRespected ==
  \A c \in Calls :
    Decided(c, "yes") => Entitles(c, InScope(c, seen[c].everRows), seen[c].everGrants)

\* A user with an assignment that counts for the scope asked for, and a grant,
\* that no call under way meanwhile is to take away is let through, whatever
\* else is edited: update replaces a role's permissions and keeps those that
\* stay, and the ids of the roles below are looked up after the assignments.
KeptGrantAllows ==
  \A c \in Calls :
    Decided(c, "no") => ~Entitles(c, InScope(c, seen[c].keptRows), seen[c].keptGrants)
=============================================================================
