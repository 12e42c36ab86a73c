------------------------------- MODULE MCAccess -------------------------------
(***************************************************************************)
(* The three parts that let a request in: the license, the login and the   *)
(* user's permissions.  They share no state, so the run takes them one at  *)
(* a time: a part moves while the other two are as they began.             *)
(***************************************************************************)
EXTENDS LicenseClient, SsoLogin, Rbac, TLC

CONSTANTS a, b, l1, l2, l3, c1, c2, null, team, shop

\* Two processes, each with a license of its own.
MCClients == {a, b}
MCKeyOf == [c \in MCClients |-> c]

\* Three logins of one user, whose email a configuration may not allow.
MCLogins == {l1, l2, l3}
MCDomainOf == [jo |-> "in"]
MCSettings == {s \in SsoConfig : s.jitAllowedDomains \in {{}, {"out"}}}

\* One user, two calls at once, and a hierarchy of two next to a role of its own.
MCCalls == {c1, c2}
MCRoleNames == {"viewer", "super_admin", "auditor"}
MCHierarchy == <<"viewer", "super_admin">>
MCPermissions == {<<"contacts", "read">>, <<"*", "*">>}
MCAsked == {<<"contacts", "read">>}
MCTeam == <<<<"ann", "viewer">>>>
MCNoTeam == <<>>

\* Two scopes beside the global one.
MCScopes == {null, team, shop}

MCSymmetry ==
  Permutations(MCClients) \cup Permutations(MCCalls) \cup Permutations({team, shop})

VARIABLE part    (* the part that moves                                       *)

MCInit ==
  /\ Init /\ SsoInit /\ RbacInit
  /\ part \in {"license", "login", "permissions"}
  /\ part # "login" => \A e \in Emails : users[e] = Nobody
  /\ part # "permissions" => created = 0

MCNext ==
  /\ \/ part = "license" /\ Next /\ UNCHANGED <<ssoVars, rbacVars>>
     \/ part = "login" /\ SsoNext /\ UNCHANGED <<vars, rbacVars>>
     \/ part = "permissions" /\ RbacNext /\ UNCHANGED <<vars, ssoVars>>
  /\ UNCHANGED part

MCSpec == MCInit /\ [][MCNext]_<<vars, ssoVars, rbacVars, part>>
===============================================================================
