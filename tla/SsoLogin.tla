------------------------------- MODULE SsoLogin -------------------------------
(***************************************************************************)
(* Single sign-on: SsoConfigService keeps a configuration per              *)
(* organization, SsoService sends a browser to the identity provider and   *)
(* takes the assertion it comes back with, and JitProvisionerService finds *)
(* or makes the user and keeps the record of their logins.                 *)
(*                                                                         *)
(* The user and the record are made by two queries, and another login of   *)
(* the same user may come between them.  The database is external: it      *)
(* keeps emails and records unique, and any of its writes may fail.  The   *)
(* identity provider is external: it answers with any assertion, and a     *)
(* login may start there.                                                  *)
(*                                                                         *)
(* Left out: XML, names and other attributes, imported metadata, logout,   *)
(* which only builds a link, and the role that provision resolves from the *)
(* groups, which handleCallback does not pass on.                          *)
(***************************************************************************)
EXTENDS Integers, FiniteSets

CONSTANTS
  Logins,          (* logins; each is made once                               *)
  Orgs,
  Emails,
  Domains, DomainOf,   (* the domain of each email                            *)
  Settings,        (* the configurations that an administrator may save       *)
  Times,           (* moments that an assertion names, as seconds from now    *)
  ClockSkew,       (* clockSkewSeconds                                        *)
  RequireSigned,   (* requireSignedAssertions                                 *)
  Nobody,          (* no configuration, user or record, or nothing said       *)
  Unknown,         (* the organization of a record whose maker knew none      *)
  MaxChanges       (* bound: changes of a configuration                       *)

\* As far as a login depends on it.
SsoConfig == [isEnabled : BOOLEAN, jitEnabled : BOOLEAN, jitAllowedDomains : SUBSET Domains]

ProvisionedUser == [org : Orgs \cup {Unknown}, loginCount : Nat \ {0}]

ASSUME SsoAssumption ==
  /\ DomainOf \in [Emails -> Domains]
  /\ Settings \subseteq SsoConfig
  /\ Times \subseteq Int /\ ClockSkew \in Nat /\ RequireSigned \in BOOLEAN
  /\ Nobody \notin Orgs /\ Unknown \notin Orgs /\ Nobody # Unknown
  /\ Nobody \notin SsoConfig /\ Nobody \notin ProvisionedUser
  /\ MaxChanges \in Nat

VARIABLES
  config,          (* each organization's configuration, or Nobody            *)
  changes,         (* how often one was changed                               *)
  users,           (* by email: the organization of the user, or Nobody       *)
  records,         (* by email: its ProvisionedUser, or Nobody                *)
  login,           (* the logins                                              *)
  irregular        (* history, by email: the user was there before SSO, or a  *)
                   (* login of theirs was cut short or met another            *)

ssoVars == <<config, changes, users, records, login, irregular>>

NoLogin == [step |-> "idle", org |-> Nobody, email |-> Nobody, config |-> Nobody]

-----------------------------------------------------------------------------
(***************************************************************************)
(* SsoConfigService.  Each call finds the configuration and then writes    *)
(* it; only these calls do.                                                *)
(***************************************************************************)
SaveConfig(o, new) ==
  /\ changes < MaxChanges
  /\ changes' = changes + 1
  /\ config' = [config EXCEPT ![o] = new]
  /\ UNCHANGED <<users, records, login, irregular>>

CreateConfig ==
  \E o \in Orgs, s \in Settings : config[o] = Nobody /\ SaveConfig(o, s)

UpdateConfig ==
  \E o \in Orgs, s \in Settings : config[o] # Nobody /\ SaveConfig(o, s)

DeleteConfig ==
  \E o \in Orgs : config[o] # Nobody /\ SaveConfig(o, Nobody)

-----------------------------------------------------------------------------
(***************************************************************************)
(* SsoService.                                                             *)
(***************************************************************************)
Unsaved == UNCHANGED <<config, changes, users, records>>

Ends(l, how) == login' = [login EXCEPT ![l] = [NoLogin EXCEPT !.step = how]]

\* initiateLogin sends the browser away.
InitiateLogin(l) ==
  /\ login[l].step = "idle"
  /\ \E o \in Orgs :
       /\ config[o] # Nobody /\ config[o].isEnabled
       /\ login' = [login EXCEPT ![l].step = "away", ![l].org = o]
  /\ Unsaved /\ UNCHANGED irregular

\* handleCallback reads the configuration that the rest of it goes by.  Nothing
\* ties it to a login that was initiated here.
HandleCallback(l) ==
  /\ login[l].step \in {"idle", "away"}
  /\ \E o \in IF login[l].step = "away" THEN {login[l].org} ELSE Orgs :
       IF config[o] # Nobody /\ config[o].isEnabled
         THEN login' = [login EXCEPT ![l].step = "parse", ![l].org = o, ![l].config = config[o]]
         ELSE Ends(l, "failed")
  /\ Unsaved /\ UNCHANGED irregular

\* What parseSamlResponse may come to, and the email that mapSamlAttributes
\* finds in it: an attribute, or else the NameID.
Assertions ==
  [parsed : {"ok", "not XML", "no success", "no assertion", "no NameID"},
   notBefore : Times \cup {Nobody}, notOnOrAfter : Times \cup {Nobody},
   audience : Orgs \cup {Nobody}, signature : {"none", "empty", "some"},
   email : Emails]

ValidateResponseConditions(a, org) ==
  /\ a.notBefore # Nobody => a.notBefore - ClockSkew <= 0
  /\ a.notOnOrAfter # Nobody => 0 <= a.notOnOrAfter + ClockSkew
  /\ a.audience \in {Nobody, org}

VerifyAssertionSignature(a) ==
  a.signature = "some" \/ (a.signature = "none" /\ ~RequireSigned)

IsEmailDomainAllowed(email, allowed) == allowed = {} \/ DomainOf[email] \in allowed

\* provision, up to its first query.
MayProvision(email, c) ==
  c.jitEnabled /\ IsEmailDomainAllowed(email, c.jitAllowedDomains)

\* The logins of a user that are under way.
Provisioning == {"find", "create", "record", "stats"}
UnderWay(email) == {l \in Logins : login[l].step \in Provisioning /\ login[l].email = email}

\* The emails that an acceptable response may bring: provision begins with one
\* of them.
Acceptable(l) ==
  {a.email : a \in {r \in Assertions :
     /\ r.parsed = "ok"
     /\ ValidateResponseConditions(r, login[l].org)
     /\ VerifyAssertionSignature(r)
     /\ MayProvision(r.email, login[l].config)}}

Accept(l) ==
  /\ login[l].step = "parse"
  /\ \E e \in Acceptable(l) :
       /\ login' = [login EXCEPT ![l].step = "find", ![l].email = e]
       /\ irregular' = [irregular EXCEPT ![e] = @ \/ UnderWay(e) # {}]
  /\ Unsaved

\* Any other response is refused, and an assertion may always be missing.
Refuse(l) ==
  /\ login[l].step = "parse"
  /\ Ends(l, "failed")
  /\ Unsaved /\ UNCHANGED irregular

-----------------------------------------------------------------------------
(***************************************************************************)
(* JitProvisionerService.                                                  *)
(***************************************************************************)
GoesOn(l, step) == login' = [login EXCEPT ![l].step = step]

FindUser(l) ==
  /\ login[l].step = "find"
  /\ GoesOn(l, IF users[login[l].email] = Nobody THEN "create" ELSE "stats")
  /\ Unsaved /\ UNCHANGED irregular

\* Mutant: the new user's record is left to the update of the statistics.
CreateUser_ThenStats(l) ==
  /\ login[l].step = "create" /\ users[login[l].email] = Nobody
  /\ users' = [users EXCEPT ![login[l].email] = login[l].org]
  /\ GoesOn(l, "stats")
  /\ UNCHANGED <<config, changes, records, irregular>>

CreateUser(l) ==
  /\ login[l].step = "create" /\ users[login[l].email] = Nobody
  /\ users' = [users EXCEPT ![login[l].email] = login[l].org]
  /\ GoesOn(l, "record")
  /\ UNCHANGED <<config, changes, records, irregular>>

CreateRecord(l) ==
  /\ login[l].step = "record" /\ records[login[l].email] = Nobody
  /\ records' = [records EXCEPT ![login[l].email] = [org |-> login[l].org, loginCount |-> 1]]
  /\ Ends(l, "done")
  /\ UNCHANGED <<config, changes, users, irregular>>

\* A query fails: the email or the record was made by another login, or the
\* database does not answer.  The login fails with it.
QueryFails(l) ==
  /\ login[l].step \in {"find", "create", "record"}
  /\ irregular' = [irregular EXCEPT ![login[l].email] = @ \/ login[l].step = "record"]
  /\ Ends(l, "failed")
  /\ Unsaved

\* updateLoginStats: an upsert, which knows no organization.
Counted(record) ==
  IF record = Nobody THEN [org |-> Unknown, loginCount |-> 1]
                     ELSE [record EXCEPT !.loginCount = @ + 1]

UpdateLoginStats(l) ==
  /\ login[l].step = "stats"
  /\ records' = [records EXCEPT ![login[l].email] = Counted(@)]
  /\ Ends(l, "done")
  /\ UNCHANGED <<config, changes, users, irregular>>

\* "Non-fatal": the login goes on without it.
StatsFail(l) ==
  /\ login[l].step = "stats"
  /\ Ends(l, "done")
  /\ Unsaved /\ UNCHANGED irregular

-----------------------------------------------------------------------------
\* The process ends, and with it the logins under way.
SsoCrash ==
  /\ \E l \in Logins : login[l].step \in {"parse"} \cup Provisioning
  /\ irregular' = [e \in Emails |-> irregular[e] \/
                     \E l \in UnderWay(e) : login[l].step = "record"]
  /\ login' = [l \in Logins |-> IF login[l].step \in {"parse"} \cup Provisioning
                                  THEN [NoLogin EXCEPT !.step = "failed"] ELSE login[l]]
  /\ Unsaved

SsoInit ==
  /\ config = [o \in Orgs |-> Nobody]
  /\ changes = 0
  /\ users \in [Emails -> Orgs \cup {Nobody}]
  /\ records = [e \in Emails |-> Nobody]
  /\ login = [l \in Logins |-> NoLogin]
  /\ irregular = [e \in Emails |-> users[e] # Nobody]

Login(l) ==
  \/ InitiateLogin(l) \/ HandleCallback(l) \/ Accept(l) \/ Refuse(l)
  \/ FindUser(l) \/ CreateUser(l) \/ CreateRecord(l) \/ QueryFails(l)
  \/ UpdateLoginStats(l) \/ StatsFail(l)

SsoNext ==
  \/ CreateConfig \/ UpdateConfig \/ DeleteConfig
  \/ \E l \in Logins : Login(l)
  \/ SsoCrash

SsoSpec == SsoInit /\ [][SsoNext]_ssoVars

-----------------------------------------------------------------------------
Logged ==
  [step : {"idle", "away", "parse", "done", "failed"} \cup Provisioning,
   org : Orgs \cup {Nobody}, email : Emails \cup {Nobody}, config : SsoConfig \cup {Nobody}]

SsoTypeOK ==
  /\ config \in [Orgs -> Settings \cup {Nobody}]
  /\ changes \in Nat
  /\ users \in [Emails -> Orgs \cup {Nobody}]
  /\ records \in [Emails -> ProvisionedUser \cup {Nobody}]
  /\ login \in [Logins -> Logged]
  /\ irregular \in [Emails -> BOOLEAN]

\* A user whom SSO made has a record, and under the organization whose login it
\* was, once no login of theirs is under way: only a first login that was cut
\* short between the two queries, or met another login, leaves a user without
\* one, for the next login to record under 'unknown'.
FirstLoginIsRecorded ==
  \A e \in Emails :
    ~irregular[e] /\ users[e] # Nobody /\ UnderWay(e) = {} =>
      records[e] # Nobody /\ records[e].org = users[e]
=============================================================================
