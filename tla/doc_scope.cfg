\* What the comment quoted at ScopeIsRespected says.
SPECIFICATION MCSpec

CONSTANTS
  a = a
  b = b
  Clients <- MCClients
  Keys <- MCClients
  KeyOf <- MCKeyOf
  None = None
  Empty = Empty
  Garbled = Garbled
  Duration = 1
  Grace = 2
  Leases = {2}
  MaxRetries = 2
  MaxTime = 0

  l1 = l1
  l2 = l2
  l3 = l3
  Logins <- MCLogins
  Orgs = {"acme", "zen"}
  Emails = {"jo"}
  Domains = {"in", "out"}
  DomainOf <- MCDomainOf
  Settings <- MCSettings
  Times = {1, 2}
  ClockSkew = 1
  RequireSigned = TRUE
  Nobody = Nobody
  Unknown = "unknown"
  MaxChanges = 0

  c1 = c1
  c2 = c2
  Calls <- MCCalls
  Users = {"ann", "bob"}
  RoleNames <- MCRoleNames
  Hierarchy <- MCHierarchy
  Permissions <- MCPermissions
  Asked <- MCAsked
  null = null
  team = team
  shop = shop
  Scopes <- MCScopes
  Global = null
  Anywhere = "any"
  Owner = "bob"
  Team <- MCNoTeam
  Missing = Missing
  MaxIds = 5
  MaxEdits = 1
  MaxDecisions = 1

SYMMETRY MCSymmetry

INVARIANTS
  ScopeIsRespected

CHECK_DEADLOCK FALSE
