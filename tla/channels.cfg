\* One channel of each type, its adapters and the agents bound to them.
SPECIFICATION ChannelsSpec
CONSTANTS
  ann = ann
  bob = bob
  room = room
  alone = alone
  session = session
  g1 = g1
  b1 = b1
  b2 = b2
  p1 = p1
  p2 = p2
  c1 = c1
  c2 = c2
  nobody = nobody
  Nobody = nobody
  NoGroup = alone
  Session = session
  Kinds = {"line", "facebook", "instagram", "tiktok", "whatsapp", "telegram",
           "slack", "discord", "email", "webchat"}
  Agents = {g1}
  Bindings = {b1, b2}
  Polls = {p1, p2}
  Callers = {c1, c2}
  Events <- MCEvents
  MaxAgain = 1
  MaxAdapters = 2
  MaxCalls = 5
  MaxRacing = 4
SYMMETRY Symmetry
INVARIANTS
  ForgottenWasHeard
  HeardInOrder
  RepliesReturn
CHECK_DEADLOCK FALSE
