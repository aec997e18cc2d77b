SPECIFICATION MCSpec
CONSTANTS
  Students = {s1}
  Teachers = {}
  Admins = {a1}
  Messages = {1, 2}
  Threads = {1, 2}
  Gatherings = {}
  Files = {}
  Badges = {}
  Achievement <- MCAchievement
  Points <- MCPoints
  Clerks = {}
  Handlers = {h1, h2}
  None = None
PROPERTY ClosedGetsNoReplies
CHECK_DEADLOCK FALSE
