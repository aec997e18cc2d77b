SPECIFICATION MCSpec
CONSTANTS
  Students = {s1}
  Teachers = {t1}
  Admins = {a1}
  Messages = {1, 2, 3}
  Threads = {1, 2}
  Gatherings = {g1}
  Files = {f1}
  Badges = {"starter", "level"}
  Achievement <- MCAchievement
  Points <- MCPoints
  Clerks = {k1}
  Handlers = {h1, h2}
  None = None
SYMMETRY MCHandlers
INVARIANTS UnreadCovers PostedWhole BadgesComplete
CHECK_DEADLOCK FALSE
