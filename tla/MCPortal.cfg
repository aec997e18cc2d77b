SPECIFICATION MCSpec
CONSTANTS
  None = None
  Users = {1, 2}
  Passwords = {1, 2}
  Secret = 0
  StartAccounts <- MCStartAccounts
  MaxAttempts = 2
  Tabs = {t1, t2}
  MaxRequests = 4
  Pairs = {1, 2, 3}
  Codes = {1, 2}
  Links = {1, 2}
  Null = Null
  Inquiries = {1, 2}
  Jobs = {1, 2}
  Applications = {1, 2, 3}
  People = {1, 2}
  Headcounts = {1, 2}
  Desks = {d1, d2}
  MaxCalls = 4
  MaxInvitations = 2
  StartPools <- MCStartPools
SYMMETRY Symmetry
INVARIANTS RevokedStaysOut UsedOnce AdminRemains OneJobPerInquiry OnceEach
PROPERTIES VerifiedKept HiresFit
CHECK_DEADLOCK FALSE
