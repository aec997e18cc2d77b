SPECIFICATION FairSpec
CONSTANTS
  None = None
  Course = Course
  Nowhere = Nowhere
  Ids = {1, 2, 3, 4, 5, 6, 7, 8, 9, 10, 11}
  Kind <- MCKind
  Instructors = {ina}
  Admins = {adm}
  Orders = {1, 2}
  Passes = {0, 70}
  Limits = {0, 1, 3}
  Days = {0, 1}
  StartContent <- MCStartContent
  MaxEdits = 2
  Users = {u}
  Tabs = {t1, t2}
  MaxRequests = 5
  LastDay = 1
INVARIANTS InOrder AttemptsBounded CertificateEarned XPTruthful
PROPERTIES PublishingIsAdmins CompletionFollows
CHECK_DEADLOCK FALSE
