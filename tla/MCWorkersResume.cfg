SPECIFICATION WorkersSpec
CONSTANTS
  ana = ana
  budi = budi
  go101 = go101
  intro = intro
  book = book
  half = half
  gift = gift
  None = None
  Boot = boot
  Users = {ana, budi}
  Courses = {go101, intro}
  FreeCourses = {intro}
  Products = {book}
  Price <- MCPrice
  Discount <- MCDiscount
  GatewayConfigured = TRUE
  Coupons = {half, gift}
  Orders = {o1}
  Baskets <- ShopBaskets
  Requests = {r1}
  Admins = {}
  Emits = {"pending", "settlement", "refund"}
  Budget = 1
  Nil = Nil
  Objects = {1, 2}
  Generated = {2}
  Jobs = {1, 2}
  Backups = {1, 2}
  Worker = worker
  Runners = {worker}
  BatchLimit = 1
  StartWith <- MCStartWith
  MaxRequests = 1
  MaxMishaps = 1
PROPERTIES InterruptedWorkResumes
CHECK_DEADLOCK FALSE
