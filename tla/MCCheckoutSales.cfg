SPECIFICATION SaleSpec
CONSTANTS
  ana = ana
  budi = budi
  go101 = go101
  intro = intro
  book = book
  half = half
  gift = gift
  None = None
  Boot = boot
  Users = {ana, budi}
  Courses = {go101, intro}
  FreeCourses = {intro}
  Products = {book}
  Price <- MCPrice
  Discount <- MCDiscount
  GatewayConfigured = TRUE
  Coupons = {half}
  Orders = {o1, o2}
  Baskets <- SaleBaskets
  Requests = {r1, r2}
  Admins = {a1}
  Emits = {"pending", "capture", "challenge", "settlement", "cancel", "deny", "refund"}
  Budget = 2
SYMMETRY MCSymmetry
INVARIANTS PaidIsFulfilled GrantsAreBacked CounterExact
PROPERTIES StatusIsReported ImplementsEntitlement
