SPECIFICATION SaleSpec
CONSTANTS
  ana = ana
  budi = budi
  go101 = go101
  intro = intro
  book = book
  half = half
  gift = gift
  None = None
  Boot = boot
  Users = {ana, budi}
  Courses = {go101, intro}
  FreeCourses = {intro}
  Products = {book}
  Price <- MCPrice
  Discount <- MCDiscount
  GatewayConfigured = TRUE
  Coupons = {half}
  Orders = {o1}
  Baskets <- SaleBaskets
  Requests = {r1}
  Admins = {}
  Emits = {"pending", "settlement"}
  Budget = 0
PROPERTY CancelOnlyPending
