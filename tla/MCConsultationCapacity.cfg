SPECIFICATION MCSpec
CONSTANTS
  ina = ina
  academy = academy
  hers = hers
  None = None
  Gone = gone
  Nobody = academy
  Slots = {s1, s2}
  Bookings = {b1, b2}
  Orders = {o1, o2}
  Txs = {t1, t2}
  Owners = {}
  ServiceOwner <- MCServices
  Offers <- BookingOffers
  Limit = 1
  SnapshotReads = TRUE
SYMMETRY MCSymmetry
INVARIANT CapacityRespected
