SPECIFICATION MCSpec
CONSTANTS
  ina = ina
  academy = academy
  hers = hers
  None = None
  Gone = gone
  Nobody = academy
  Slots = {s1, s2}
  Bookings = {b1, b2}
  Orders = {o1, o2, hers}
  Txs = {t1, t2}
  Owners = {ina}
  ServiceOwner <- MCServices
  Offers <- MCOffers
  Limit = 1
  SnapshotReads = TRUE
SYMMETRY MCSymmetry
INVARIANTS OneBookingPerOrder BookedSlotsExist ProviderNotDoubleBooked
PROPERTIES BookingsFit ClosedIsFinal ImplementsAgenda
