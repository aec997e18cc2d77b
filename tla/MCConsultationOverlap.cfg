SPECIFICATION MCSpec
CONSTANTS
  ina = ina
  academy = academy
  hers = hers
  None = None
  Gone = gone
  Nobody = academy
  Slots = {s1, s2}
  Bookings = {b1}
  Orders = {hers}
  Txs = {t1}
  Owners = {ina}
  ServiceOwner <- MCServices
  Offers <- ShortOffers
  Limit = 1
  SnapshotReads = TRUE
INVARIANT ProviderNotDoubleBooked
