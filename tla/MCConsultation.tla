--------------------------- MODULE MCConsultation ---------------------------
(* Small instances of Consultation.  A behaviour of the largest is about   *)
(* two bookings in the academy's slots, or about the slots of an           *)
(* instructor and one of the academy's, with one booking.                  *)
EXTENDS Consultation, TLC

CONSTANTS ina, academy, hers   \* "hers" is an order for the instructor's service

VARIABLE focus

At(h) == [hour |-> h, padded |-> TRUE]
Short(h) == [hour |-> h, padded |-> FALSE]
Slot(u, from, to, n) ==
  [owner |-> u, start |-> from, end |-> to, capacity |-> n, open |-> TRUE]

MCServices == [o \in Orders |-> IF o = hers THEN ina ELSE academy]

\* The academy's slots, saved with room for one or for two.
BookingOffers == {Slot(academy, At(9), At(10), 1), Slot(academy, At(9), At(10), 2)}
\* An instructor's hours, two of which overlap, and a slot of the academy's.
SlotOffers == {Slot(ina, At(9), At(11), 1), Slot(ina, At(10), At(12), 1),
               Slot(ina, At(11), At(12), 1), Slot(academy, At(9), At(10), 1)}
MCOffers == BookingOffers \cup SlotOffers
\* "9:00" to "11:00" and "10:00" to "12:00".
ShortOffers == {Slot(ina, Short(9), At(11), 1), Slot(ina, At(10), At(12), 1)}

Offered(offers) == \A t \in Txs : tx'[t].offer \in offers \cup {None}
BookingsStep == Offered(BookingOffers) /\ hers \notin paid'
SlotsStep ==
  /\ Offered(SlotOffers \cup ShortOffers) /\ paid' \subseteq {hers}
  /\ Cardinality({b \in Bookings : bookings'[b] # None}) <= 1

MCInit == Init /\ focus \in {"bookings", "slots"} /\ (Orders = {hers} => focus = "slots")
MCNext ==
  /\ UNCHANGED focus
  /\ Next
  /\ IF focus = "bookings" THEN BookingsStep ELSE SlotsStep
MCSpec == MCInit /\ [][MCNext]_<<vars, focus>>

MCSymmetry == Permutations(Txs) \cup Permutations(Slots) \cup Permutations(Bookings)
              \cup Permutations(Orders \ {hers})
=============================================================================
