------------------------------- MODULE Agenda -------------------------------
(***************************************************************************)
(* What the academy promises about consultations, without transactions,    *)
(* locks or views: every operation happens at one instant, on the rows as  *)
(* they are then.                                                          *)
(***************************************************************************)
EXTENDS Integers, FiniteSets

CONSTANTS
  Slots, Bookings, Orders,
  Offers,         \* what a slot may be
  Clashes,        \* pairs of offers no provider has both of
  Nobody,         \* the owner whose offers never clash
  ServiceOwner,   \* Orders -> whose slot the service needs
  Limit,          \* how often a booking may be moved
  Exact,          \* moves and revivals count the seats as they are
  None, Gone

VARIABLES
  slots,      \* an offer, None or Gone
  bookings,   \* None or a row
  paid        \* paid orders

vars == <<slots, bookings, paid>>

Init ==
  /\ slots = [s \in Slots |-> None]
  /\ bookings = [b \in Bookings |-> None]
  /\ paid = {}

Active == {"pending", "confirmed"}
Closed == {"cancelled", "completed"}

Live(s) == slots[s] \in Offers
Made == {b \in Bookings : bookings[b] # None}
Taken(s) == {b \in Made : bookings[b].slot = s /\ bookings[b].status \in Active}

Open(s) == Live(s) /\ slots[s].open
HasSeat(s, except) == Cardinality(Taken(s) \ except) < slots[s].capacity

Agrees(f, except) ==
  f.owner = Nobody \/ \A x \in Slots \ except :
    Live(x) /\ slots[x].owner = f.owner => <<slots[x], f>> \notin Clashes

\* A paid order is booked once, in a slot of its service's owner.
Book(b, o, s) ==
  /\ o \in paid
  /\ bookings[b] = None
  /\ \A c \in Made : bookings[c].order # o
  /\ Open(s) /\ HasSeat(s, {})
  /\ slots[s].owner = ServiceOwner[o]
  /\ bookings' = [bookings EXCEPT ![b] = [slot |-> s, order |-> o,
                                          status |-> "confirmed", moves |-> 0]]
  /\ UNCHANGED <<slots, paid>>

MoveTo(b, s) ==
  /\ b \in Made
  /\ bookings[b].status \notin Closed
  /\ bookings[b].slot # s
  /\ bookings[b].moves < Limit
  /\ Open(s) /\ (Exact => HasSeat(s, {}))
  /\ slots[s].owner = slots[bookings[b].slot].owner
  /\ bookings' = [bookings EXCEPT ![b].slot = s, ![b].status = "confirmed",
                                  ![b].moves = @ + 1]
  /\ UNCHANGED <<slots, paid>>

\* By its customer or by the provider.
Close(b, status) ==
  /\ b \in Made
  /\ bookings' = [bookings EXCEPT ![b].status = status]
  /\ UNCHANGED <<slots, paid>>

Revive(b, status) ==
  LET s == bookings[b].slot IN
  /\ b \in Made
  /\ Open(s) /\ (Exact => HasSeat(s, {b}))
  /\ bookings' = [bookings EXCEPT ![b].status = status]
  /\ UNCHANGED <<slots, paid>>

AddSlot(s, f) ==
  /\ slots[s] = None
  /\ Agrees(f, {})
  /\ slots' = [slots EXCEPT ![s] = f]
  /\ UNCHANGED <<bookings, paid>>

ChangeSlot(s, f) ==
  /\ Live(s)
  /\ Agrees(f, {s})
  /\ Cardinality(Taken(s)) <= f.capacity
  /\ slots' = [slots EXCEPT ![s] = f]
  /\ UNCHANGED <<bookings, paid>>

RemoveSlot(s) ==
  /\ Live(s)
  /\ \A b \in Made : bookings[b].slot # s
  /\ slots' = [slots EXCEPT ![s] = Gone]
  /\ UNCHANGED <<bookings, paid>>

OrderChanges(o) ==
  /\ paid' = IF o \in paid THEN paid \ {o} ELSE paid \cup {o}
  /\ UNCHANGED <<slots, bookings>>

Next ==
  \/ \E b \in Bookings, s \in Slots : MoveTo(b, s) \/ \E o \in Orders : Book(b, o, s)
  \/ \E b \in Bookings : \/ \E status \in Closed \cup {"no_show"} : Close(b, status)
                        \/ \E status \in Active : Revive(b, status)
  \/ \E s \in Slots : RemoveSlot(s) \/ \E f \in Offers : AddSlot(s, f) \/ ChangeSlot(s, f)
  \/ \E o \in Orders : OrderChanges(o)

Spec == Init /\ [][Next]_vars
=============================================================================
