---------------------------- MODULE Consultation ----------------------------
(***************************************************************************)
(* Consultation slots and the bookings made in them.                       *)
(*                                                                         *)
(* Every operation is a transaction that locks rows one after the other    *)
(* (SELECT ... FOR UPDATE) and holds them to its end.  A step takes at     *)
(* most one lock and does what follows it, up to the next lock or to an    *)
(* insert.  A locking read sees the present row.  With SnapshotReads a     *)
(* plain read sees the bookings as they were at the first plain read of    *)
(* its transaction (REPEATABLE READ, the server's default, which the       *)
(* connection string leaves as it is), otherwise as they are.              *)
(***************************************************************************)
EXTENDS Integers, FiniteSets

CONSTANTS
  Slots, Bookings,   \* the ids the tables may hand out (bound)
  Orders,            \* orders for a service that needs a booking time (bound)
  Owners,            \* instructors and admins who may own a slot
  Nobody,            \* owner 0, the academy's own slots
  ServiceOwner,      \* Orders -> whose slot the service needs
  Offers,            \* what slot forms may contain (bound)
  Limit,             \* ConsultationRescheduleLimit
  Txs,               \* transactions that may be in flight (bound)
  SnapshotReads,
  None,              \* no row, no value
  Gone               \* a row that was deleted: its id is not used again

Time == [hour: 0 .. 23, padded: BOOLEAN]   \* "9:00" or "09:00"
Offer == [owner: Owners \cup {Nobody}, start: Time, end: Time, capacity: 1 .. 100,
          open: BOOLEAN]

ASSUME ConsultationAssumption ==
  /\ Nobody \notin Owners
  /\ None \notin Slots \cup Bookings \cup Orders \cup Owners \cup Txs \cup {Nobody, Gone}
  /\ {None, Gone} \cap Offers = {}
  /\ ServiceOwner \in [Orders -> Owners \cup {Nobody}]
  /\ Offers \subseteq Offer
  /\ \A f \in Offers : /\ f.start.hour < f.end.hour
                       /\ f.owner # Nobody => f.capacity = 1
  /\ Limit \in 0 .. 10
  /\ SnapshotReads \in BOOLEAN
  /\ IsFiniteSet(Bookings)

VARIABLES
  slots,      \* consultation_slots: an offer, None or Gone
  bookings,   \* consultation_bookings: None or a row
  paid,       \* orders whose status is "success"
  tx,         \* transactions in flight
  lock        \* the transaction that holds a row

vars == <<slots, bookings, paid, tx, lock>>

-----------------------------------------------------------------------------
(* Rows, locks and views. *)

Active == {"pending", "confirmed"}
Closed == {"cancelled", "completed"}
BookingStatuses == Active \cup Closed \cup {"no_show"}
BookingRow == [slot: Slots, order: Orders, status: BookingStatuses, moves: Nat]
Rows == Slots \cup Bookings \cup Orders \cup Owners

Tx == [pc: {"idle", "order", "seat", "insert", "current", "next", "revive",
            "create", "insertSlot", "edit", "save"},
       order: Orders \cup {None}, booking: Bookings \cup {None}, slot: Slots \cup {None},
       offer: Offers \cup {None}, status: Active \cup {None},
       fixed: BOOLEAN, view: SUBSET (Bookings \X Slots)]
Idle == [pc |-> "idle", order |-> None, booking |-> None, slot |-> None,
         offer |-> None, status |-> None, fixed |-> FALSE, view |-> {}]

TypeOK ==
  /\ slots \in [Slots -> Offers \cup {None, Gone}]
  /\ bookings \in [Bookings -> BookingRow \cup {None}]
  /\ paid \subseteq Orders
  /\ tx \in [Txs -> Tx]
  /\ lock \in [Rows -> Txs \cup {None}]

Init ==
  /\ slots = [s \in Slots |-> None]
  /\ bookings = [b \in Bookings |-> None]
  /\ paid = {}
  /\ tx = [t \in Txs |-> Idle]
  /\ lock = [x \in Rows |-> None]

Live(s) == slots[s] \in Offers
Booked == {b \in Bookings : bookings[b] # None}
ActivePairs == {p \in Booked \X Slots : /\ bookings[p[1]].slot = p[2]
                                        /\ bookings[p[1]].status \in Active}

Free(x, t) == lock[x] \in {None, t}
Lock(x, t) == lock' = [lock EXCEPT ![x] = t]

\* Commit or rollback.
End(t) ==
  /\ tx' = [tx EXCEPT ![t] = Idle]
  /\ lock' = [x \in Rows |-> IF lock[x] = t THEN None ELSE lock[x]]

\* A plain read, and what the transaction's view then is.
View(t) == IF SnapshotReads /\ tx[t].fixed THEN tx[t].view ELSE ActivePairs
ActiveSeen(t, s) == {b \in Bookings : <<b, s>> \in View(t)}
Fixed(r) == IF SnapshotReads THEN [r EXCEPT !.fixed = TRUE, !.view = ActivePairs] ELSE r

-----------------------------------------------------------------------------
(* BookConsultationSlot.  The service's owner is read before the           *)
(* transaction starts.  A request names a slot that has been listed.       *)

StartBook(t, o, s) ==
  /\ tx[t].pc = "idle"
  /\ o \in paid
  /\ slots[s] # None
  /\ tx' = [tx EXCEPT ![t] = [Idle EXCEPT !.pc = "order", !.order = o, !.slot = s]]
  /\ UNCHANGED <<slots, bookings, paid, lock>>

\* Faulty variant: the order row is read without FOR UPDATE.
ReadOrder(t) ==
  /\ tx[t].pc = "order"
  /\ IF tx[t].order \in paid
     THEN tx' = [tx EXCEPT ![t].pc = "seat"] /\ UNCHANGED lock
     ELSE End(t)
  /\ UNCHANGED <<slots, bookings, paid>>

LockOrder(t) ==
  LET o == tx[t].order IN
  /\ tx[t].pc = "order"
  /\ Free(o, t)
  /\ IF o \in paid THEN tx' = [tx EXCEPT ![t].pc = "seat"] /\ Lock(o, t)
                   ELSE End(t)
  /\ UNCHANGED <<slots, bookings, paid>>

HasHistory(o) == \E b \in Booked : bookings[b].order = o

\* Faulty variant: the capacity is compared with <=.
AdmitsOneMore(t, s, except) == /\ Live(s) /\ slots[s].open
                               /\ Cardinality(ActiveSeen(t, s) \ except) <= slots[s].capacity

\* The slot admits one more booking, other than those in "except".
Admits(t, s, except) == /\ Live(s) /\ slots[s].open
                        /\ Cardinality(ActiveSeen(t, s) \ except) < slots[s].capacity

\* Faulty variant: the slot is read without FOR UPDATE.
ReadSeat(t) ==
  LET o == tx[t].order
      s == tx[t].slot
  IN  /\ tx[t].pc = "seat"
      /\ IF Admits(t, s, {}) /\ slots[s].owner = ServiceOwner[o] /\ ~HasHistory(o)
         THEN tx' = [tx EXCEPT ![t].pc = "insert"] /\ UNCHANGED lock
         ELSE End(t)
      /\ UNCHANGED <<slots, bookings, paid>>

\* The slot's lock, the counts and the decision.
TakeSeat(t) ==
  LET o == tx[t].order
      s == tx[t].slot
  IN  /\ tx[t].pc = "seat"
      /\ Free(s, t)
      /\ IF Admits(t, s, {}) /\ slots[s].owner = ServiceOwner[o] /\ ~HasHistory(o)
         THEN tx' = [tx EXCEPT ![t].pc = "insert"] /\ Lock(s, t)
         ELSE End(t)
      /\ UNCHANGED <<slots, bookings, paid>>

InsertBooking(t, b) ==
  /\ tx[t].pc = "insert"
  /\ bookings[b] = None
  /\ bookings' = [bookings EXCEPT ![b] = [slot |-> tx[t].slot, order |-> tx[t].order,
                                          status |-> "confirmed", moves |-> 0]]
  /\ End(t)
  /\ UNCHANGED <<slots, paid>>

-----------------------------------------------------------------------------
(* UpdateConsultationBooking, by the customer: s is the slot to move to,   *)
(* or None to cancel.                                                      *)

\* Faulty variant: the booking is read without FOR UPDATE.
StartChangeUnlocked(t, b, s) ==
  /\ tx[t].pc = "idle"
  /\ b \in Booked
  /\ bookings[b].status \notin Closed
  /\ bookings[b].slot # s
  /\ s # None => slots[s] # None
  /\ tx' = [tx EXCEPT ![t] = [Idle EXCEPT !.pc = "current", !.booking = b, !.slot = s]]
  /\ UNCHANGED <<slots, bookings, paid, lock>>

StartChange(t, b, s) ==
  /\ tx[t].pc = "idle"
  /\ b \in Booked
  /\ Free(b, t)
  /\ bookings[b].status \notin Closed
  /\ bookings[b].slot # s
  /\ s # None => slots[s] # None
  /\ tx' = [tx EXCEPT ![t] = [Idle EXCEPT !.pc = "current", !.booking = b, !.slot = s]]
  /\ Lock(b, t)
  /\ UNCHANGED <<slots, bookings, paid>>

\* Locks the slot it leaves.  A cancellation ends here; a move reads the
\* reschedule limit, which is the transaction's first plain read.
LockCurrent(t) ==
  LET b == tx[t].booking
      s == bookings[b].slot
  IN  /\ tx[t].pc = "current"
      /\ Free(s, t)
      /\ \/ /\ Live(s) /\ tx[t].slot = None
            /\ bookings' = [bookings EXCEPT ![b].status = "cancelled"]
            /\ End(t)
         \/ /\ Live(s) /\ tx[t].slot # None /\ bookings[b].moves < Limit
            /\ tx' = [tx EXCEPT ![t] = Fixed([@ EXCEPT !.pc = "next"])]
            /\ Lock(s, t)
            /\ UNCHANGED bookings
         \/ /\ \/ ~Live(s)
               \/ tx[t].slot # None /\ bookings[b].moves >= Limit
            /\ End(t)
            /\ UNCHANGED bookings
      /\ UNCHANGED <<slots, paid>>

Move(t) ==
  LET b == tx[t].booking
      s == tx[t].slot
  IN  /\ tx[t].pc = "next"
      /\ Free(s, t)
      /\ bookings' = IF /\ Admits(t, s, {})
                        /\ slots[s].owner = slots[bookings[b].slot].owner
                     THEN [bookings EXCEPT ![b].slot = s, ![b].status = "confirmed",
                                           ![b].moves = @ + 1]
                     ELSE bookings
      /\ End(t)
      /\ UNCHANGED <<slots, paid>>

-----------------------------------------------------------------------------
(* UpdateConsultationBookingByProvider: u is the instructor, or None for   *)
(* the administration.  Looking for the instructor's slots is a plain      *)
(* read.  Only a status that makes the booking active needs the slot.      *)

ProviderSees(b, u) == u # None => slots[bookings[b].slot].owner = u

CloseBooking(t, b, status, u) ==
  /\ tx[t].pc = "idle"
  /\ b \in Booked
  /\ Free(b, t)
  /\ ProviderSees(b, u)
  /\ status \in BookingStatuses \ Active
  /\ bookings' = [bookings EXCEPT ![b].status = status]
  /\ UNCHANGED <<slots, paid, tx, lock>>

StartRevive(t, b, status, u) ==
  LET r == [Idle EXCEPT !.pc = "revive", !.booking = b, !.status = status] IN
  /\ tx[t].pc = "idle"
  /\ b \in Booked
  /\ Free(b, t)
  /\ ProviderSees(b, u)
  /\ status \in Active \ {bookings[b].status}
  /\ tx' = [tx EXCEPT ![t] = IF u # None THEN Fixed(r) ELSE r]
  /\ Lock(b, t)
  /\ UNCHANGED <<slots, bookings, paid>>

Revive(t) ==
  LET b == tx[t].booking
      s == bookings[b].slot
  IN  /\ tx[t].pc = "revive"
      /\ Free(s, t)
      /\ bookings' = IF Admits(t, s, {b})
                     THEN [bookings EXCEPT ![b].status = tx[t].status] ELSE bookings
      /\ End(t)
      /\ UNCHANGED <<slots, paid>>

-----------------------------------------------------------------------------
(* The slots themselves. *)

\* The columns hold the text of the form, and the query compares text: "9:00"
\* sorts after "10:00".
TextKey(time) == IF time.hour < 10 /\ ~time.padded THEN 11 * time.hour
                 ELSE 11 * (time.hour \div 10) + 1 + (time.hour % 10)
TextOverlap(f, g) == /\ TextKey(f.start) < TextKey(g.end)
                     /\ TextKey(f.end) > TextKey(g.start)

\* ValidateConsultationSlotOverlap: f agrees with the provider's slots, those
\* in "except" left out.
SlotsAgree(f, except) ==
  f.owner = Nobody \/ \A x \in Slots \ except :
    Live(x) /\ slots[x].owner = f.owner => ~TextOverlap(slots[x], f)

\* Faulty variant: the provider's row is read without FOR UPDATE.
ReadOwnerOf(f, t) == UNCHANGED lock

LockOwnerOf(f, t) == IF f.owner = Nobody THEN UNCHANGED lock
                     ELSE Free(f.owner, t) /\ Lock(f.owner, t)

StartCreateSlot(t, f) ==
  /\ tx[t].pc = "idle"
  /\ tx' = [tx EXCEPT ![t] = [Idle EXCEPT !.pc = "create", !.offer = f]]
  /\ LockOwnerOf(f, t)
  /\ UNCHANGED <<slots, bookings, paid>>

CheckNewSlot(t) ==
  /\ tx[t].pc = "create"
  /\ IF SlotsAgree(tx[t].offer, {})
     THEN tx' = [tx EXCEPT ![t].pc = "insertSlot"] /\ UNCHANGED lock
     ELSE End(t)
  /\ UNCHANGED <<slots, bookings, paid>>

InsertSlot(t, s) ==
  /\ tx[t].pc = "insertSlot"
  /\ slots[s] = None
  /\ slots' = [slots EXCEPT ![s] = tx[t].offer]
  /\ End(t)
  /\ UNCHANGED <<bookings, paid>>

\* An instructor edits a slot of theirs, which stays theirs.
StartEditSlot(t, s, f, u) ==
  /\ tx[t].pc = "idle"
  /\ Live(s)
  /\ Free(s, t)
  /\ u # None => slots[s].owner = u /\ f.owner = u
  /\ tx' = [tx EXCEPT ![t] = [Idle EXCEPT !.pc = "edit", !.slot = s, !.offer = f]]
  /\ Lock(s, t)
  /\ UNCHANGED <<slots, bookings, paid>>

LockNewOwner(t) ==
  /\ tx[t].pc = "edit"
  /\ LockOwnerOf(tx[t].offer, t)
  /\ tx' = [tx EXCEPT ![t].pc = "save"]
  /\ UNCHANGED <<slots, bookings, paid>>

EditSlot(t) ==
  LET s == tx[t].slot
      f == tx[t].offer
  IN  /\ tx[t].pc = "save"
      /\ slots' = IF /\ SlotsAgree(f, {s})
                     /\ Cardinality(ActiveSeen(t, s)) <= f.capacity
                  THEN [slots EXCEPT ![s] = f] ELSE slots
      /\ End(t)
      /\ UNCHANGED <<bookings, paid>>

\* Faulty variant: only active bookings are counted.
DeleteSlotUnused(s) ==
  /\ Live(s)
  /\ lock[s] = None
  /\ \A b \in Booked : bookings[b].slot = s => bookings[b].status \notin Active
  /\ slots' = [slots EXCEPT ![s] = Gone]
  /\ UNCHANGED <<bookings, paid, tx, lock>>

DeleteSlot(s) ==
  /\ Live(s)
  /\ lock[s] = None
  /\ \A b \in Booked : bookings[b].slot # s
  /\ slots' = [slots EXCEPT ![s] = Gone]
  /\ UNCHANGED <<bookings, paid, tx, lock>>

-----------------------------------------------------------------------------
\* A deadlock's victim, a lock wait that timed out, a statement that failed,
\* a client or a server that went away.
Rollback(t) ==
  /\ tx[t].pc # "idle"
  /\ End(t)
  /\ UNCHANGED <<slots, bookings, paid>>

\* The order's status, written by the checkout.
OrderChanges(o) ==
  /\ lock[o] = None
  /\ paid' = IF o \in paid THEN paid \ {o} ELSE paid \cup {o}
  /\ UNCHANGED <<slots, bookings, tx, lock>>

Customer(t) ==
  \/ \E o \in Orders, s \in Slots : StartBook(t, o, s)
  \/ LockOrder(t)
  \/ TakeSeat(t)
  \/ \E b \in Bookings : InsertBooking(t, b)
  \/ \E b \in Bookings, s \in Slots \cup {None} : StartChange(t, b, s)
  \/ LockCurrent(t)
  \/ Move(t)

Provider(t) ==
  \/ \E b \in Bookings, st \in BookingStatuses, u \in Owners \cup {None} :
       CloseBooking(t, b, st, u) \/ StartRevive(t, b, st, u)
  \/ Revive(t)
  \/ \E f \in Offers : StartCreateSlot(t, f)
  \/ CheckNewSlot(t)
  \/ \E s \in Slots : InsertSlot(t, s)
  \/ \E s \in Slots, f \in Offers, u \in Owners \cup {None} : StartEditSlot(t, s, f, u)
  \/ LockNewOwner(t)
  \/ EditSlot(t)

Next ==
  \/ \E t \in Txs : Customer(t) \/ Provider(t) \/ Rollback(t)
  \/ \E s \in Slots : DeleteSlot(s)
  \/ \E o \in Orders : OrderChanges(o)

Spec == Init /\ [][Next]_vars

-----------------------------------------------------------------------------
Overfull(s) == Live(s) /\ Cardinality({b \in Bookings : <<b, s>> \in ActivePairs})
                            > slots[s].capacity

\* "Slot capacity is full": a slot never holds more active bookings than its
\* capacity.
CapacityRespected == \A s \in Slots : ~Overfull(s)

\* Only a customer's move or a provider's revival can overfill a slot: neither
\* two bookings at once nor a smaller capacity saved meanwhile can.
BookingsFit ==
  [][\A s \in Slots : ~Overfull(s) /\ Overfull(s)' =>
       \E t \in Txs : tx[t].pc \in {"next", "revive"} /\ tx'[t].pc = "idle"]_vars

\* "This order already has a booking history": one paid service, one booking,
\* whatever requests for it run side by side.
OneBookingPerOrder ==
  \A b, c \in Booked : bookings[b].order = bookings[c].order => b = c

\* No booking is left in a slot that was deleted, not one that was being
\* moved or made while the slot went.
BookedSlotsExist == \A b \in Booked : Live(bookings[b].slot)

\* "Booking cannot be changed": a customer's transaction leaves a booking that
\* is cancelled or completed as it is, even one closed after it had looked.
ClosedIsFinal ==
  [][\A t \in Txs, b \in Booked :
       tx[t].pc \in {"current", "next"} /\ tx[t].booking = b /\ tx'[t].pc = "idle"
         /\ bookings[b].status \in Closed => bookings'[b] = bookings[b]]_vars

\* "Reschedule limit reached", through cancellations, no-shows and revivals: a
\* move of Agenda asks for it, so no run repeats it (a theorem does).
MovesWithinLimit == \A b \in Booked : bookings[b].moves <= Limit

\* "This provider already has an overlapping consultation slot": no provider
\* is in two places at once.
RealOverlap(f, g) == f.start.hour < g.end.hour /\ f.end.hour > g.start.hour
ProviderNotDoubleBooked ==
  \A s, x \in Slots :
    s # x /\ Live(s) /\ Live(x) /\ slots[s].owner = slots[x].owner /\ slots[s].owner # Nobody =>
      ~RealOverlap(slots[s], slots[x])

\* The locks make every operation happen at one instant: whatever transactions
\* run side by side, what they write is what Agenda allows one after the other,
\* except for the seats that a move or a revival counts in an older view.
Serial == INSTANCE Agenda WITH
  Clashes <- {p \in Offers \X Offers : TextOverlap(p[1], p[2])},
  Exact <- ~SnapshotReads

ImplementsAgenda == Serial!Spec
=============================================================================
