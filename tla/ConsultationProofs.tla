------------------------- MODULE ConsultationProofs -------------------------
(***************************************************************************)
(* Theorems about Consultation, for any number of slots, bookings, orders  *)
(* and transactions and for both kinds of plain reads: its invariants and  *)
(* that it implements Agenda.                                              *)
(***************************************************************************)
EXTENDS Consultation, FiniteSetTheorems, TLAPS

(* What a transaction has secured by the locks it holds. *)

Held(t) ==
  LET r == tx[t] IN
  /\ r.pc \in {"order", "seat", "insert"} => r.order \in Orders /\ r.slot \in Slots
  /\ r.pc \in {"seat", "insert"} => lock[r.order] = t
  /\ r.pc = "insert" => lock[r.slot] = t /\ Live(r.slot)
  /\ r.pc \in {"current", "next", "revive"} => r.booking \in Booked /\ lock[r.booking] = t
  /\ r.pc \in {"current", "next"} => bookings[r.booking].status \notin Closed
  /\ r.pc = "next" => r.slot \in Slots /\ bookings[r.booking].moves < Limit
  /\ r.pc = "revive" => r.status \in Active
  /\ r.pc \in {"create", "insertSlot", "edit", "save"} => r.offer \in Offers
  /\ r.pc \in {"create", "insertSlot", "save"} /\ r.offer.owner # Nobody =>
       lock[r.offer.owner] = t
  /\ r.pc \in {"edit", "save"} => r.slot \in Slots /\ lock[r.slot] = t /\ Live(r.slot)
  /\ r.pc \in {"order", "seat", "current", "edit", "save"} => ~r.fixed

LocksHeld == \A t \in Txs : Held(t)
LInv == TypeOK /\ LocksHeld

(* What a step of t, or of nobody, leaves alone. *)

Alone(t) ==
  /\ \A u \in Txs \ {t} : tx'[u] = tx[u]
  /\ \A u \in Txs \ {t}, x \in Rows : lock[x] = u => lock'[x] = u
  /\ \A b \in Booked : lock[b] \notin {None, t} => bookings'[b] = bookings[b]
  /\ \A s \in Slots : Live(s) /\ lock[s] \notin {None, t} => slots'[s] = slots[s]

-----------------------------------------------------------------------------
(* Lemmas about the helpers. *)

\* A row's lock can only be taken by one transaction, which is never None.
LEMMA LockTypes ==
  ASSUME TypeOK, NEW t \in Txs, NEW x \in Rows
  PROVE  /\ [lock EXCEPT ![x] = t] \in [Rows -> Txs \cup {None}]
         /\ t # None
BY ConsultationAssumption DEF TypeOK

\* The end of a transaction releases its locks and no others.
LEMMA EndReleases ==
  ASSUME TypeOK, NEW t \in Txs, End(t)
  PROVE  /\ tx' \in [Txs -> Tx]
         /\ lock' \in [Rows -> Txs \cup {None}]
         /\ tx'[t] = Idle /\ Idle.pc = "idle"
         /\ \A u \in Txs \ {t} : tx'[u] = tx[u]
         /\ \A u \in Txs \ {t}, x \in Rows : lock[x] = u => lock'[x] = u
<1>1. Idle \in Tx /\ Idle.pc = "idle"
  BY DEF Idle, Tx
<1> QED
  BY <1>1 DEF End, TypeOK

\* A free row that t locks was not another's.
LEMMA LockKeeps ==
  ASSUME TypeOK, NEW t \in Txs, NEW x \in Rows, Free(x, t), Lock(x, t)
  PROVE  /\ lock' \in [Rows -> Txs \cup {None}]
         /\ lock'[x] = t
         /\ \A u \in Txs, y \in Rows : lock[y] = u => lock'[y] = u
BY ConsultationAssumption DEF TypeOK, Free, Lock

\* The offers and rows of the constants.
LEMMA OfferTypes ==
  ASSUME NEW f \in Offers
  PROVE  /\ f.owner \in Owners \cup {Nobody}
         /\ f.capacity \in 1 .. 100 /\ f.open \in BOOLEAN
         /\ f.start \in Time /\ f.end \in Time
         /\ f # None /\ f # Gone
BY ConsultationAssumption DEF Offer

\* The booking rows that exist.
LEMMA BookingTypes ==
  ASSUME TypeOK, NEW b \in Booked
  PROVE  /\ b \in Bookings /\ bookings[b] \in BookingRow
         /\ bookings[b].slot \in Slots /\ bookings[b].order \in Orders
         /\ bookings[b].moves \in Nat /\ bookings[b].status \in BookingStatuses
BY DEF TypeOK, Booked, BookingRow

\* What others hold is not disturbed by a step that leaves it alone.
LEMMA OthersHeld ==
  ASSUME LInv, NEW t, Alone(t), NEW u \in Txs \ {t}
  PROVE  Held(u)'
<1>1. Held(u) /\ tx'[u] = tx[u] /\ u # None
  BY ConsultationAssumption DEF LInv, LocksHeld, Alone
<1>2. \A x \in Rows : lock[x] = u => lock'[x] = u
  BY DEF Alone
<1>3. \A b \in Booked : lock[b] = u => bookings'[b] = bookings[b]
  BY <1>1 DEF Alone
<1>4. \A s \in Slots : Live(s) /\ lock[s] = u => slots'[s] = slots[s]
  BY <1>1 DEF Alone
<1>5. \A f \in Offers : f.owner # Nobody => f.owner \in Rows
  BY OfferTypes DEF Rows
<1>6. Orders \subseteq Rows /\ Slots \subseteq Rows /\ Bookings \subseteq Rows
  BY DEF Rows
<1> QED
  BY <1>1, <1>2, <1>3, <1>4, <1>5, <1>6 DEF Held, Live, Booked

-----------------------------------------------------------------------------
(* Every step of a transaction keeps the types, leaves the others alone    *)
(* and secures what its next step relies on.                               *)

Secure(t) == TypeOK' /\ Alone(t) /\ Held(t)'

\* A transaction that ends has nothing left to secure.
LEMMA EndSecure ==
  ASSUME LInv, NEW t \in Txs, End(t), paid' = paid,
         bookings' \in [Bookings -> BookingRow \cup {None}],
         slots' \in [Slots -> Offers \cup {None, Gone}],
         \A b \in Booked : lock[b] \notin {None, t} => bookings'[b] = bookings[b],
         \A s \in Slots : Live(s) /\ lock[s] \notin {None, t} => slots'[s] = slots[s]
  PROVE  Secure(t)
<1>1. TypeOK' /\ Alone(t)
  BY EndReleases DEF LInv, TypeOK, Alone
<1>2. Held(t)'
  BY EndReleases DEF LInv, Held
<1> QED
  BY <1>1, <1>2 DEF Secure

\* The steps of a booking.
LEMMA BookSecure ==
  ASSUME LInv, NEW t \in Txs,
         \/ \E o \in Orders, s \in Slots : StartBook(t, o, s)
         \/ LockOrder(t)
         \/ TakeSeat(t)
         \/ \E b \in Bookings : InsertBooking(t, b)
  PROVE  Secure(t)
<1> USE DEF LInv
<1>1. ASSUME NEW o \in Orders, NEW s \in Slots, StartBook(t, o, s) PROVE Secure(t)
  <2>1. [Idle EXCEPT !.pc = "order", !.order = o, !.slot = s] \in Tx
    BY DEF Idle, Tx
  <2> QED
    BY <1>1, <2>1 DEF StartBook, Secure, TypeOK, Alone, Held, Idle
<1>2. CASE LockOrder(t)
  <2>1. tx[t].order \in Orders /\ tx[t].order \in Rows /\ tx[t].slot \in Slots /\ ~tx[t].fixed
    BY <1>2 DEF LockOrder, LocksHeld, Held, Rows
  <2>2. CASE tx[t].order \in paid
    <3>1. /\ lock' \in [Rows -> Txs \cup {None}]
          /\ lock'[tx[t].order] = t
          /\ \A u \in Txs, y \in Rows : lock[y] = u => lock'[y] = u
      BY <1>2, <2>1, <2>2, LockKeeps DEF LockOrder
    <3>2. [tx[t] EXCEPT !.pc = "seat"] \in Tx
      BY DEF TypeOK, Tx
    <3>3. /\ tx' = [tx EXCEPT ![t] = [tx[t] EXCEPT !.pc = "seat"]]
          /\ UNCHANGED <<slots, bookings, paid>>
      BY <1>2, <2>2 DEF LockOrder
    <3>4. tx'[t] = [tx[t] EXCEPT !.pc = "seat"] /\ tx' \in [Txs -> Tx]
      BY <3>2, <3>3 DEF TypeOK
    <3>5. TypeOK' /\ Alone(t)
      BY <3>1, <3>3, <3>4 DEF TypeOK, Alone
    <3>6. Held(t)'
      BY <2>1, <3>1, <3>2, <3>4 DEF Held, Tx
    <3> QED
      BY <3>5, <3>6 DEF Secure
  <2>3. CASE tx[t].order \notin paid
    BY <1>2, <2>3, EndSecure DEF LockOrder, TypeOK
  <2> QED
    BY <2>2, <2>3
<1>3. CASE TakeSeat(t)
  <2> DEFINE s == tx[t].slot
  <2>1. s \in Slots /\ s \in Rows /\ tx[t].order \in Orders /\ tx[t].order \in Rows
        /\ lock[tx[t].order] = t
    BY <1>3 DEF TakeSeat, LocksHeld, Held, Rows
  <2>2. CASE End(t)
    BY <1>3, <2>2, EndSecure DEF TakeSeat, TypeOK
  <2>3. CASE Admits(t, s, {}) /\ tx' = [tx EXCEPT ![t].pc = "insert"] /\ Lock(s, t)
    <3>1. /\ lock' \in [Rows -> Txs \cup {None}]
          /\ lock'[s] = t
          /\ \A u \in Txs, y \in Rows : lock[y] = u => lock'[y] = u
      BY <1>3, <2>1, <2>3, LockKeeps DEF TakeSeat
    <3>2. [tx[t] EXCEPT !.pc = "insert"] \in Tx
      BY DEF TypeOK, Tx
    <3>3. tx'[t] = [tx[t] EXCEPT !.pc = "insert"] /\ tx' \in [Txs -> Tx]
          /\ \A u \in Txs \ {t} : tx'[u] = tx[u]
      BY <2>3, <3>2 DEF TypeOK
    <3>4. UNCHANGED <<slots, bookings, paid>> /\ Live(s)
      BY <1>3, <2>3 DEF TakeSeat, Admits
    <3>5. TypeOK' /\ Alone(t)
      BY <3>1, <3>3, <3>4 DEF TypeOK, Alone
    <3>6. Held(t)'
      BY <2>1, <3>1, <3>3, <3>4 DEF Held, Live, TypeOK, Tx
    <3> QED
      BY <3>5, <3>6 DEF Secure
  <2> QED
    BY <1>3, <2>2, <2>3 DEF TakeSeat
<1>4. ASSUME NEW b \in Bookings, InsertBooking(t, b) PROVE Secure(t)
  <2> DEFINE row == [slot |-> tx[t].slot, order |-> tx[t].order,
                     status |-> "confirmed", moves |-> 0]
  <2>1. tx[t].slot \in Slots /\ tx[t].order \in Orders
    BY <1>4 DEF InsertBooking, LocksHeld, Held
  <2>2. row \in BookingRow
    BY <2>1 DEF BookingRow, BookingStatuses, Active
  <2>3. b \notin Booked
    BY <1>4 DEF InsertBooking, Booked
  <2>4. bookings' = [bookings EXCEPT ![b] = row]
    BY <1>4 DEF InsertBooking
  <2>5. bookings' \in [Bookings -> BookingRow \cup {None}]
    BY <2>2, <2>4 DEF TypeOK
  <2>6. \A x \in Booked : bookings'[x] = bookings[x]
    BY <2>3, <2>4 DEF TypeOK, Booked
  <2>7. End(t) /\ UNCHANGED <<slots, paid>>
    BY <1>4 DEF InsertBooking
  <2> QED
    BY <2>5, <2>6, <2>7, EndSecure DEF TypeOK
<1> QED
  BY <1>1, <1>2, <1>3, <1>4

\* Writing a booking that one holds, and ending.
LEMMA WriteBooking ==
  ASSUME LInv, NEW t \in Txs, NEW b \in Booked, lock[b] = t, NEW row \in BookingRow,
         bookings' \in {bookings, [bookings EXCEPT ![b] = row]},
         End(t), UNCHANGED <<slots, paid>>
  PROVE  Secure(t)
<1>1. bookings' \in [Bookings -> BookingRow \cup {None}]
  BY DEF LInv, TypeOK
<1>2. \A x \in Booked : lock[x] \notin {None, t} => bookings'[x] = bookings[x]
  BY DEF LInv, TypeOK, Booked
<1> QED
  BY <1>1, <1>2, EndSecure DEF LInv, TypeOK

\* The steps of a customer's change of a booking.
LEMMA ChangeSecure ==
  ASSUME LInv, NEW t \in Txs,
         \/ \E b \in Bookings, s \in Slots \cup {None} : StartChange(t, b, s)
         \/ LockCurrent(t)
         \/ Move(t)
  PROVE  Secure(t)
<1> USE DEF LInv
<1>1. ASSUME NEW b \in Bookings, NEW s \in Slots \cup {None}, StartChange(t, b, s)
      PROVE  Secure(t)
  <2> DEFINE r == [Idle EXCEPT !.pc = "current", !.booking = b, !.slot = s]
  <2>1. r \in Tx /\ r.pc = "current" /\ r.booking = b /\ ~r.fixed
    BY DEF Idle, Tx
  <2>2. /\ lock' \in [Rows -> Txs \cup {None}]
        /\ lock'[b] = t
        /\ \A u \in Txs, y \in Rows : lock[y] = u => lock'[y] = u
    BY <1>1, LockKeeps DEF StartChange, Rows
  <2>3. /\ tx' = [tx EXCEPT ![t] = r] /\ UNCHANGED <<slots, bookings, paid>>
        /\ b \in Booked /\ bookings[b].status \notin Closed
    BY <1>1 DEF StartChange
  <2>4. tx'[t] = r /\ tx' \in [Txs -> Tx] /\ \A u \in Txs \ {t} : tx'[u] = tx[u]
    BY <2>1, <2>3 DEF TypeOK
  <2>5. TypeOK' /\ Alone(t)
    BY <2>2, <2>3, <2>4 DEF TypeOK, Alone
  <2>6. Held(t)'
    BY <2>1, <2>2, <2>3, <2>4 DEF Held, Booked
  <2> QED
    BY <2>5, <2>6 DEF Secure
<1>2. CASE LockCurrent(t)
  <2> DEFINE b == tx[t].booking
             s == bookings[b].slot
  <2>1. b \in Booked /\ b \in Bookings /\ lock[b] = t /\ bookings[b].status \notin Closed
    BY <1>2 DEF LockCurrent, LocksHeld, Held, Booked
  <2>2. s \in Slots /\ s \in Rows
    BY <2>1, BookingTypes DEF Rows
  <2>3. CASE End(t) /\ bookings' = [bookings EXCEPT ![b].status = "cancelled"]
    <3>1. [bookings[b] EXCEPT !.status = "cancelled"] \in BookingRow
      BY <2>1, BookingTypes DEF BookingRow, BookingStatuses, Closed
    <3>2. bookings' = [bookings EXCEPT ![b] = [bookings[b] EXCEPT !.status = "cancelled"]]
      BY <2>3
    <3> QED
      BY <1>2, <2>1, <2>3, <3>1, <3>2, WriteBooking DEF LockCurrent
  <2>4. CASE End(t) /\ UNCHANGED bookings
    BY <1>2, <2>1, <2>4, BookingTypes, WriteBooking DEF LockCurrent
  <2>5. CASE /\ tx[t].slot # None /\ bookings[b].moves < Limit
             /\ tx' = [tx EXCEPT ![t] = Fixed([@ EXCEPT !.pc = "next"])]
             /\ Lock(s, t) /\ UNCHANGED bookings
    <3> DEFINE r == Fixed([tx[t] EXCEPT !.pc = "next"])
    <3>1. ActivePairs \subseteq Bookings \X Slots
      BY DEF ActivePairs, Booked
    <3>2. r \in Tx /\ r.pc = "next" /\ r.booking = b /\ r.slot = tx[t].slot
      <4> DEFINE q == [tx[t] EXCEPT !.pc = "next"]
      <4>1. q \in Tx /\ q.pc = "next" /\ q.booking = b /\ q.slot = tx[t].slot
        BY DEF TypeOK, Tx
      <4>2. [q EXCEPT !.fixed = TRUE, !.view = ActivePairs] \in Tx
        <5> HIDE DEF q
        <5> QED
          BY <3>1, <4>1 DEF Tx
      <4>3. r = q \/ r = [q EXCEPT !.fixed = TRUE, !.view = ActivePairs]
        BY DEF Fixed
      <4> HIDE DEF q, r
      <4> QED
        BY <4>1, <4>2, <4>3 DEF Tx
    <3>3. /\ lock' \in [Rows -> Txs \cup {None}]
          /\ \A u \in Txs, y \in Rows : lock[y] = u => lock'[y] = u
      BY <1>2, <2>2, <2>5, LockKeeps DEF LockCurrent
    <3>4. tx'[t] = r /\ tx' \in [Txs -> Tx] /\ \A u \in Txs \ {t} : tx'[u] = tx[u]
      BY <2>5, <3>2 DEF TypeOK
    <3>5. UNCHANGED <<slots, bookings, paid>>
      BY <1>2, <2>5 DEF LockCurrent
    <3>6. TypeOK' /\ Alone(t)
      BY <3>3, <3>4, <3>5 DEF TypeOK, Alone
    <3>7. tx[t].slot \in Slots
      BY <2>5 DEF TypeOK, Tx
    <3>8. lock'[b] = t
      BY <2>1, <3>3 DEF Rows
    <3>9. Held(t)'
      BY <2>1, <2>5, <3>2, <3>4, <3>5, <3>7, <3>8 DEF Held, Booked
    <3> QED
      BY <3>6, <3>9 DEF Secure
  <2> QED
    BY <1>2, <2>3, <2>4, <2>5 DEF LockCurrent
<1>3. CASE Move(t)
  <2> DEFINE b == tx[t].booking
             row == [bookings[b] EXCEPT !.slot = tx[t].slot, !.status = "confirmed",
                                        !.moves = @ + 1]
  <2>1. b \in Booked /\ lock[b] = t /\ tx[t].slot \in Slots
    BY <1>3 DEF Move, LocksHeld, Held
  <2> DEFINE old == bookings[b]
  <2>a. old \in BookingRow /\ old.moves + 1 \in Nat /\ "confirmed" \in BookingStatuses
    BY <2>1, BookingTypes DEF BookingStatuses, Active
  <2>2. row \in BookingRow
    <3> HIDE DEF old
    <3>1. [old EXCEPT !.slot = tx[t].slot, !.status = "confirmed", !.moves = @ + 1] \in BookingRow
      BY <2>1, <2>a DEF BookingRow
    <3> QED
      BY <3>1 DEF old
  <2>3. bookings' \in {bookings, [bookings EXCEPT ![b] = row]}
    BY <1>3 DEF Move
  <2> QED
    BY <1>3, <2>1, <2>2, <2>3, WriteBooking DEF Move
<1> QED
  BY <1>1, <1>2, <1>3

\* The steps of a provider's change of a booking.
LEMMA ProviderSecure ==
  ASSUME LInv, NEW t \in Txs,
         \/ \E b \in Bookings, st \in BookingStatuses, u \in Owners \cup {None} :
              CloseBooking(t, b, st, u) \/ StartRevive(t, b, st, u)
         \/ Revive(t)
  PROVE  Secure(t)
<1> USE DEF LInv
<1>1. ASSUME NEW b \in Bookings, NEW st \in BookingStatuses, NEW u, CloseBooking(t, b, st, u)
      PROVE  Secure(t)
  <2>1. b \in Booked /\ tx' = tx /\ lock' = lock /\ UNCHANGED <<slots, paid>>
        /\ tx[t].pc = "idle" /\ lock[b] \in {None, t}
        /\ bookings' = [bookings EXCEPT ![b].status = st]
    BY <1>1 DEF CloseBooking, Free
  <2>2. bookings' \in [Bookings -> BookingRow \cup {None}]
    BY <2>1, BookingTypes DEF TypeOK, BookingRow
  <2>3. TypeOK' /\ Alone(t)
    BY <2>1, <2>2 DEF TypeOK, Alone, Booked
  <2>4. Held(t)'
    BY <2>1 DEF Held
  <2> QED
    BY <2>3, <2>4 DEF Secure
<1>2. ASSUME NEW b \in Bookings, NEW st \in BookingStatuses, NEW u, StartRevive(t, b, st, u)
      PROVE  Secure(t)
  <2> DEFINE r == [Idle EXCEPT !.pc = "revive", !.booking = b, !.status = st]
             q == IF u # None THEN Fixed(r) ELSE r
  <2>1. ActivePairs \subseteq Bookings \X Slots
    BY DEF ActivePairs, Booked
  <2>2. st \in Active
    BY <1>2 DEF StartRevive
  <2>3. q \in Tx /\ q.pc = "revive" /\ q.booking = b /\ q.status = st
    BY <2>1, <2>2 DEF Idle, Tx, Fixed
  <2>4. /\ lock' \in [Rows -> Txs \cup {None}]
        /\ lock'[b] = t
        /\ \A v \in Txs, y \in Rows : lock[y] = v => lock'[y] = v
    BY <1>2, LockKeeps DEF StartRevive, Rows
  <2>5. tx' = [tx EXCEPT ![t] = q] /\ UNCHANGED <<slots, bookings, paid>> /\ b \in Booked
    BY <1>2 DEF StartRevive
  <2>6. tx'[t] = q /\ tx' \in [Txs -> Tx] /\ \A v \in Txs \ {t} : tx'[v] = tx[v]
    BY <2>3, <2>5 DEF TypeOK
  <2>7. TypeOK' /\ Alone(t)
    BY <2>4, <2>5, <2>6 DEF TypeOK, Alone
  <2>8. Held(t)'
    BY <2>2, <2>3, <2>4, <2>5, <2>6 DEF Held, Booked
  <2> QED
    BY <2>7, <2>8 DEF Secure
<1>3. CASE Revive(t)
  <2> DEFINE b == tx[t].booking
             row == [bookings[b] EXCEPT !.status = tx[t].status]
  <2>1. b \in Booked /\ lock[b] = t /\ tx[t].status \in Active
    BY <1>3 DEF Revive, LocksHeld, Held
  <2>2. row \in BookingRow
    BY <2>1, BookingTypes DEF BookingRow, BookingStatuses
  <2>3. bookings' \in {bookings, [bookings EXCEPT ![b] = row]}
    BY <1>3 DEF Revive
  <2> QED
    BY <1>3, <2>1, <2>2, <2>3, WriteBooking DEF Revive
<1> QED
  BY <1>1, <1>2, <1>3

\* A transaction that is given a slot form, and locks its owner or nobody.
LEMMA OwnerLocked ==
  ASSUME LInv, NEW t \in Txs, NEW f \in Offers, LockOwnerOf(f, t)
  PROVE  /\ lock' \in [Rows -> Txs \cup {None}]
         /\ f.owner # Nobody => lock'[f.owner] = t
         /\ \A u \in Txs, y \in Rows : lock[y] = u => lock'[y] = u
<1>1. CASE f.owner = Nobody
  BY <1>1 DEF LockOwnerOf, LInv, TypeOK
<1>2. CASE f.owner # Nobody
  <2>1. f.owner \in Rows
    BY <1>2, OfferTypes DEF Rows
  <2> QED
    BY <1>2, <2>1, LockKeeps DEF LockOwnerOf, LInv
<1> QED
  BY <1>1, <1>2

\* A step of t that changes nothing but its record and takes locks.
LEMMA RecordSecure ==
  ASSUME LInv, NEW t \in Txs, NEW r \in Tx, tx' = [tx EXCEPT ![t] = r],
         UNCHANGED <<slots, bookings, paid>>,
         lock' \in [Rows -> Txs \cup {None}],
         \A u \in Txs, y \in Rows : lock[y] = u => lock'[y] = u
  PROVE  TypeOK' /\ Alone(t) /\ tx'[t] = r
BY DEF LInv, TypeOK, Alone

\* The steps of creating, editing and saving slots.
LEMMA SlotSecure ==
  ASSUME LInv, NEW t \in Txs,
         \/ \E f \in Offers : StartCreateSlot(t, f)
         \/ CheckNewSlot(t)
         \/ \E s \in Slots : InsertSlot(t, s)
         \/ \E s \in Slots, f \in Offers, u \in Owners \cup {None} : StartEditSlot(t, s, f, u)
         \/ LockNewOwner(t)
         \/ EditSlot(t)
  PROVE  Secure(t)
<1> USE DEF LInv
<1>1. ASSUME NEW f \in Offers, StartCreateSlot(t, f) PROVE Secure(t)
  <2> DEFINE r == [Idle EXCEPT !.pc = "create", !.offer = f]
  <2>1. r \in Tx /\ r.pc = "create" /\ r.offer = f
    BY DEF Idle, Tx
  <2>2. TypeOK' /\ Alone(t) /\ tx'[t] = r
    <3>1. tx' = [tx EXCEPT ![t] = r] /\ UNCHANGED <<slots, bookings, paid>>
      BY <1>1 DEF StartCreateSlot
    <3>2. /\ lock' \in [Rows -> Txs \cup {None}]
          /\ \A u \in Txs, y \in Rows : lock[y] = u => lock'[y] = u
      BY <1>1, OwnerLocked DEF StartCreateSlot
    <3> HIDE DEF r
    <3> QED
      BY <2>1, <3>1, <3>2, RecordSecure
  <2>3. Held(t)'
    BY <1>1, <2>1, <2>2, OwnerLocked DEF StartCreateSlot, Held
  <2> QED
    BY <2>2, <2>3 DEF Secure
<1>2. CASE CheckNewSlot(t)
  <2>1. CASE tx' = [tx EXCEPT ![t].pc = "insertSlot"] /\ UNCHANGED lock
    <3> DEFINE r == [tx[t] EXCEPT !.pc = "insertSlot"]
    <3>1. r \in Tx /\ r.pc = "insertSlot" /\ r.offer = tx[t].offer
      BY DEF TypeOK, Tx
    <3>2. TypeOK' /\ Alone(t) /\ tx'[t] = r
      BY <1>2, <2>1, <3>1, RecordSecure DEF CheckNewSlot, TypeOK
    <3>3. Held(t)'
      BY <1>2, <2>1, <3>1, <3>2 DEF CheckNewSlot, LocksHeld, Held
    <3> QED
      BY <3>2, <3>3 DEF Secure
  <2>2. CASE End(t)
    BY <1>2, <2>2, EndSecure DEF CheckNewSlot, TypeOK
  <2> QED
    BY <1>2, <2>1, <2>2 DEF CheckNewSlot
<1>3. ASSUME NEW s \in Slots, InsertSlot(t, s) PROVE Secure(t)
  <2>1. tx[t].offer \in Offers
    BY <1>3 DEF InsertSlot, LocksHeld, Held
  <2>2. ~Live(s)
    BY <1>3, OfferTypes DEF InsertSlot, Live
  <2>3. /\ slots' = [slots EXCEPT ![s] = tx[t].offer]
        /\ End(t) /\ UNCHANGED <<bookings, paid>>
    BY <1>3 DEF InsertSlot
  <2>4. \A x \in Slots : Live(x) => slots'[x] = slots[x]
    BY <2>2, <2>3 DEF TypeOK
  <2>5. slots' \in [Slots -> Offers \cup {None, Gone}]
    BY <2>1, <2>3 DEF TypeOK
  <2> QED
    BY <2>3, <2>4, <2>5, EndSecure DEF TypeOK
<1>4. ASSUME NEW s \in Slots, NEW f \in Offers, NEW u, StartEditSlot(t, s, f, u)
      PROVE  Secure(t)
  <2> DEFINE r == [Idle EXCEPT !.pc = "edit", !.slot = s, !.offer = f]
  <2>1. r \in Tx /\ r.pc = "edit" /\ r.slot = s /\ r.offer = f /\ ~r.fixed
    BY DEF Idle, Tx
  <2>2. /\ lock' \in [Rows -> Txs \cup {None}]
        /\ lock'[s] = t
        /\ \A v \in Txs, y \in Rows : lock[y] = v => lock'[y] = v
    BY <1>4, LockKeeps DEF StartEditSlot, Rows
  <2>3. TypeOK' /\ Alone(t) /\ tx'[t] = r
    <3>1. tx' = [tx EXCEPT ![t] = r] /\ UNCHANGED <<slots, bookings, paid>>
      BY <1>4 DEF StartEditSlot
    <3>2. r \in Tx
      BY <2>1
    <3> HIDE DEF r
    <3>3. TypeOK' /\ Alone(t)
      BY <2>2, <3>1, <3>2 DEF TypeOK, Alone
    <3>4. tx'[t] = r
      BY <3>1 DEF TypeOK
    <3> QED
      BY <3>3, <3>4
  <2>4. Held(t)'
    BY <1>4, <2>1, <2>2, <2>3 DEF StartEditSlot, Held, Live
  <2> QED
    BY <2>3, <2>4 DEF Secure
<1>5. CASE LockNewOwner(t)
  <2> DEFINE r == [tx[t] EXCEPT !.pc = "save"]
  <2>1. r \in Tx /\ r.pc = "save" /\ r.offer = tx[t].offer /\ r.slot = tx[t].slot
        /\ r.fixed = tx[t].fixed
    BY DEF TypeOK, Tx
  <2>2. /\ tx[t].offer \in Offers /\ ~tx[t].fixed
        /\ tx[t].slot \in Slots /\ tx[t].slot \in Rows
        /\ lock[tx[t].slot] = t /\ Live(tx[t].slot)
    BY <1>5 DEF LockNewOwner, LocksHeld, Held, Rows
  <2>3. /\ lock' \in [Rows -> Txs \cup {None}]
        /\ tx[t].offer.owner # Nobody => lock'[tx[t].offer.owner] = t
        /\ \A u \in Txs, y \in Rows : lock[y] = u => lock'[y] = u
    BY <1>5, <2>2, OwnerLocked DEF LockNewOwner
  <2>4. TypeOK' /\ Alone(t) /\ tx'[t] = r
    BY <1>5, <2>1, <2>3, RecordSecure DEF LockNewOwner
  <2>5. Held(t)'
    BY <1>5, <2>1, <2>2, <2>3, <2>4 DEF LockNewOwner, Held, Live
  <2> QED
    BY <2>4, <2>5 DEF Secure
<1>6. CASE EditSlot(t)
  <2> DEFINE s == tx[t].slot
             f == tx[t].offer
  <2>1. s \in Slots /\ f \in Offers /\ lock[s] = t
    BY <1>6 DEF EditSlot, LocksHeld, Held
  <2>2. slots' \in {slots, [slots EXCEPT ![s] = f]} /\ End(t) /\ UNCHANGED <<bookings, paid>>
    BY <1>6 DEF EditSlot
  <2>3. slots' \in [Slots -> Offers \cup {None, Gone}]
    BY <2>1, <2>2 DEF TypeOK
  <2>4. \A x \in Slots : Live(x) /\ lock[x] \notin {None, t} => slots'[x] = slots[x]
    BY <2>1, <2>2 DEF TypeOK
  <2> QED
    BY <2>2, <2>3, <2>4, EndSecure DEF TypeOK
<1> QED
  BY <1>1, <1>2, <1>3, <1>4, <1>5, <1>6

\* Every step is one of a transaction, or leaves all transactions alone.
LEMMA StepSecure ==
  ASSUME LInv, [Next]_vars
  PROVE  (\E t \in Txs : Secure(t)) \/ (TypeOK' /\ Alone(None))
<1>1. ASSUME NEW t \in Txs, Customer(t) PROVE Secure(t)
  BY <1>1, BookSecure, ChangeSecure DEF Customer
<1>2. ASSUME NEW t \in Txs, Provider(t) PROVE Secure(t)
  BY <1>2, ProviderSecure, SlotSecure DEF Provider
<1>3. ASSUME NEW t \in Txs, Rollback(t) PROVE Secure(t)
  BY <1>3, EndSecure DEF Rollback, LInv, TypeOK
<1>4. ASSUME NEW s \in Slots, DeleteSlot(s) PROVE TypeOK' /\ Alone(None)
  BY <1>4 DEF DeleteSlot, LInv, TypeOK, Alone
<1>5. ASSUME NEW o \in Orders, OrderChanges(o) PROVE TypeOK' /\ Alone(None)
  BY <1>5 DEF OrderChanges, LInv, TypeOK, Alone
<1>6. CASE UNCHANGED vars
  BY <1>6 DEF vars, LInv, TypeOK, Alone
<1> QED
  BY <1>1, <1>2, <1>3, <1>4, <1>5, <1>6 DEF Next

\* What a transaction relies on holds in every reachable state.
LEMMA LocksSound == Spec => []LInv
<1>1. ASSUME Init PROVE LInv
  <2>1. Idle \in Tx /\ Idle.pc = "idle"
    BY DEF Idle, Tx
  <2> QED
    BY <1>1, <2>1 DEF Init, LInv, TypeOK, LocksHeld, Held
<1>2. ASSUME LInv, [Next]_vars PROVE LInv'
  <2>1. CASE \E t \in Txs : Secure(t)
    <3>1. PICK t \in Txs : Secure(t)
      BY <2>1
    <3>2. \A u \in Txs \ {t} : Held(u)'
      BY <1>2, <3>1, OthersHeld DEF Secure
    <3>3. LocksHeld'
      BY <3>1, <3>2 DEF Secure, LocksHeld
    <3> QED
      BY <3>1, <3>3 DEF Secure, LInv
  <2>2. CASE TypeOK' /\ Alone(None)
    <3>1. \A u \in Txs \ {None} : Held(u)'
      BY <1>2, <2>2, OthersHeld
    <3>2. None \notin Txs
      BY ConsultationAssumption
    <3>3. LocksHeld'
      BY <3>1, <3>2 DEF LocksHeld
    <3> QED
      BY <2>2, <3>3 DEF LInv
  <2> QED
    BY <1>2, <2>1, <2>2, StepSecure
<1> QED
  BY <1>1, <1>2, PTL DEF Spec

\* Every row, lock and transaction record has its type.
THEOREM TypeCorrect == Spec => []TypeOK
<1>1. LInv => TypeOK
  BY DEF LInv
<1> QED
  BY <1>1, LocksSound, PTL

-----------------------------------------------------------------------------
(* The steps that matter to the rows. *)

\* Nothing is written, and nobody comes to the point of inserting.
Quiet ==
  /\ UNCHANGED <<slots, bookings>>
  /\ \A t \in Txs : tx'[t] = tx[t] \/ tx'[t].pc \notin {"insert", "insertSlot"}

\* t writes, at most, one booking that is its own or free.
Changes(t) ==
  \/ LockCurrent(t)
  \/ Move(t)
  \/ Revive(t)
  \/ \E b \in Bookings, st \in BookingStatuses, u \in Owners \cup {None} :
       CloseBooking(t, b, st, u)

\* Every step is quiet or one of eight kinds.
LEMMA StepKinds ==
  ASSUME LInv, [Next]_vars
  PROVE  \/ Quiet
         \/ \E t \in Txs : TakeSeat(t) \/ CheckNewSlot(t) \/ Changes(t) \/ EditSlot(t)
         \/ \E t \in Txs, b \in Bookings : InsertBooking(t, b)
         \/ \E t \in Txs, s \in Slots : InsertSlot(t, s)
         \/ \E s \in Slots : DeleteSlot(s)
<1> USE DEF LInv
<1>r. ASSUME NEW t \in Txs, NEW r, tx' = [tx EXCEPT ![t] = r],
             r.pc \notin {"insert", "insertSlot"}, UNCHANGED <<slots, bookings>>
      PROVE  Quiet
  BY <1>r DEF Quiet, TypeOK
<1>e. ASSUME NEW t \in Txs, End(t), UNCHANGED <<slots, bookings>> PROVE Quiet
  BY <1>e, EndReleases DEF Quiet
<1>1. ASSUME NEW t \in Txs, NEW o \in Orders, NEW s \in Slots, StartBook(t, o, s) PROVE Quiet
  BY <1>r, <1>1 DEF StartBook, Idle
<1>2. ASSUME NEW t \in Txs, LockOrder(t) PROVE Quiet
  <2>1. [tx[t] EXCEPT !.pc = "seat"].pc = "seat"
    BY DEF TypeOK, Tx
  <2> QED
    BY <1>r, <1>e, <1>2, <2>1 DEF LockOrder
<1>3. ASSUME NEW t \in Txs, NEW b \in Bookings, NEW s \in Slots \cup {None}, StartChange(t, b, s)
      PROVE  Quiet
  BY <1>r, <1>3 DEF StartChange, Idle
<1>4. ASSUME NEW t \in Txs, NEW b \in Bookings, NEW st \in BookingStatuses, NEW u,
             StartRevive(t, b, st, u)
      PROVE  Quiet
  <2> DEFINE r == [Idle EXCEPT !.pc = "revive", !.booking = b, !.status = st]
             q == IF u # None THEN Fixed(r) ELSE r
  <2>1. q.pc = "revive"
    BY DEF Idle, Fixed
  <2> QED
    BY <1>r, <1>4, <2>1 DEF StartRevive
<1>5. ASSUME NEW t \in Txs, NEW f \in Offers, StartCreateSlot(t, f) PROVE Quiet
  BY <1>r, <1>5 DEF StartCreateSlot, Idle
<1>6. ASSUME NEW t \in Txs, NEW s \in Slots, NEW f \in Offers, NEW u, StartEditSlot(t, s, f, u)
      PROVE  Quiet
  BY <1>r, <1>6 DEF StartEditSlot, Idle
<1>7. ASSUME NEW t \in Txs, LockNewOwner(t) PROVE Quiet
  <2>1. [tx[t] EXCEPT !.pc = "save"].pc = "save"
    BY DEF TypeOK, Tx
  <2> QED
    BY <1>r, <1>7, <2>1 DEF LockNewOwner
<1>8. ASSUME NEW t \in Txs, Rollback(t) PROVE Quiet
  BY <1>e, <1>8 DEF Rollback
<1>9. ASSUME NEW o \in Orders, OrderChanges(o) PROVE Quiet
  BY <1>9 DEF OrderChanges, Quiet
<1>10. CASE UNCHANGED vars
  BY <1>10 DEF vars, Quiet
<1> QED
  BY <1>1, <1>2, <1>3, <1>4, <1>5, <1>6, <1>7, <1>8, <1>9, <1>10
  DEF Next, Customer, Provider, Changes

\* A change writes one existing booking, keeps its order, and brings nobody to
\* the point of inserting.
LEMMA ChangeWrites ==
  ASSUME LInv, NEW t \in Txs, Changes(t)
  PROVE  /\ slots' = slots
         /\ \A u \in Txs : tx'[u] = tx[u] \/ tx'[u].pc \notin {"insert", "insertSlot"}
         /\ \E b \in Booked : \E row \in BookingRow :
              /\ bookings' \in {bookings, [bookings EXCEPT ![b] = row]}
              /\ row.order = bookings[b].order
<1> USE DEF LInv
<1> DEFINE NoInsert == \A u \in Txs : tx'[u] = tx[u] \/ tx'[u].pc \notin {"insert", "insertSlot"}
           Written(b) == \E row \in BookingRow :
              /\ bookings' \in {bookings, [bookings EXCEPT ![b] = row]}
              /\ row.order = bookings[b].order
<1>e. ASSUME End(t) PROVE NoInsert
  BY <1>e, EndReleases
<1>1. CASE LockCurrent(t)
  <2> DEFINE b == tx[t].booking
             old == bookings[b]
             row == [old EXCEPT !.status = "cancelled"]
  <2>1. b \in Booked
    BY <1>1 DEF LockCurrent, LocksHeld, Held
  <2>2. old \in BookingRow
    BY <2>1, BookingTypes
  <2>3. row \in BookingRow /\ row.order = old.order
    BY <2>2 DEF BookingRow, BookingStatuses, Closed
  <2>4. bookings' \in {bookings, [bookings EXCEPT ![b] = row]}
    BY <1>1 DEF LockCurrent
  <2>5. Fixed([tx[t] EXCEPT !.pc = "next"]).pc = "next"
    BY DEF TypeOK, Tx, Fixed
  <2>6. NoInsert
    BY <1>e, <1>1, <2>5 DEF LockCurrent, TypeOK
  <2> QED
    BY <1>1, <2>1, <2>3, <2>4, <2>6 DEF LockCurrent
<1>2. CASE Move(t)
  <2> DEFINE b == tx[t].booking
             old == bookings[b]
             row == [old EXCEPT !.slot = tx[t].slot, !.status = "confirmed", !.moves = @ + 1]
  <2>1. b \in Booked /\ tx[t].slot \in Slots
    BY <1>2 DEF Move, LocksHeld, Held
  <2>2. old \in BookingRow /\ old.moves + 1 \in Nat /\ "confirmed" \in BookingStatuses
    BY <2>1, BookingTypes DEF BookingStatuses, Active
  <2>3. row \in BookingRow /\ row.order = old.order
    <3> HIDE DEF old
    <3> QED
      BY <2>1, <2>2 DEF BookingRow
  <2>4. bookings' \in {bookings, [bookings EXCEPT ![b] = row]}
    BY <1>2 DEF Move
  <2> QED
    BY <1>e, <1>2, <2>1, <2>3, <2>4 DEF Move
<1>3. CASE Revive(t)
  <2> DEFINE b == tx[t].booking
             old == bookings[b]
             row == [old EXCEPT !.status = tx[t].status]
  <2>1. b \in Booked /\ tx[t].status \in Active
    BY <1>3 DEF Revive, LocksHeld, Held
  <2>2. old \in BookingRow
    BY <2>1, BookingTypes
  <2>3. row \in BookingRow /\ row.order = old.order
    BY <2>1, <2>2 DEF BookingRow, BookingStatuses
  <2>4. bookings' \in {bookings, [bookings EXCEPT ![b] = row]}
    BY <1>3 DEF Revive
  <2> QED
    BY <1>e, <1>3, <2>1, <2>3, <2>4 DEF Revive
<1>4. ASSUME NEW b \in Bookings, NEW st \in BookingStatuses, NEW u, CloseBooking(t, b, st, u)
      PROVE  slots' = slots /\ tx' = tx /\ b \in Booked /\ Written(b)
  <2> DEFINE old == bookings[b]
             row == [old EXCEPT !.status = st]
  <2>1. b \in Booked
    BY <1>4 DEF CloseBooking
  <2>2. old \in BookingRow
    BY <2>1, BookingTypes
  <2>3. row \in BookingRow /\ row.order = old.order
    BY <2>2 DEF BookingRow
  <2>4. bookings' \in {bookings, [bookings EXCEPT ![b] = row]}
    BY <1>4 DEF CloseBooking
  <2> QED
    BY <1>4, <2>1, <2>3, <2>4 DEF CloseBooking
<1> QED
  BY <1>1, <1>2, <1>3, <1>4 DEF Changes

-----------------------------------------------------------------------------
(* One booking per order. *)

\* Who is about to insert holds the order and has found no booking of it.
NoHistory == \A t \in Txs : tx[t].pc = "insert" => ~HasHistory(tx[t].order)

\* Every step keeps orders to one booking: the order's lock is held from the
\* look at its bookings to the insert.
LEMMA OneBookingStep ==
  ASSUME LInv, NoHistory, OneBookingPerOrder, [Next]_vars
  PROVE  NoHistory' /\ OneBookingPerOrder'
<1> DEFINE Goal == NoHistory' /\ OneBookingPerOrder'
<1>s. ASSUME bookings' = bookings,
             \A t \in Txs : tx'[t] = tx[t] \/ tx'[t].pc # "insert" \/ TakeSeat(t)
      PROVE  Goal
  <2>1. ASSUME NEW t \in Txs, TakeSeat(t), tx'[t].pc = "insert"
        PROVE  ~HasHistory(tx[t].order) /\ tx'[t].order = tx[t].order
    <3>1. ~End(t)
      BY <2>1, EndReleases DEF LInv
    <3> QED
      BY <2>1, <3>1 DEF TakeSeat, LInv, TypeOK, Tx
  <2> QED
    BY <1>s, <2>1 DEF NoHistory, HasHistory, OneBookingPerOrder, Booked
<1>1. CASE Quiet
  BY <1>s, <1>1 DEF Quiet
<1>2. ASSUME NEW t \in Txs, TakeSeat(t) PROVE Goal
  <2>1. \A u \in Txs \ {t} : tx'[u] = tx[u]
    BY <1>2, EndReleases DEF TakeSeat, LInv, TypeOK
  <2> QED
    BY <1>s, <1>2, <2>1 DEF TakeSeat
<1>3. ASSUME NEW t \in Txs, CheckNewSlot(t) PROVE Goal
  <2>1. [tx[t] EXCEPT !.pc = "insertSlot"].pc = "insertSlot"
    BY DEF LInv, TypeOK, Tx
  <2>2. \A u \in Txs : tx'[u] = tx[u] \/ tx'[u].pc # "insert"
    BY <1>3, <2>1, EndReleases DEF CheckNewSlot, LInv, TypeOK
  <2> QED
    BY <1>s, <1>3, <2>2 DEF CheckNewSlot
<1>4. ASSUME NEW t \in Txs, Changes(t) PROVE Goal
  <2>1. PICK b \in Booked, row \in BookingRow :
           /\ bookings' \in {bookings, [bookings EXCEPT ![b] = row]}
           /\ row.order = bookings[b].order
    BY <1>4, ChangeWrites
  <2>2. /\ Booked' \subseteq Booked
        /\ \A x \in Booked' : bookings'[x].order = bookings[x].order
    BY <2>1 DEF Booked, LInv, TypeOK
  <2>3. \A u \in Txs : tx'[u] = tx[u] \/ tx'[u].pc # "insert"
    BY <1>4, ChangeWrites
  <2> QED
    BY <2>2, <2>3 DEF NoHistory, HasHistory, OneBookingPerOrder
<1>5. ASSUME NEW t \in Txs, EditSlot(t) PROVE Goal
  BY <1>s, <1>5, EndReleases DEF EditSlot, LInv
<1>6. ASSUME NEW t \in Txs, NEW b \in Bookings, InsertBooking(t, b) PROVE Goal
  <2> DEFINE o == tx[t].order
             row == [slot |-> tx[t].slot, order |-> o, status |-> "confirmed", moves |-> 0]
  <2>1. /\ bookings' = [bookings EXCEPT ![b] = row] /\ b \notin Booked
        /\ ~HasHistory(o) /\ End(t)
    BY <1>6 DEF InsertBooking, NoHistory, Booked
  <2>2. /\ Booked' \subseteq Booked \cup {b}
        /\ \A x \in Booked' \ {b} : bookings'[x] = bookings[x]
        /\ bookings'[b].order = o
    BY <2>1 DEF Booked, LInv, TypeOK
  <2>3. OneBookingPerOrder'
    BY <2>1, <2>2 DEF OneBookingPerOrder, HasHistory
  <2>4. ASSUME NEW u \in Txs, tx'[u].pc = "insert" PROVE ~HasHistory(tx[u].order)' 
    <3>1. u # t /\ tx'[u] = tx[u]
      BY <2>1, <2>4, EndReleases DEF LInv
    <3>2. tx[u].order # o
      BY <1>6, <2>4, <3>1 DEF InsertBooking, LInv, LocksHeld, Held
    <3> QED
      BY <2>2, <2>4, <3>1, <3>2 DEF NoHistory, HasHistory
  <2> QED
    BY <2>3, <2>4 DEF NoHistory
<1>7. ASSUME NEW t \in Txs, NEW s \in Slots, InsertSlot(t, s) PROVE Goal
  BY <1>s, <1>7, EndReleases DEF InsertSlot, LInv
<1>8. ASSUME NEW s \in Slots, DeleteSlot(s) PROVE Goal
  BY <1>s, <1>8 DEF DeleteSlot
<1> QED
  BY <1>1, <1>2, <1>3, <1>4, <1>5, <1>6, <1>7, <1>8, StepKinds

\* An order is booked once, whatever requests for it run side by side and
\* whatever plain reads show.
THEOREM BookedOnce == Spec => []OneBookingPerOrder
<1> DEFINE OInv == NoHistory /\ OneBookingPerOrder
<1>1. ASSUME Init PROVE OInv
  BY <1>1 DEF Init, NoHistory, OneBookingPerOrder, Booked, Idle
<1>2. ASSUME LInv, OInv, [Next]_vars PROVE OInv'
  BY <1>2, OneBookingStep
<1>3. OInv => OneBookingPerOrder
  OBVIOUS
<1> QED
  BY <1>1, <1>2, <1>3, LocksSound, PTL DEF Spec

-----------------------------------------------------------------------------
(* Slots under their bookings, moves, and closed bookings. *)

\* Every step keeps bookings in slots that exist: a slot is deleted only when
\* nobody holds it and no booking was ever made in it.
LEMMA SlotsExistStep ==
  ASSUME LInv, BookedSlotsExist, [Next]_vars
  PROVE  BookedSlotsExist'
<1> USE DEF LInv
<1>s. ASSUME bookings' = bookings, \A s \in Slots : Live(s) => Live(s)' PROVE BookedSlotsExist'
  BY <1>s, BookingTypes DEF BookedSlotsExist, Booked
<1>k. ASSUME slots' = slots, NEW b, NEW row, row.slot \in Slots, Live(row.slot),
             bookings' \in {bookings, [bookings EXCEPT ![b] = row]}
      PROVE  BookedSlotsExist'
  BY <1>k DEF BookedSlotsExist, Booked, Live, TypeOK
<1>1. CASE Quiet
  BY <1>s, <1>1 DEF Quiet, Live
<1>2. ASSUME NEW t \in Txs, TakeSeat(t) \/ CheckNewSlot(t) PROVE BookedSlotsExist'
  BY <1>s, <1>2 DEF TakeSeat, CheckNewSlot, Live
<1>3. ASSUME NEW t \in Txs, LockCurrent(t) PROVE BookedSlotsExist'
  <2> DEFINE b == tx[t].booking
             old == bookings[b]
             row == [old EXCEPT !.status = "cancelled"]
  <2>1. b \in Booked
    BY <1>3 DEF LockCurrent, LocksHeld, Held
  <2>2. old \in BookingRow /\ Live(old.slot)
    BY <2>1, BookingTypes DEF BookedSlotsExist
  <2>3. row.slot = old.slot /\ old.slot \in Slots
    BY <2>2 DEF BookingRow
  <2>4. bookings' \in {bookings, [bookings EXCEPT ![b] = row]}
    BY <1>3 DEF LockCurrent
  <2> QED
    BY <1>k, <1>3, <2>2, <2>3, <2>4 DEF LockCurrent
<1>4. ASSUME NEW t \in Txs, Move(t) PROVE BookedSlotsExist'
  <2> DEFINE b == tx[t].booking
             old == bookings[b]
             row == [old EXCEPT !.slot = tx[t].slot, !.status = "confirmed", !.moves = @ + 1]
  <2>1. b \in Booked /\ tx[t].slot \in Slots
    BY <1>4 DEF Move, LocksHeld, Held
  <2>2. old \in BookingRow
    BY <2>1, BookingTypes
  <2>3. row.slot = tx[t].slot
    BY <2>2 DEF BookingRow
  <2>4. CASE bookings' = bookings
    BY <1>s, <1>4, <2>4 DEF Move, Live
  <2>5. CASE bookings' # bookings
    <3>1. Admits(t, tx[t].slot, {}) /\ bookings' = [bookings EXCEPT ![b] = row]
      BY <1>4, <2>5 DEF Move
    <3>2. slots' = slots
      BY <1>4 DEF Move
    <3> QED
      BY <1>k, <2>1, <2>3, <3>1, <3>2 DEF Admits
  <2> QED
    BY <2>4, <2>5
<1>5. ASSUME NEW t \in Txs, Revive(t) PROVE BookedSlotsExist'
  <2> DEFINE b == tx[t].booking
             old == bookings[b]
             row == [old EXCEPT !.status = tx[t].status]
  <2>1. b \in Booked
    BY <1>5 DEF Revive, LocksHeld, Held
  <2>2. old \in BookingRow /\ Live(old.slot)
    BY <2>1, BookingTypes DEF BookedSlotsExist
  <2>3. row.slot = old.slot /\ old.slot \in Slots
    BY <2>2 DEF BookingRow
  <2>4. bookings' \in {bookings, [bookings EXCEPT ![b] = row]}
    BY <1>5 DEF Revive
  <2> QED
    BY <1>k, <1>5, <2>2, <2>3, <2>4 DEF Revive
<1>6. ASSUME NEW t \in Txs, NEW b \in Bookings, NEW st \in BookingStatuses, NEW u,
             CloseBooking(t, b, st, u)
      PROVE  BookedSlotsExist'
  <2> DEFINE old == bookings[b]
             row == [old EXCEPT !.status = st]
  <2>1. b \in Booked
    BY <1>6 DEF CloseBooking
  <2>2. old \in BookingRow /\ Live(old.slot)
    BY <2>1, BookingTypes DEF BookedSlotsExist
  <2>3. row.slot = old.slot /\ old.slot \in Slots
    BY <2>2 DEF BookingRow
  <2>4. bookings' \in {bookings, [bookings EXCEPT ![b] = row]}
    BY <1>6 DEF CloseBooking
  <2> QED
    BY <1>k, <1>6, <2>2, <2>3, <2>4 DEF CloseBooking
<1>7. ASSUME NEW t \in Txs, EditSlot(t) PROVE BookedSlotsExist'
  <2>1. tx[t].offer \in Offers /\ tx[t].slot \in Slots
    BY <1>7 DEF EditSlot, LocksHeld, Held
  <2>2. \A s \in Slots : Live(s) => Live(s)'
    BY <1>7, <2>1 DEF EditSlot, Live, TypeOK
  <2> QED
    BY <1>s, <1>7, <2>2 DEF EditSlot
<1>8. ASSUME NEW t \in Txs, NEW b \in Bookings, InsertBooking(t, b) PROVE BookedSlotsExist'
  <2> DEFINE row == [slot |-> tx[t].slot, order |-> tx[t].order,
                     status |-> "confirmed", moves |-> 0]
  <2>1. row.slot \in Slots /\ Live(row.slot)
    BY <1>8 DEF InsertBooking, LocksHeld, Held
  <2>2. bookings' = [bookings EXCEPT ![b] = row] /\ slots' = slots
    BY <1>8 DEF InsertBooking
  <2> QED
    BY <1>k, <2>1, <2>2
<1>9. ASSUME NEW t \in Txs, NEW s \in Slots, InsertSlot(t, s) PROVE BookedSlotsExist'
  <2>1. tx[t].offer \in Offers
    BY <1>9 DEF InsertSlot, LocksHeld, Held
  <2>2. \A x \in Slots : Live(x) => Live(x)'
    BY <1>9, <2>1 DEF InsertSlot, Live, TypeOK
  <2> QED
    BY <1>s, <1>9, <2>2 DEF InsertSlot
<1>10. ASSUME NEW s \in Slots, DeleteSlot(s) PROVE BookedSlotsExist'
  BY <1>10, BookingTypes DEF DeleteSlot, BookedSlotsExist, Booked, Live, TypeOK
<1> QED
  BY <1>1, <1>2, <1>3, <1>4, <1>5, <1>6, <1>7, <1>8, <1>9, <1>10, StepKinds DEF Changes

\* No booking is left without its slot.
THEOREM SlotsKept == Spec => []BookedSlotsExist
<1>1. ASSUME Init PROVE BookedSlotsExist
  BY <1>1 DEF Init, BookedSlotsExist, Booked
<1>2. ASSUME LInv, BookedSlotsExist, [Next]_vars PROVE BookedSlotsExist'
  BY <1>2, SlotsExistStep
<1> QED
  BY <1>1, <1>2, LocksSound, PTL DEF Spec

\* Every step keeps moves within the limit, which was read with the booking's
\* lock held.
LEMMA MovesStep ==
  ASSUME LInv, MovesWithinLimit, [Next]_vars
  PROVE  MovesWithinLimit'
<1> USE DEF LInv
<1>s. ASSUME bookings' = bookings PROVE MovesWithinLimit'
  BY <1>s DEF MovesWithinLimit, Booked
<1>k. ASSUME NEW b, NEW row, row.moves <= Limit,
             bookings' \in {bookings, [bookings EXCEPT ![b] = row]}
      PROVE  MovesWithinLimit'
  BY <1>k DEF MovesWithinLimit, Booked, TypeOK
<1>o. ASSUME NEW b \in Booked, NEW st,
             bookings' \in {bookings, [bookings EXCEPT ![b].status = st]}
      PROVE  MovesWithinLimit'
  <2> DEFINE old == bookings[b]
             row == [old EXCEPT !.status = st]
  <2>1. old \in BookingRow /\ old.moves <= Limit
    BY <1>o, BookingTypes DEF MovesWithinLimit
  <2>2. row.moves = old.moves
    BY <2>1 DEF BookingRow
  <2> QED
    BY <1>k, <1>o, <2>1, <2>2
<1>1. ASSUME NEW t \in Txs, LockCurrent(t) PROVE MovesWithinLimit'
  BY <1>o, <1>1 DEF LockCurrent, LocksHeld, Held
<1>2. ASSUME NEW t \in Txs, Move(t) PROVE MovesWithinLimit'
  <2> DEFINE b == tx[t].booking
             old == bookings[b]
             row == [old EXCEPT !.slot = tx[t].slot, !.status = "confirmed", !.moves = @ + 1]
  <2>1. b \in Booked /\ old.moves < Limit
    BY <1>2 DEF Move, LocksHeld, Held
  <2>2. old \in BookingRow
    BY <2>1, BookingTypes
  <2>3. row.moves = old.moves + 1
    BY <2>2 DEF BookingRow
  <2>4. row.moves <= Limit
    BY <2>1, <2>2, <2>3, ConsultationAssumption DEF BookingRow
  <2>5. bookings' \in {bookings, [bookings EXCEPT ![b] = row]}
    BY <1>2 DEF Move
  <2> QED
    BY <1>k, <2>4, <2>5
<1>3. ASSUME NEW t \in Txs, Revive(t) PROVE MovesWithinLimit'
  BY <1>o, <1>3 DEF Revive, LocksHeld, Held
<1>4. ASSUME NEW t \in Txs, NEW b \in Bookings, NEW st \in BookingStatuses, NEW u,
             CloseBooking(t, b, st, u)
      PROVE  MovesWithinLimit'
  <2>1. b \in Booked /\ bookings' \in {bookings, [bookings EXCEPT ![b].status = st]}
    BY <1>4 DEF CloseBooking
  <2> QED
    BY <1>o, <2>1
<1>5. ASSUME NEW t \in Txs, NEW b \in Bookings, InsertBooking(t, b) PROVE MovesWithinLimit'
  <2>1. [slot |-> tx[t].slot, order |-> tx[t].order,
         status |-> "confirmed", moves |-> 0].moves <= Limit
    BY ConsultationAssumption
  <2> QED
    BY <1>k, <1>5, <2>1 DEF InsertBooking
<1>6. CASE Quiet
  BY <1>s, <1>6 DEF Quiet
<1>7. ASSUME NEW t \in Txs, TakeSeat(t) \/ CheckNewSlot(t) \/ EditSlot(t)
      PROVE  MovesWithinLimit'
  BY <1>s, <1>7 DEF TakeSeat, CheckNewSlot, EditSlot
<1>8. ASSUME NEW t \in Txs, NEW s \in Slots, InsertSlot(t, s) PROVE MovesWithinLimit'
  BY <1>s, <1>8 DEF InsertSlot
<1>9. ASSUME NEW s \in Slots, DeleteSlot(s) PROVE MovesWithinLimit'
  BY <1>s, <1>9 DEF DeleteSlot
<1> QED
  BY <1>1, <1>2, <1>3, <1>4, <1>5, <1>6, <1>7, <1>8, <1>9, StepKinds DEF Changes

\* No sequence of moves, cancellations, no-shows and revivals moves a booking
\* more often than the limit.
THEOREM MovesLimited == Spec => []MovesWithinLimit
<1>1. ASSUME Init PROVE MovesWithinLimit
  BY <1>1 DEF Init, MovesWithinLimit, Booked
<1>2. ASSUME LInv, MovesWithinLimit, [Next]_vars PROVE MovesWithinLimit'
  BY <1>2, MovesStep
<1> QED
  BY <1>1, <1>2, LocksSound, PTL DEF Spec

\* A customer's transaction never writes a booking that is closed: it holds the
\* booking since it found it open.
THEOREM ClosedKept == Spec => ClosedIsFinal
<1>1. LInv => \A t \in Txs, b \in Booked :
                tx[t].pc \in {"current", "next"} /\ tx[t].booking = b /\ tx'[t].pc = "idle"
                  /\ bookings[b].status \in Closed => bookings'[b] = bookings[b]
  BY DEF LInv, LocksHeld, Held
<1>2. LInv => [\A t \in Txs, b \in Booked :
                 tx[t].pc \in {"current", "next"} /\ tx[t].booking = b /\ tx'[t].pc = "idle"
                   /\ bookings[b].status \in Closed => bookings'[b] = bookings[b]]_vars
  BY <1>1
<1> QED
  BY <1>2, LocksSound, PTL DEF ClosedIsFinal

-----------------------------------------------------------------------------
(* No provider in two places at once, if every hour has two digits. *)

SlotsApart ==
  \A s, x \in Slots :
    s # x /\ Live(s) /\ Live(x) /\ slots[s].owner = slots[x].owner /\ slots[s].owner # Nobody =>
      ~TextOverlap(slots[s], slots[x])

\* Who is about to insert a slot holds its owner and has found no overlap.
NoClash == \A t \in Txs : tx[t].pc = "insertSlot" => SlotsAgree(tx[t].offer, {})

\* The comparison of two offers does not depend on which is the new one.
LEMMA OverlapSymmetric ==
  ASSUME NEW f \in Offers, NEW g \in Offers
  PROVE  TextOverlap(f, g) <=> TextOverlap(g, f)
<1>1. ASSUME NEW time \in Time PROVE TextKey(time) \in Int
  BY DEF TextKey, Time
<1>2. /\ TextKey(f.start) \in Int /\ TextKey(f.end) \in Int
      /\ TextKey(g.start) \in Int /\ TextKey(g.end) \in Int
  BY <1>1, OfferTypes
<1> QED
  BY <1>2 DEF TextOverlap

\* With two digits the text sorts as the hours do.
LEMMA PaddedSorts ==
  ASSUME NEW x \in Time, NEW y \in Time, x.padded, y.padded, x.hour < y.hour
  PROVE  TextKey(x) < TextKey(y)
<1>1. x.hour \in 0 .. 23 /\ y.hour \in 0 .. 23
  BY DEF Time
<1>2. TextKey(x) = 11 * (x.hour \div 10) + 1 + (x.hour % 10)
  BY DEF TextKey
<1>3. TextKey(y) = 11 * (y.hour \div 10) + 1 + (y.hour % 10)
  BY DEF TextKey
<1> QED
  BY <1>1, <1>2, <1>3

\* Writing an offer into s, while its owner is locked, keeps the slots apart.
LEMMA WriteSlot ==
  ASSUME LInv, SlotsApart, NoClash,
         NEW t \in Txs, NEW s \in Slots, NEW f \in Offers,
         f.owner # Nobody => lock[f.owner] = t,
         SlotsAgree(f, {s}),
         slots' = [slots EXCEPT ![s] = f], End(t)
  PROVE  SlotsApart' /\ NoClash'
<1> USE DEF LInv
<1>1. \A x \in Slots : slots'[x] = IF x = s THEN f ELSE slots[x]
  BY DEF TypeOK
<1>2. ASSUME NEW x \in Slots \ {s}, Live(x), slots[x].owner = f.owner, f.owner # Nobody
      PROVE  ~TextOverlap(slots[x], f) /\ ~TextOverlap(f, slots[x])
  <2>1. slots[x] \in Offers /\ ~TextOverlap(slots[x], f)
    BY <1>2 DEF SlotsAgree, Live
  <2> QED
    BY <2>1, OverlapSymmetric
<1>3. SlotsApart'
  <2> SUFFICES ASSUME NEW x \in Slots, NEW y \in Slots, x # y, Live(x)', Live(y)',
                      slots'[x].owner = slots'[y].owner, slots'[x].owner # Nobody
               PROVE  ~TextOverlap(slots'[x], slots'[y])
    BY DEF SlotsApart
  <2> QED
    BY <1>1, <1>2 DEF SlotsApart, Live
<1>4. ASSUME NEW u \in Txs, tx'[u].pc = "insertSlot" PROVE SlotsAgree(tx[u].offer, {})'
  <2>1. u # t /\ tx'[u] = tx[u]
    BY <1>4, EndReleases
  <2> DEFINE g == tx[u].offer
  <2>2. g \in Offers /\ SlotsAgree(g, {}) /\ (g.owner # Nobody => lock[g.owner] = u)
    BY <1>4, <2>1 DEF LocksHeld, Held, NoClash
  <2>3. g.owner = Nobody \/ g.owner # f.owner
    BY <2>1, <2>2
  <2>4. ASSUME NEW x \in Slots, g.owner # Nobody, Live(x)', slots'[x].owner = g.owner
        PROVE  ~TextOverlap(slots'[x], g)
    BY <1>1, <2>2, <2>3, <2>4 DEF SlotsAgree, Live
  <2> QED
    BY <2>1, <2>4 DEF SlotsAgree
<1> QED
  BY <1>3, <1>4 DEF NoClash

\* Every step keeps the slots of a provider apart.
LEMMA ApartStep ==
  ASSUME LInv, SlotsApart, NoClash, [Next]_vars
  PROVE  SlotsApart' /\ NoClash'
<1> USE DEF LInv
<1> DEFINE Goal == SlotsApart' /\ NoClash'
<1>s. ASSUME slots' = slots,
             \A u \in Txs : tx'[u] = tx[u] \/ tx'[u].pc # "insertSlot"
      PROVE  Goal
  BY <1>s DEF SlotsApart, NoClash, SlotsAgree, Live
<1>1. CASE Quiet
  BY <1>s, <1>1 DEF Quiet
<1>2. ASSUME NEW t \in Txs, TakeSeat(t) PROVE Goal
  <2>1. [tx[t] EXCEPT !.pc = "insert"].pc = "insert"
    BY DEF TypeOK, Tx
  <2>2. \A u \in Txs : tx'[u] = tx[u] \/ tx'[u].pc # "insertSlot"
    BY <1>2, <2>1, EndReleases DEF TakeSeat, TypeOK
  <2> QED
    BY <1>s, <1>2, <2>2 DEF TakeSeat
<1>3. ASSUME NEW t \in Txs, CheckNewSlot(t) PROVE Goal
  <2>1. slots' = slots
    BY <1>3 DEF CheckNewSlot
  <2>2. CASE End(t)
    BY <1>s, <2>1, <2>2, EndReleases
  <2>3. CASE SlotsAgree(tx[t].offer, {}) /\ tx' = [tx EXCEPT ![t].pc = "insertSlot"]
    <3>1. tx'[t].offer = tx[t].offer /\ \A u \in Txs \ {t} : tx'[u] = tx[u]
      BY <2>3 DEF TypeOK, Tx
    <3>2. \A u \in Txs : tx'[u].pc = "insertSlot" => SlotsAgree(tx'[u].offer, {})
      BY <2>3, <3>1 DEF NoClash
    <3> QED
      BY <2>1, <3>2 DEF SlotsApart, NoClash, SlotsAgree, Live
  <2> QED
    BY <1>3, <2>2, <2>3 DEF CheckNewSlot
<1>4. ASSUME NEW t \in Txs, Changes(t) PROVE Goal
  BY <1>s, <1>4, ChangeWrites
<1>5. ASSUME NEW t \in Txs, EditSlot(t) PROVE Goal
  <2>1. /\ tx[t].slot \in Slots /\ tx[t].offer \in Offers
        /\ tx[t].offer.owner # Nobody => lock[tx[t].offer.owner] = t
    BY <1>5 DEF EditSlot, LocksHeld, Held
  <2>2. CASE slots' = slots
    BY <1>s, <1>5, <2>2, EndReleases DEF EditSlot
  <2>3. CASE slots' # slots
    BY <1>5, <2>1, <2>3, WriteSlot DEF EditSlot
  <2> QED
    BY <2>2, <2>3
<1>6. ASSUME NEW t \in Txs, NEW b \in Bookings, InsertBooking(t, b) PROVE Goal
  BY <1>s, <1>6, EndReleases DEF InsertBooking
<1>7. ASSUME NEW t \in Txs, NEW s \in Slots, InsertSlot(t, s) PROVE Goal
  <2>1. /\ tx[t].offer \in Offers
        /\ tx[t].offer.owner # Nobody => lock[tx[t].offer.owner] = t
    BY <1>7 DEF InsertSlot, LocksHeld, Held
  <2>2. SlotsAgree(tx[t].offer, {s})
    BY <1>7 DEF InsertSlot, NoClash, SlotsAgree
  <2> QED
    BY <1>7, <2>1, <2>2, WriteSlot DEF InsertSlot
<1>8. ASSUME NEW s \in Slots, DeleteSlot(s) PROVE Goal
  <2>1. Gone \notin Offers /\ tx' = tx
    BY <1>8, ConsultationAssumption DEF DeleteSlot
  <2>2. \A x \in Slots : Live(x)' => Live(x) /\ slots'[x] = slots[x]
    BY <1>8, <2>1 DEF DeleteSlot, Live, TypeOK
  <2> QED
    BY <2>1, <2>2 DEF SlotsApart, NoClash, SlotsAgree
<1> QED
  BY <1>1, <1>2, <1>3, <1>4, <1>5, <1>6, <1>7, <1>8, StepKinds

\* If all slot forms write the hour with two digits, no interleaving of new and
\* edited slots puts a provider in two places at once.
THEOREM NotDoubleBooked ==
  ASSUME \A f \in Offers : f.start.padded /\ f.end.padded
  PROVE  Spec => []ProviderNotDoubleBooked
<1>1. ASSUME Init PROVE SlotsApart /\ NoClash
  BY <1>1, ConsultationAssumption DEF Init, SlotsApart, NoClash, Live, Idle
<1>2. ASSUME LInv, SlotsApart, NoClash, [Next]_vars PROVE SlotsApart' /\ NoClash'
  BY <1>2, ApartStep
<1>3. ASSUME SlotsApart PROVE ProviderNotDoubleBooked
  <2>1. ASSUME NEW f \in Offers, NEW g \in Offers, RealOverlap(f, g) PROVE TextOverlap(f, g)
    <3>1. f.start \in Time /\ f.end \in Time /\ g.start \in Time /\ g.end \in Time
      BY OfferTypes
    <3>2. f.start.hour < g.end.hour /\ g.start.hour < f.end.hour
      BY <2>1, <3>1 DEF RealOverlap, Time
    <3>3. TextKey(f.start) < TextKey(g.end) /\ TextKey(g.start) < TextKey(f.end)
      BY <3>1, <3>2, PaddedSorts
    <3>4. TextKey(f.end) \in Int /\ TextKey(g.start) \in Int
      BY <3>1 DEF TextKey, Time
    <3> QED
      BY <3>3, <3>4 DEF TextOverlap
  <2> QED
    BY <1>3, <2>1 DEF SlotsApart, ProviderNotDoubleBooked, Live
<1> QED
  BY <1>1, <1>2, <1>3, LocksSound, PTL DEF Spec

-----------------------------------------------------------------------------
(* Capacity. *)

Seated(s) == {b \in Bookings : <<b, s>> \in ActivePairs}

\* Who is about to insert holds the slot and has found a place in it.
RoomKept == \A t \in Txs :
  tx[t].pc = "insert" => Cardinality(Seated(tx[t].slot)) < slots[tx[t].slot].capacity

\* The seats of a slot are finitely many.
LEMMA SeatsFinite ==
  ASSUME NEW s
  PROVE  IsFiniteSet(Seated(s)) /\ Cardinality(Seated(s)) \in Nat
<1>1. Seated(s) \in SUBSET Bookings /\ IsFiniteSet(Bookings)
  BY ConsultationAssumption DEF Seated
<1> QED
  BY <1>1, FS_Subset, FS_CardinalityType

\* Fewer seats do not count more.
LEMMA FewerSeats ==
  ASSUME NEW s, Seated(s)' \subseteq Seated(s)
  PROVE  Cardinality(Seated(s)') <= Cardinality(Seated(s)) /\ Cardinality(Seated(s)') \in Nat
<1> DEFINE S == Seated(s)
           T == Seated(s)'
<1>1. IsFiniteSet(S) /\ T \in SUBSET S
  BY SeatsFinite
<1>2. IsFiniteSet(T) /\ Cardinality(T) <= Cardinality(S)
  BY <1>1, FS_Subset
<1> QED
  BY <1>2, FS_CardinalityType

\* One more booking in a slot that admits one, the booking itself not counted,
\* fits.
LEMMA OneMoreSeat ==
  ASSUME NEW s, NEW b, NEW n \in Nat,
         Seated(s)' \subseteq Seated(s) \cup {b},
         Cardinality(Seated(s) \ {b}) < n
  PROVE  Cardinality(Seated(s)') <= n
<1> DEFINE S == Seated(s) \ {b}
           T == Seated(s)'
<1>1. IsFiniteSet(Seated(s))
  BY SeatsFinite
<1>2. IsFiniteSet(S)
  BY <1>1, FS_RemoveElement
<1>3. b \notin S
  OBVIOUS
<1>4. IsFiniteSet(S \cup {b}) /\ Cardinality(S \cup {b}) = Cardinality(S) + 1
  <2> HIDE DEF S
  <2> QED
    BY <1>2, <1>3, FS_AddElement
<1>5. T \in SUBSET (S \cup {b})
  OBVIOUS
<1>6. IsFiniteSet(T) /\ Cardinality(T) <= Cardinality(S \cup {b})
  <2> HIDE DEF S, T
  <2> QED
    BY <1>4, <1>5, FS_Subset
<1>7. Cardinality(S) \in Nat /\ Cardinality(T) \in Nat
  BY <1>2, <1>6, FS_CardinalityType
<1> QED
  BY <1>4, <1>6, <1>7

\* One booking written seats it in no slot but its new one, and there only if it
\* is active.
LEMMA SeatsAfter ==
  ASSUME TypeOK, NEW b \in Bookings, NEW row \in BookingRow, NEW s \in Slots,
         bookings' \in {bookings, [bookings EXCEPT ![b] = row]}
  PROVE  /\ Seated(s)' \subseteq Seated(s) \cup {b}
         /\ row.slot # s \/ row.status \notin Active => Seated(s)' \subseteq Seated(s)
<1>1. ASSUME NEW c \in Bookings, c # b, c \in Seated(s)' PROVE c \in Seated(s)
  BY <1>1 DEF Seated, ActivePairs, Booked, TypeOK
<1>2. ASSUME row.slot # s \/ row.status \notin Active, b \in Seated(s)' PROVE b \in Seated(s)
  BY <1>2 DEF Seated, ActivePairs, Booked, TypeOK
<1> QED
  BY <1>1, <1>2 DEF Seated

\* A seat less does not count more.
LEMMA WithoutOne ==
  ASSUME NEW s, NEW b
  PROVE  Cardinality(Seated(s) \ {b}) <= Cardinality(Seated(s))
<1> DEFINE S == Seated(s)
<1>1. IsFiniteSet(S) /\ (S \ {b}) \in SUBSET S
  BY SeatsFinite
<1> QED
  BY <1>1, FS_Subset

\* Only a move or a revival that has the slot's lock seats a booking, and with
\* plain reads of the present rows it leaves it a place.
LEMMA ChangeSeats ==
  ASSUME LInv, NEW t \in Txs, Changes(t), NEW s \in Slots
  PROVE  \/ Seated(s)' \subseteq Seated(s)
         \/ /\ Move(t) \/ Revive(t)
            /\ Free(s, t) /\ Live(s)
            /\ \E b \in Bookings :
                 /\ Seated(s)' \subseteq Seated(s) \cup {b}
                 /\ ~SnapshotReads => Cardinality(Seated(s) \ {b}) < slots[s].capacity
<1> USE DEF LInv
<1> DEFINE Fewer == Seated(s)' \subseteq Seated(s)
<1>s. ASSUME bookings' = bookings PROVE Fewer
  BY <1>s DEF Seated, ActivePairs, Booked
<1>v. ASSUME ~SnapshotReads PROVE ActiveSeen(t, s) = Seated(s)
  BY <1>v DEF ActiveSeen, View, Seated
<1>c. ASSUME Live(s) PROVE slots[s].capacity \in Nat
  BY <1>c, OfferTypes DEF Live
<1>1. CASE LockCurrent(t)
  <2> DEFINE b == tx[t].booking
             old == bookings[b]
             row == [old EXCEPT !.status = "cancelled"]
  <2>1. b \in Booked
    BY <1>1 DEF LockCurrent, LocksHeld, Held
  <2>2. old \in BookingRow
    BY <2>1, BookingTypes
  <2>3. row \in BookingRow /\ row.status \notin Active
    BY <2>2 DEF BookingRow, BookingStatuses, Closed, Active
  <2>4. bookings' \in {bookings, [bookings EXCEPT ![b] = row]}
    BY <1>1 DEF LockCurrent
  <2> HIDE DEF row
  <2> QED
    BY <2>1, <2>3, <2>4, SeatsAfter DEF Booked
<1>2. CASE Move(t)
  <2> DEFINE b == tx[t].booking
             old == bookings[b]
             row == [old EXCEPT !.slot = tx[t].slot, !.status = "confirmed", !.moves = @ + 1]
  <2>1. b \in Booked /\ tx[t].slot \in Slots
    BY <1>2 DEF Move, LocksHeld, Held
  <2>2. old \in BookingRow /\ old.moves + 1 \in Nat /\ "confirmed" \in BookingStatuses
    BY <2>1, BookingTypes DEF BookingStatuses, Active
  <2>3. row \in BookingRow /\ row.slot = tx[t].slot
    <3> HIDE DEF old
    <3> QED
      BY <2>1, <2>2 DEF BookingRow
  <2>4. bookings' \in {bookings, [bookings EXCEPT ![b] = row]}
    BY <1>2 DEF Move
  <2> HIDE DEF row
  <2>5. Seated(s)' \subseteq Seated(s) \cup {b} /\ (row.slot # s => Fewer)
    BY <2>1, <2>3, <2>4, SeatsAfter DEF Booked
  <2>6. CASE s = tx[t].slot /\ bookings' # bookings
    <3>1. Free(s, t) /\ Live(s) /\ Cardinality(ActiveSeen(t, s) \ {}) < slots[s].capacity
      BY <1>2, <2>6 DEF Move, Admits
    <3>2. ASSUME ~SnapshotReads PROVE Cardinality(Seated(s) \ {b}) < slots[s].capacity
      <4>1. Cardinality(Seated(s)) < slots[s].capacity
        <5>1. ActiveSeen(t, s) \ {} = Seated(s)
          BY <1>v, <3>2
        <5> QED
          BY <3>1, <5>1
      <4>2. IsFiniteSet(Seated(s) \ {b})
        BY SeatsFinite, FS_RemoveElement
      <4>3. Cardinality(Seated(s) \ {b}) \in Nat
        BY <4>2, FS_CardinalityType
      <4>4. Cardinality(Seated(s)) \in Nat /\ slots[s].capacity \in Nat
        BY <1>c, <3>1, SeatsFinite
      <4>5. Cardinality(Seated(s) \ {b}) <= Cardinality(Seated(s))
        BY WithoutOne
      <4> QED
        BY <4>1, <4>3, <4>4, <4>5
    <3> QED
      BY <1>2, <2>1, <2>5, <3>1, <3>2 DEF Booked
  <2> QED
    BY <1>s, <2>3, <2>5, <2>6
<1>3. CASE Revive(t)
  <2> DEFINE b == tx[t].booking
             old == bookings[b]
             row == [old EXCEPT !.status = tx[t].status]
  <2>1. b \in Booked /\ tx[t].status \in Active
    BY <1>3 DEF Revive, LocksHeld, Held
  <2>2. old \in BookingRow
    BY <2>1, BookingTypes
  <2>3. row \in BookingRow /\ row.slot = old.slot
    BY <2>1, <2>2 DEF BookingRow, BookingStatuses
  <2>4. bookings' \in {bookings, [bookings EXCEPT ![b] = row]}
    BY <1>3 DEF Revive
  <2> HIDE DEF row
  <2>5. Seated(s)' \subseteq Seated(s) \cup {b} /\ (row.slot # s => Fewer)
    BY <2>1, <2>3, <2>4, SeatsAfter DEF Booked
  <2>6. CASE s = old.slot /\ bookings' # bookings
    <3>1. Free(s, t) /\ Live(s) /\ Cardinality(ActiveSeen(t, s) \ {b}) < slots[s].capacity
      BY <1>3, <2>6 DEF Revive, Admits
    <3>2. ASSUME ~SnapshotReads PROVE Cardinality(Seated(s) \ {b}) < slots[s].capacity
      BY <1>v, <3>1, <3>2
    <3> QED
      BY <1>3, <2>1, <2>5, <3>1, <3>2 DEF Booked
  <2> QED
    BY <1>s, <2>3, <2>5, <2>6
<1>4. ASSUME NEW b \in Bookings, NEW st \in BookingStatuses, NEW u, CloseBooking(t, b, st, u)
      PROVE  Fewer
  <2> DEFINE old == bookings[b]
             row == [old EXCEPT !.status = st]
  <2>1. old \in BookingRow
    BY <1>4, BookingTypes DEF CloseBooking
  <2>2. row \in BookingRow /\ row.status \notin Active
    BY <1>4, <2>1 DEF BookingRow, CloseBooking
  <2>3. bookings' \in {bookings, [bookings EXCEPT ![b] = row]}
    BY <1>4 DEF CloseBooking
  <2> HIDE DEF row
  <2> QED
    BY <2>2, <2>3, SeatsAfter
<1> QED
  BY <1>1, <1>2, <1>3, <1>4 DEF Changes

\* A transaction whose view is not fixed reads the bookings as they are.
LEMMA FreshView ==
  ASSUME NEW t \in Txs, ~tx[t].fixed, NEW s
  PROVE  ActiveSeen(t, s) = Seated(s)
BY DEF ActiveSeen, View, Seated

\* Every step keeps the place that was found: the slot's lock is held from the
\* count to the insert.
LEMMA RoomStep ==
  ASSUME LInv, RoomKept, [Next]_vars
  PROVE  RoomKept'
<1> USE DEF LInv
<1> DEFINE Kept(s) == slots'[s] = slots[s] /\ Seated(s)' \subseteq Seated(s)
<1>s. ASSUME \A u \in Txs : tx'[u].pc = "insert" =>
               tx'[u] = tx[u] /\ \A s \in Slots : Live(s) /\ lock[s] = u => Kept(s)
      PROVE  RoomKept'
  <2> SUFFICES ASSUME NEW u \in Txs, tx'[u].pc = "insert"
               PROVE  (Cardinality(Seated(tx[u].slot)) < slots[tx[u].slot].capacity)'
    BY DEF RoomKept
  <2>1. PICK s \in Slots : s = tx[u].slot /\ Live(s) /\ lock[s] = u /\ tx'[u].slot = s
    BY <1>s DEF LocksHeld, Held
  <2>2. Cardinality(Seated(s)) < slots[s].capacity /\ Kept(s)
    BY <1>s, <2>1 DEF RoomKept
  <2>3. Cardinality(Seated(s)') <= Cardinality(Seated(s)) /\ Cardinality(Seated(s)') \in Nat
    BY <2>2, FewerSeats
  <2>4. Cardinality(Seated(s)) \in Nat /\ slots[s].capacity \in Nat
    BY <2>1, SeatsFinite, OfferTypes DEF Live
  <2>5. Cardinality(Seated(s)') < slots'[s].capacity
    BY <2>2, <2>3, <2>4
  <2> QED
    BY <2>1, <2>5 DEF Seated
<1>b. ASSUME bookings' = bookings, NEW s PROVE Seated(s)' = Seated(s)
  BY <1>b DEF Seated, ActivePairs, Booked
<1>1. CASE Quiet
  BY <1>s, <1>b, <1>1 DEF Quiet
<1>2. ASSUME NEW t \in Txs, TakeSeat(t) PROVE RoomKept'
  <2>1. slots' = slots /\ bookings' = bookings /\ \A u \in Txs \ {t} : tx'[u] = tx[u]
    BY <1>2, EndReleases DEF TakeSeat, TypeOK
  <2>2. CASE End(t)
    BY <1>s, <1>b, <2>1, <2>2, EndReleases
  <2>3. CASE ~End(t)
    <3>1. PICK s \in Slots : s = tx[t].slot /\ Admits(t, s, {}) /\ tx'[t].slot = s
      BY <1>2, <2>3 DEF TakeSeat, LocksHeld, Held, TypeOK, Tx
    <3>2. ActiveSeen(t, s) \ {} = Seated(s)
      BY <1>2, FreshView DEF TakeSeat, LocksHeld, Held
    <3>3. Cardinality(Seated(s)) < slots[s].capacity
      BY <3>1, <3>2 DEF Admits
    <3>4. Seated(s)' = Seated(s)
      BY <1>b, <2>1
    <3>5. (Cardinality(Seated(tx[t].slot)) < slots[tx[t].slot].capacity)'
      BY <2>1, <3>1, <3>3, <3>4 DEF Seated
    <3>6. ASSUME NEW u \in Txs \ {t}, tx'[u].pc = "insert"
          PROVE  (Cardinality(Seated(tx[u].slot)) < slots[tx[u].slot].capacity)'
      BY <2>1, <3>6 DEF RoomKept, Seated, ActivePairs, Booked
    <3> QED
      BY <3>5, <3>6 DEF RoomKept
  <2> QED
    BY <2>2, <2>3
<1>3. ASSUME NEW t \in Txs, CheckNewSlot(t) PROVE RoomKept'
  <2>1. [tx[t] EXCEPT !.pc = "insertSlot"].pc = "insertSlot"
    BY DEF TypeOK, Tx
  <2>2. \A u \in Txs : tx'[u] = tx[u] \/ tx'[u].pc # "insert"
    BY <1>3, <2>1, EndReleases DEF CheckNewSlot, TypeOK
  <2> QED
    BY <1>s, <1>b, <1>3, <2>2 DEF CheckNewSlot
<1>4. ASSUME NEW t \in Txs, Changes(t) PROVE RoomKept'
  <2>1. /\ slots' = slots
        /\ \A u \in Txs : tx'[u] = tx[u] \/ tx'[u].pc # "insert"
    BY <1>4, ChangeWrites
  <2>2. ASSUME NEW u \in Txs, tx[u].pc = "insert", NEW s \in Slots, lock[s] = u
        PROVE  Seated(s)' \subseteq Seated(s)
    <3>1. Move(t) \/ Revive(t) => ~Free(s, t)
      BY <2>2, ConsultationAssumption DEF Move, Revive, Free
    <3> QED
      BY <1>4, <3>1, ChangeSeats
  <2> QED
    BY <1>s, <2>1, <2>2
<1>5. ASSUME NEW t \in Txs, EditSlot(t) PROVE RoomKept'
  <2>1. \A u \in Txs : tx'[u].pc = "insert" => u # t /\ tx'[u] = tx[u]
    BY <1>5, EndReleases DEF EditSlot
  <2>2. tx[t].slot \in Slots /\ lock[tx[t].slot] = t
    BY <1>5 DEF EditSlot, LocksHeld, Held
  <2>3. ASSUME NEW s \in Slots, lock[s] # t PROVE slots'[s] = slots[s]
    BY <1>5, <2>2, <2>3 DEF EditSlot, TypeOK
  <2>4. bookings' = bookings
    BY <1>5 DEF EditSlot
  <2> QED
    BY <1>s, <1>b, <2>1, <2>3, <2>4
<1>6. ASSUME NEW t \in Txs, NEW b \in Bookings, InsertBooking(t, b) PROVE RoomKept'
  <2> DEFINE row == [slot |-> tx[t].slot, order |-> tx[t].order,
                     status |-> "confirmed", moves |-> 0]
  <2>1. tx[t].slot \in Slots /\ tx[t].order \in Orders /\ lock[tx[t].slot] = t
    BY <1>6 DEF InsertBooking, LocksHeld, Held
  <2>2. row \in BookingRow
    BY <2>1 DEF BookingRow, BookingStatuses, Active
  <2>3. bookings' = [bookings EXCEPT ![b] = row] /\ slots' = slots
    BY <1>6 DEF InsertBooking
  <2>4. ASSUME NEW s \in Slots, lock[s] # t PROVE Seated(s)' \subseteq Seated(s)
    <3>1. row.slot # s
      BY <2>1, <2>4
    <3> HIDE DEF row
    <3> QED
      BY <2>2, <2>3, <3>1, SeatsAfter
  <2>5. \A u \in Txs : tx'[u].pc = "insert" => u # t /\ tx'[u] = tx[u]
    BY <1>6, EndReleases DEF InsertBooking
  <2> QED
    BY <1>s, <2>3, <2>4, <2>5
<1>7. ASSUME NEW t \in Txs, NEW s \in Slots, InsertSlot(t, s) PROVE RoomKept'
  <2>1. \A u \in Txs : tx'[u].pc = "insert" => tx'[u] = tx[u]
    BY <1>7, EndReleases DEF InsertSlot
  <2>2. \A x \in Slots : Live(x) => slots'[x] = slots[x]
    BY <1>7, ConsultationAssumption DEF InsertSlot, Live, TypeOK
  <2>3. bookings' = bookings
    BY <1>7 DEF InsertSlot
  <2> QED
    BY <1>s, <1>b, <2>1, <2>2, <2>3
<1>8. ASSUME NEW s \in Slots, DeleteSlot(s) PROVE RoomKept'
  <2>1. \A u \in Txs : u # None
    BY ConsultationAssumption
  <2>2. \A x \in Slots : lock[x] # None => slots'[x] = slots[x]
    BY <1>8 DEF DeleteSlot, TypeOK
  <2>3. tx' = tx /\ bookings' = bookings
    BY <1>8 DEF DeleteSlot
  <2> QED
    BY <1>s, <1>b, <2>1, <2>2, <2>3
<1> QED
  BY <1>1, <1>2, <1>3, <1>4, <1>5, <1>6, <1>7, <1>8, StepKinds

\* Fits(s): the seats of s, if it is there, are within its capacity.
Fits(s) == Live(s) => Cardinality(Seated(s)) <= slots[s].capacity

\* A slot fits its capacity or is overfull.
LEMMA FitsOrOverfull ==
  ASSUME NEW s
  PROVE  Fits(s) <=> ~Overfull(s)
<1>1. ASSUME Live(s) PROVE slots[s].capacity \in Nat /\ Cardinality(Seated(s)) \in Nat
  BY <1>1, SeatsFinite, OfferTypes DEF Live
<1> QED
  BY <1>1 DEF Fits, Overfull, Seated

\* Only a move or a revival that was admitted overfills a slot.
LEMMA FitStep ==
  ASSUME LInv, RoomKept, BookedSlotsExist, [Next]_vars, NEW s \in Slots, Fits(s)
  PROVE  \/ Fits(s)'
         \/ /\ SnapshotReads
            /\ \E t \in Txs : tx[t].pc \in {"next", "revive"} /\ tx'[t].pc = "idle"
<1> USE DEF LInv
<1> DEFINE Goal == \/ Fits(s)'
                   \/ /\ SnapshotReads
                      /\ \E t \in Txs : tx[t].pc \in {"next", "revive"} /\ tx'[t].pc = "idle"
<1>s. ASSUME slots'[s] = slots[s], Seated(s)' \subseteq Seated(s) PROVE Goal
  <2>1. Cardinality(Seated(s)') <= Cardinality(Seated(s)) /\ Cardinality(Seated(s)') \in Nat
    BY <1>s, FewerSeats
  <2>2. ASSUME Live(s) PROVE slots[s].capacity \in Nat /\ Cardinality(Seated(s)) \in Nat
    BY <2>2, SeatsFinite, OfferTypes DEF Live
  <2> QED
    BY <1>s, <2>1, <2>2 DEF Fits, Live
<1>b. ASSUME bookings' = bookings PROVE Seated(s)' = Seated(s)
  BY <1>b DEF Seated, ActivePairs, Booked
<1>o. ASSUME NEW b \in Bookings, slots' = slots, Live(s),
             Seated(s)' \subseteq Seated(s) \cup {b},
             Cardinality(Seated(s) \ {b}) < slots[s].capacity
      PROVE  Goal
  <2>1. slots[s].capacity \in Nat
    BY <1>o, OfferTypes DEF Live
  <2>2. Cardinality(Seated(s)') <= slots[s].capacity
    BY <1>o, <2>1, OneMoreSeat
  <2> QED
    BY <1>o, <2>2 DEF Fits
<1>1. CASE Quiet
  BY <1>s, <1>b, <1>1 DEF Quiet
<1>2. ASSUME NEW t \in Txs, TakeSeat(t) \/ CheckNewSlot(t) PROVE Goal
  BY <1>s, <1>b, <1>2 DEF TakeSeat, CheckNewSlot
<1>3. ASSUME NEW t \in Txs, Changes(t) PROVE Goal
  <2>1. slots' = slots
    BY <1>3, ChangeWrites
  <2>2. CASE Seated(s)' \subseteq Seated(s)
    BY <1>s, <2>1, <2>2
  <2>3. ASSUME Move(t) \/ Revive(t), Live(s), NEW b \in Bookings,
               Seated(s)' \subseteq Seated(s) \cup {b},
               ~SnapshotReads => Cardinality(Seated(s) \ {b}) < slots[s].capacity
        PROVE  Goal
    <3>1. tx[t].pc \in {"next", "revive"} /\ tx'[t].pc = "idle"
      BY <2>3, EndReleases DEF Move, Revive
    <3>2. CASE SnapshotReads
      BY <3>1, <3>2
    <3>3. CASE ~SnapshotReads
      BY <1>o, <2>1, <2>3, <3>3
    <3> QED
      BY <3>2, <3>3
  <2> QED
    BY <1>3, <2>2, <2>3, ChangeSeats
<1>4. ASSUME NEW t \in Txs, EditSlot(t) PROVE Goal
  <2>1. tx[t].slot \in Slots /\ tx[t].offer \in Offers /\ ~tx[t].fixed
    BY <1>4 DEF EditSlot, LocksHeld, Held
  <2>2. Seated(s)' = Seated(s)
    BY <1>4, <1>b DEF EditSlot
  <2>3. CASE slots'[s] = slots[s]
    BY <1>s, <2>2, <2>3
  <2>4. CASE slots'[s] # slots[s]
    <3>1. /\ s = tx[t].slot /\ slots'[s] = tx[t].offer
          /\ Cardinality(ActiveSeen(t, s)) <= tx[t].offer.capacity
      BY <1>4, <2>1, <2>4 DEF EditSlot, TypeOK
    <3>2. Cardinality(Seated(s)') <= slots'[s].capacity
      BY <2>1, <2>2, <3>1, FreshView
    <3> QED
      BY <3>2 DEF Fits
  <2> QED
    BY <2>3, <2>4
<1>5. ASSUME NEW t \in Txs, NEW b \in Bookings, InsertBooking(t, b) PROVE Goal
  <2> DEFINE row == [slot |-> tx[t].slot, order |-> tx[t].order,
                     status |-> "confirmed", moves |-> 0]
  <2>1. /\ tx[t].slot \in Slots /\ tx[t].order \in Orders /\ Live(tx[t].slot)
        /\ Cardinality(Seated(tx[t].slot)) < slots[tx[t].slot].capacity
    BY <1>5 DEF InsertBooking, LocksHeld, Held, RoomKept
  <2>2. row \in BookingRow /\ row.slot = tx[t].slot
    BY <2>1 DEF BookingRow, BookingStatuses, Active
  <2>3. bookings' = [bookings EXCEPT ![b] = row] /\ slots' = slots
    BY <1>5 DEF InsertBooking
  <2> HIDE DEF row
  <2>4. Seated(s)' \subseteq Seated(s) \cup {b} /\ (row.slot # s => Seated(s)' \subseteq Seated(s))
    BY <2>2, <2>3, SeatsAfter
  <2>5. CASE s = tx[t].slot
    <3>1. b \notin Seated(s)
      BY <1>5 DEF InsertBooking, Seated, ActivePairs, Booked
    <3>2. Seated(s) \ {b} = Seated(s)
      BY <3>1
    <3> QED
      BY <1>o, <2>1, <2>3, <2>4, <2>5, <3>2
  <2>6. CASE s # tx[t].slot
    BY <1>s, <2>2, <2>3, <2>4, <2>6
  <2> QED
    BY <2>5, <2>6
<1>6. ASSUME NEW t \in Txs, NEW x \in Slots, InsertSlot(t, x) PROVE Goal
  <2>1. Seated(s)' = Seated(s)
    BY <1>6, <1>b DEF InsertSlot
  <2>2. CASE x # s
    BY <1>s, <1>6, <2>1, <2>2 DEF InsertSlot, TypeOK
  <2>3. CASE x = s
    <3>1. ~Live(s)
      BY <1>6, <2>3, ConsultationAssumption DEF InsertSlot, Live
    <3>2. Seated(s) = {}
      BY <3>1, BookingTypes DEF Seated, ActivePairs, BookedSlotsExist
    <3>3. Cardinality(Seated(s)') = 0
      BY <2>1, <3>2, FS_EmptySet
    <3>4. ASSUME Live(s)' PROVE slots'[s].capacity \in 1 .. 100
      BY <3>4, OfferTypes DEF Live
    <3> QED
      BY <3>3, <3>4 DEF Fits
  <2> QED
    BY <2>2, <2>3
<1>7. ASSUME NEW x \in Slots, DeleteSlot(x) PROVE Goal
  <2>1. Seated(s)' = Seated(s)
    BY <1>7, <1>b DEF DeleteSlot
  <2>2. CASE x # s
    BY <1>s, <1>7, <2>1, <2>2 DEF DeleteSlot, TypeOK
  <2>3. CASE x = s
    <3>1. ~Live(s)'
      BY <1>7, <2>3, ConsultationAssumption DEF DeleteSlot, Live, TypeOK
    <3> QED
      BY <3>1 DEF Fits
  <2> QED
    BY <2>2, <2>3
<1> QED
  BY <1>1, <1>2, <1>3, <1>4, <1>5, <1>6, <1>7, StepKinds

\* Who is about to insert has a place, always.
LEMMA RoomSound == Spec => []RoomKept
<1>1. ASSUME Init PROVE RoomKept
  BY <1>1 DEF Init, RoomKept, Idle
<1>2. ASSUME LInv, RoomKept, [Next]_vars PROVE RoomKept'
  BY <1>2, RoomStep
<1> QED
  BY <1>1, <1>2, LocksSound, PTL DEF Spec

\* With either kind of plain read, only a customer's move or a provider's
\* revival can overfill a slot.
THEOREM OnlyMovesOverfill == Spec => BookingsFit
<1>1. LInv /\ RoomKept /\ BookedSlotsExist /\ [Next]_vars =>
        [\A s \in Slots : ~Overfull(s) /\ Overfull(s)' =>
           \E t \in Txs : tx[t].pc \in {"next", "revive"} /\ tx'[t].pc = "idle"]_vars
  <2> SUFFICES ASSUME LInv, RoomKept, BookedSlotsExist, [Next]_vars,
                      NEW s \in Slots, ~Overfull(s), Overfull(s)'
               PROVE  \E t \in Txs : tx[t].pc \in {"next", "revive"} /\ tx'[t].pc = "idle"
    OBVIOUS
  <2>1. Fits(s)
    BY FitsOrOverfull
  <2>2. ~Fits(s)'
    <3>1. slots'[s] \in Offers /\ Cardinality(Seated(s)') > slots'[s].capacity
      BY DEF Overfull, Seated, Live
    <3>2. slots'[s].capacity \in Nat
      BY <3>1, OfferTypes
    <3>3. Seated(s)' \in SUBSET Bookings /\ IsFiniteSet(Bookings)
      BY ConsultationAssumption DEF Seated
    <3>4. Cardinality(Seated(s)') \in Nat
      BY <3>3, FS_Subset, FS_CardinalityType
    <3> QED
      BY <3>1, <3>2, <3>4 DEF Fits, Live
  <2> QED
    BY <2>1, <2>2, FitStep
<1> QED
  BY <1>1, LocksSound, RoomSound, SlotsKept, PTL DEF Spec, BookingsFit

\* If plain reads saw the present rows no slot would ever hold more active
\* bookings than its capacity: the snapshots are all that can break it.
THEOREM CapacityKept ==
  ASSUME SnapshotReads = FALSE
  PROVE  Spec => []CapacityRespected
<1> DEFINE AllFit == \A s \in Slots : Fits(s)
<1>1. ASSUME Init PROVE AllFit
  BY <1>1, ConsultationAssumption DEF Init, Fits, Live
<1>2. ASSUME LInv, RoomKept, BookedSlotsExist, AllFit, [Next]_vars PROVE AllFit'
  BY <1>2, FitStep
<1>3. AllFit => CapacityRespected
  BY FitsOrOverfull DEF CapacityRespected
<1> QED
  BY <1>1, <1>2, <1>3, LocksSound, RoomSound, SlotsKept, PTL DEF Spec
-----------------------------------------------------------------------------
(* Consultation implements Agenda. *)

\* What a transaction has found out and its locks keep true.
Decided(t) ==
  LET r == tx[t] IN
  /\ r.pc \in {"seat", "insert"} => r.order \in paid
  /\ r.pc = "insert" => slots[r.slot].open /\ slots[r.slot].owner = ServiceOwner[r.order]
  /\ r.pc \in {"current", "next"} => bookings[r.booking].slot # r.slot

AllDecided == \A t \in Txs : Decided(t)

\* Only the checkout changes which orders are paid, and not an order that is
\* locked.
LEMMA PaidMoves ==
  ASSUME [Next]_vars
  PROVE  paid' = paid \/ \E o \in Orders : OrderChanges(o)
<1>1. ASSUME NEW t \in Txs, Customer(t) PROVE paid' = paid
  BY <1>1 DEF Customer, StartBook, LockOrder, TakeSeat, InsertBooking, StartChange,
              LockCurrent, Move
<1>2. ASSUME NEW t \in Txs, Provider(t) PROVE paid' = paid
  BY <1>2 DEF Provider, CloseBooking, StartRevive, Revive, StartCreateSlot, CheckNewSlot,
              InsertSlot, StartEditSlot, LockNewOwner, EditSlot
<1> QED
  BY <1>1, <1>2 DEF Next, Rollback, DeleteSlot, vars

\* What others have decided is not disturbed by a step that leaves them alone.
LEMMA OthersDecided ==
  ASSUME LInv, AllDecided, NEW t, Alone(t), NEW u \in Txs \ {t},
         \A o \in paid : lock[o] # None => o \in paid'
  PROVE  Decided(u)'
<1>1. Held(u) /\ Decided(u) /\ tx'[u] = tx[u] /\ u # None
  BY ConsultationAssumption DEF LInv, LocksHeld, AllDecided, Alone
<1>2. \A b \in Booked : lock[b] = u => bookings'[b] = bookings[b]
  BY <1>1 DEF Alone
<1>3. \A s \in Slots : Live(s) /\ lock[s] = u => slots'[s] = slots[s]
  BY <1>1 DEF Alone
<1> QED
  BY <1>1, <1>2, <1>3 DEF Held, Decided

\* Every step keeps what was decided: the rows it was read from are locked.
LEMMA DecidedStep ==
  ASSUME LInv, AllDecided, [Next]_vars
  PROVE  AllDecided'
<1> USE DEF LInv
<1>p. \A o \in paid : lock[o] # None => o \in paid'
  BY PaidMoves DEF OrderChanges
<1>s. ASSUME NEW t \in Txs, Secure(t), Decided(t)' PROVE AllDecided'
  BY <1>p, <1>s, OthersDecided DEF Secure, AllDecided
<1>r. ASSUME NEW t \in Txs, Secure(t), tx'[t].pc \notin {"seat", "insert", "current", "next"}
      PROVE  AllDecided'
  BY <1>s, <1>r DEF Decided
<1>e. ASSUME NEW t \in Txs, Secure(t), End(t) PROVE AllDecided'
  BY <1>r, <1>e, EndReleases
<1>1. ASSUME NEW t \in Txs, NEW o \in Orders, NEW s \in Slots, StartBook(t, o, s)
      PROVE  AllDecided'
  <2>1. tx'[t].pc = "order"
    BY <1>1 DEF StartBook, TypeOK, Idle
  <2> QED
    BY <1>1, <1>r, <2>1, BookSecure
<1>2. ASSUME NEW t \in Txs, LockOrder(t) PROVE AllDecided'
  <2>1. Secure(t)
    BY <1>2, BookSecure
  <2>2. CASE ~End(t)
    <3>1. /\ tx[t].order \in paid /\ paid' = paid
          /\ tx'[t].pc = "seat" /\ tx'[t].order = tx[t].order
      BY <1>2, <2>2 DEF LockOrder, TypeOK, Tx
    <3>2. Decided(t)'
      BY <3>1 DEF Decided
    <3> QED
      BY <1>s, <2>1, <3>2
  <2> QED
    BY <1>e, <2>1, <2>2
<1>3. ASSUME NEW t \in Txs, TakeSeat(t) PROVE AllDecided'
  <2>1. Secure(t)
    BY <1>3, BookSecure
  <2>2. CASE ~End(t)
    <3> DEFINE s == tx[t].slot
               o == tx[t].order
    <3>1. /\ slots[s].open /\ slots[s].owner = ServiceOwner[o] /\ o \in paid
          /\ paid' = paid /\ slots' = slots
          /\ tx'[t].pc = "insert" /\ tx'[t].order = o /\ tx'[t].slot = s
      BY <1>3, <2>2 DEF TakeSeat, Admits, AllDecided, Decided, TypeOK, Tx
    <3>2. Decided(t)'
      BY <3>1 DEF Decided
    <3> QED
      BY <1>s, <2>1, <3>2
  <2> QED
    BY <1>e, <2>1, <2>2
<1>4. ASSUME NEW t \in Txs, NEW b \in Bookings, InsertBooking(t, b) PROVE AllDecided'
  BY <1>4, <1>e, BookSecure DEF InsertBooking
<1>5. ASSUME NEW t \in Txs, NEW b \in Bookings, NEW s \in Slots \cup {None}, StartChange(t, b, s)
      PROVE  AllDecided'
  <2>1. Secure(t)
    BY <1>5, ChangeSecure
  <2>2. /\ tx'[t].pc = "current" /\ tx'[t].booking = b /\ tx'[t].slot = s
        /\ bookings[b].slot # s /\ bookings' = bookings
    BY <1>5 DEF StartChange, TypeOK, Idle
  <2>3. Decided(t)'
    BY <2>2 DEF Decided
  <2> QED
    BY <1>s, <2>1, <2>3
<1>6. ASSUME NEW t \in Txs, LockCurrent(t) PROVE AllDecided'
  <2>1. Secure(t)
    BY <1>6, ChangeSecure
  <2>2. CASE ~End(t)
    <3>1. /\ tx' = [tx EXCEPT ![t] = Fixed([@ EXCEPT !.pc = "next"])]
          /\ bookings' = bookings /\ tx[t].pc = "current"
      BY <1>6, <2>2 DEF LockCurrent
    <3>2. /\ tx'[t].pc = "next" /\ tx'[t].booking = tx[t].booking
          /\ tx'[t].slot = tx[t].slot
      BY <3>1 DEF Fixed, TypeOK, Tx
    <3>3. Decided(t)'
      BY <3>1, <3>2 DEF AllDecided, Decided
    <3> QED
      BY <1>s, <2>1, <3>3
  <2> QED
    BY <1>e, <2>1, <2>2
<1>7. ASSUME NEW t \in Txs, Move(t) PROVE AllDecided'
  BY <1>7, <1>e, ChangeSecure DEF Move
<1>8. ASSUME NEW t \in Txs, NEW b \in Bookings, NEW st \in BookingStatuses,
             NEW u \in Owners \cup {None}, CloseBooking(t, b, st, u)
      PROVE  AllDecided'
  <2>1. tx'[t].pc = "idle"
    BY <1>8 DEF CloseBooking
  <2> QED
    BY <1>8, <1>r, <2>1, ProviderSecure
<1>9. ASSUME NEW t \in Txs, NEW b \in Bookings, NEW st \in BookingStatuses,
             NEW u \in Owners \cup {None}, StartRevive(t, b, st, u)
      PROVE  AllDecided'
  <2> DEFINE r == [Idle EXCEPT !.pc = "revive", !.booking = b, !.status = st]
             q == IF u # None THEN Fixed(r) ELSE r
  <2>1. q.pc = "revive"
    BY DEF Idle, Fixed
  <2>2. tx'[t] = q
    BY <1>9 DEF StartRevive, TypeOK
  <2>3. tx'[t].pc = "revive"
    BY <2>1, <2>2
  <2> QED
    BY <1>9, <1>r, <2>3, ProviderSecure
<1>10. ASSUME NEW t \in Txs, Revive(t) PROVE AllDecided'
  BY <1>10, <1>e, ProviderSecure DEF Revive
<1>11. ASSUME NEW t \in Txs, NEW f \in Offers, StartCreateSlot(t, f) PROVE AllDecided'
  <2>1. tx'[t].pc = "create"
    BY <1>11 DEF StartCreateSlot, TypeOK, Idle
  <2> QED
    BY <1>11, <1>r, <2>1, SlotSecure
<1>12. ASSUME NEW t \in Txs, CheckNewSlot(t) PROVE AllDecided'
  <2>1. CASE ~End(t)
    <3>1. tx'[t].pc = "insertSlot"
      BY <1>12, <2>1 DEF CheckNewSlot, TypeOK, Tx
    <3> QED
      BY <1>12, <1>r, <3>1, SlotSecure
  <2> QED
    BY <1>12, <1>e, <2>1, SlotSecure
<1>13. ASSUME NEW t \in Txs, NEW s \in Slots, InsertSlot(t, s) PROVE AllDecided'
  BY <1>13, <1>e, SlotSecure DEF InsertSlot
<1>14. ASSUME NEW t \in Txs, NEW s \in Slots, NEW f \in Offers, NEW u \in Owners \cup {None},
              StartEditSlot(t, s, f, u)
       PROVE  AllDecided'
  <2>1. tx'[t].pc = "edit"
    BY <1>14 DEF StartEditSlot, TypeOK, Idle
  <2> QED
    BY <1>14, <1>r, <2>1, SlotSecure
<1>15. ASSUME NEW t \in Txs, LockNewOwner(t) PROVE AllDecided'
  <2>1. tx'[t].pc = "save"
    BY <1>15 DEF LockNewOwner, TypeOK, Tx
  <2> QED
    BY <1>15, <1>r, <2>1, SlotSecure
<1>16. ASSUME NEW t \in Txs, EditSlot(t) PROVE AllDecided'
  BY <1>16, <1>e, SlotSecure DEF EditSlot
<1>17. ASSUME NEW t \in Txs, Rollback(t) PROVE AllDecided'
  <2>1. Secure(t)
    BY <1>17, EndSecure DEF Rollback, TypeOK
  <2> QED
    BY <1>17, <1>e, <2>1 DEF Rollback
<1>18. ASSUME Alone(None) PROVE AllDecided'
  BY <1>p, <1>18, ConsultationAssumption, OthersDecided DEF AllDecided
<1>19. ASSUME NEW s \in Slots, DeleteSlot(s) PROVE AllDecided'
  BY <1>18, <1>19 DEF DeleteSlot, Alone, TypeOK
<1>20. ASSUME NEW o \in Orders, OrderChanges(o) PROVE AllDecided'
  BY <1>18, <1>20 DEF OrderChanges, Alone
<1>21. CASE UNCHANGED vars
  BY <1>18, <1>21 DEF vars, Alone
<1> QED
  BY <1>1, <1>2, <1>3, <1>4, <1>5, <1>6, <1>7, <1>8, <1>9, <1>10, <1>11, <1>12, <1>13, <1>14,
     <1>15, <1>16, <1>17, <1>19, <1>20, <1>21
  DEF Next, Customer, Provider

\* The cardinality that Agenda takes from its library is the same.
LEMMA SameCardinality ==
  ASSUME NEW S
  PROVE  Serial!Cardinality(S) = Cardinality(S)
BY DEF Serial!Cardinality, Cardinality

\* Agenda counts the same seats.
LEMMA SameCounts ==
  ASSUME LInv, NEW s \in Slots
  PROVE  Serial!Taken(s) = Seated(s)
BY DEF Serial!Taken, Serial!Made, Serial!Active, Seated, ActivePairs, Booked, Active

\* Agenda compares offers the same way.
LEMMA SameClashes ==
  ASSUME NEW f \in Offers, NEW except, SlotsAgree(f, except)
  PROVE  Serial!Agrees(f, except)
BY DEF Serial!Agrees, Serial!Live, SlotsAgree, Live

\* The operations that write one booking are Agenda's.
LEMMA ChangeSerial ==
  ASSUME LInv, AllDecided, NEW t \in Txs, Changes(t), paid' = paid
  PROVE  Serial!Next \/ bookings' = bookings
<1> USE DEF LInv
<1> DEFINE Goal == Serial!Next \/ bookings' = bookings
<1>c. ASSUME NEW b \in Booked, NEW st \in Closed \cup {"no_show"}, slots' = slots,
             bookings' = [bookings EXCEPT ![b].status = st]
      PROVE  Goal
  <2>1. Serial!Close(b, st)
    BY <1>c DEF Serial!Close, Serial!Made, Booked
  <2> QED
    BY <2>1 DEF Serial!Next, Serial!Closed, Closed, Booked
<1>a. ASSUME NEW s \in Slots, NEW except, Admits(t, s, except)
      PROVE  /\ Serial!Open(s)
             /\ ~SnapshotReads => Serial!HasSeat(s, except)
  <2>1. ASSUME ~SnapshotReads PROVE ActiveSeen(t, s) = Seated(s)
    BY <2>1 DEF ActiveSeen, View, Seated
  <2> QED
    BY <1>a, <2>1, SameCounts, SameCardinality
    DEF Admits, Live, Serial!Open, Serial!Live, Serial!HasSeat
<1>1. CASE LockCurrent(t)
  <2>1. /\ tx[t].booking \in Booked /\ slots' = slots
        /\ bookings' \in {bookings, [bookings EXCEPT ![tx[t].booking].status = "cancelled"]}
    BY <1>1 DEF LockCurrent, LocksHeld, Held
  <2> QED
    BY <1>c, <2>1 DEF Closed
<1>2. CASE Move(t)
  <2> DEFINE b == tx[t].booking
             s == tx[t].slot
  <2>1. /\ b \in Booked /\ s \in Slots /\ bookings[b].moves < Limit
        /\ bookings[b].status \notin Closed /\ bookings[b].slot # s
    BY <1>2 DEF Move, LocksHeld, Held, AllDecided, Decided
  <2>2. ASSUME bookings' # bookings PROVE Serial!MoveTo(b, s)
    <3>1. /\ Admits(t, s, {})
          /\ slots[s].owner = slots[bookings[b].slot].owner
          /\ bookings' = [bookings EXCEPT ![b].slot = s, ![b].status = "confirmed",
                                          ![b].moves = @ + 1]
          /\ slots' = slots
      BY <1>2, <2>2 DEF Move
    <3>2. Serial!Open(s) /\ (~SnapshotReads => Serial!HasSeat(s, {}))
      BY <1>a, <2>1, <3>1
    <3> QED
      BY <2>1, <3>1, <3>2 DEF Serial!MoveTo, Serial!Made, Serial!Closed, Booked, Closed
  <2> QED
    BY <2>1, <2>2 DEF Serial!Next, Booked
<1>3. CASE Revive(t)
  <2> DEFINE b == tx[t].booking
             s == bookings[b].slot
  <2>1. b \in Booked /\ s \in Slots /\ tx[t].status \in Active
    BY <1>3, BookingTypes DEF Revive, LocksHeld, Held
  <2>2. ASSUME bookings' # bookings PROVE Serial!Revive(b, tx[t].status)
    <3>1. /\ Admits(t, s, {b}) /\ slots' = slots
          /\ bookings' = [bookings EXCEPT ![b].status = tx[t].status]
      BY <1>3, <2>2 DEF Revive
    <3>2. Serial!Open(s) /\ (~SnapshotReads => Serial!HasSeat(s, {b}))
      BY <1>a, <2>1, <3>1
    <3> QED
      BY <2>1, <3>1, <3>2 DEF Serial!Revive, Serial!Made, Booked
  <2> QED
    BY <2>1, <2>2 DEF Serial!Next, Serial!Active, Active, Booked
<1>4. ASSUME NEW b \in Bookings, NEW st \in BookingStatuses, NEW u, CloseBooking(t, b, st, u)
      PROVE  Goal
  <2>1. /\ b \in Booked /\ st \in Closed \cup {"no_show"} /\ slots' = slots
        /\ bookings' = [bookings EXCEPT ![b].status = st]
    BY <1>4 DEF CloseBooking, BookingStatuses
  <2> QED
    BY <1>c, <2>1
<1> QED
  BY <1>1, <1>2, <1>3, <1>4 DEF Changes

\* Every step is one of Agenda's or changes no row.
LEMMA AgendaStep ==
  ASSUME LInv, NoHistory, NoClash, RoomKept, AllDecided, [Next]_vars
  PROVE  [Serial!Next]_(Serial!vars)
<1> USE DEF LInv
<1> DEFINE Goal == [Serial!Next]_(Serial!vars)
<1>s. ASSUME UNCHANGED <<slots, bookings, paid>> PROVE Goal
  BY <1>s DEF Serial!vars
<1>o. ASSUME NEW o \in Orders, OrderChanges(o) PROVE Goal
  <2>1. Serial!OrderChanges(o)
    BY <1>o DEF OrderChanges, Serial!OrderChanges
  <2> QED
    BY <2>1 DEF Serial!Next
<1>1. CASE Quiet
  BY <1>s, <1>o, <1>1, PaidMoves DEF Quiet
<1>2. ASSUME NEW t \in Txs, TakeSeat(t) \/ CheckNewSlot(t) PROVE Goal
  BY <1>s, <1>2 DEF TakeSeat, CheckNewSlot
<1>3. ASSUME NEW t \in Txs, Changes(t) PROVE Goal
  <2>1. slots' = slots
    BY <1>3, ChangeWrites
  <2>2. paid' = paid
    BY <1>3 DEF Changes, LockCurrent, Move, Revive, CloseBooking
  <2> QED
    BY <1>s, <1>3, <2>1, <2>2, ChangeSerial
<1>4. ASSUME NEW t \in Txs, EditSlot(t) PROVE Goal
  <2> DEFINE s == tx[t].slot
             f == tx[t].offer
  <2>1. s \in Slots /\ f \in Offers /\ Live(s) /\ ~tx[t].fixed
    BY <1>4 DEF EditSlot, LocksHeld, Held
  <2>2. ASSUME slots' # slots PROVE Serial!ChangeSlot(s, f)
    <3>1. /\ SlotsAgree(f, {s}) /\ Cardinality(ActiveSeen(t, s)) <= f.capacity
          /\ slots' = [slots EXCEPT ![s] = f]
          /\ UNCHANGED <<bookings, paid>>
      BY <1>4, <2>2 DEF EditSlot
    <3>2. Serial!Cardinality(Serial!Taken(s)) <= f.capacity
      BY <2>1, <3>1, FreshView, SameCounts, SameCardinality
    <3> QED
      BY <2>1, <3>1, <3>2, SameClashes DEF Serial!ChangeSlot, Serial!Live, Live
  <2> QED
    BY <1>s, <1>4, <2>1, <2>2 DEF EditSlot, Serial!Next
<1>5. ASSUME NEW t \in Txs, NEW b \in Bookings, InsertBooking(t, b) PROVE Goal
  <2> DEFINE o == tx[t].order
             s == tx[t].slot
  <2>1. /\ o \in Orders /\ s \in Slots /\ Live(s) /\ o \in paid
        /\ slots[s].open /\ slots[s].owner = ServiceOwner[o]
    BY <1>5 DEF InsertBooking, LocksHeld, Held, AllDecided, Decided
  <2>2. ~HasHistory(o) /\ Cardinality(Seated(s)) < slots[s].capacity
    BY <1>5 DEF InsertBooking, NoHistory, RoomKept
  <2>3. Serial!Open(s) /\ Serial!HasSeat(s, {})
    <3>1. Serial!Taken(s) \ {} = Seated(s)
      BY <2>1, SameCounts
    <3> QED
      BY <2>1, <2>2, <3>1, SameCardinality
      DEF Live, Serial!Open, Serial!Live, Serial!HasSeat
  <2>4. Serial!Book(b, o, s)
    BY <1>5, <2>1, <2>2, <2>3
    DEF InsertBooking, HasHistory, Booked, Serial!Book, Serial!Made
  <2> QED
    BY <2>1, <2>4 DEF Serial!Next
<1>6. ASSUME NEW t \in Txs, NEW s \in Slots, InsertSlot(t, s) PROVE Goal
  <2> DEFINE f == tx[t].offer
  <2>1. f \in Offers /\ SlotsAgree(f, {})
    BY <1>6 DEF InsertSlot, LocksHeld, Held, NoClash
  <2>2. Serial!AddSlot(s, f)
    BY <1>6, <2>1, SameClashes DEF InsertSlot, Serial!AddSlot
  <2> QED
    BY <2>1, <2>2 DEF Serial!Next
<1>7. ASSUME NEW s \in Slots, DeleteSlot(s) PROVE Goal
  <2>1. Serial!RemoveSlot(s)
    BY <1>7 DEF DeleteSlot, Live, Booked, Serial!RemoveSlot, Serial!Live, Serial!Made
  <2> QED
    BY <2>1 DEF Serial!Next
<1> QED
  BY <1>1, <1>2, <1>3, <1>4, <1>5, <1>6, <1>7, StepKinds

\* Whatever transactions run side by side and however they end, what they write
\* is what Agenda's operations allow, one after the other.
THEOREM OneAfterTheOther == Spec => ImplementsAgenda
<1> DEFINE AInv == AllDecided /\ NoHistory /\ OneBookingPerOrder /\ SlotsApart /\ NoClash
                   /\ RoomKept
<1>1. ASSUME Init PROVE AInv /\ Serial!Init
  BY <1>1, ConsultationAssumption
  DEF Init, Idle, AllDecided, Decided, NoHistory, OneBookingPerOrder, Booked, SlotsApart,
      NoClash, Live, RoomKept, Serial!Init
<1>2. ASSUME LInv, AInv, [Next]_vars PROVE AInv'
  BY <1>2, DecidedStep, OneBookingStep, ApartStep, RoomStep
<1>3. ASSUME LInv, AInv, [Next]_vars PROVE [Serial!Next]_(Serial!vars)
  BY <1>3, AgendaStep
<1> QED
  BY <1>1, <1>2, <1>3, LocksSound, PTL DEF Spec, ImplementsAgenda, Serial!Spec
=============================================================================
