----------------------------- MODULE MCCheckout -----------------------------
(* Small instances of Checkout: a priced course, a free course, a product, *)
(* a coupon that halves any price and one that makes a course free.        *)
(* A behaviour of the larger instance is about the payment of one order,   *)
(* with two handlers at a time, or about two orders with one coupon, bought*)
(* and paid for, and the admin who edits it.                               *)
EXTENDS Checkout, TLC

CONSTANTS ana, budi, go101, intro, book, half, gift

VARIABLE focus

MCPrice == [i \in Items |-> IF i \in FreeCourses THEN 0 ELSE 10]
MCDiscount == [c \in Coupons |->
  IF c = half THEN [kind |-> "percent", value |-> 50, scope |-> "all", max |-> 1]
              ELSE [kind |-> "fixed", value |-> 20, scope |-> "course", max |-> 0]]

For(u, i, c) == [user |-> u, item |-> i, coupon |-> c]
SaleBaskets == {For(ana, go101, None), For(ana, go101, half)}
ShopBaskets == {For(ana, intro, None), For(ana, book, half), For(ana, go101, gift),
                For(ana, book, gift), For(budi, go101, None)}

Placed == {o \in Orders : orders[o].status # "absent"}
Busy == {r \in Requests : req[r] # Idle}

SaleInit == Init /\ focus \in {"payment", "coupon"}
SaleNext ==
  /\ UNCHANGED focus
  /\ Next
  /\ focus = "payment" => Cardinality(Placed') <= 1 /\ ~touched' /\ budget' + 1 >= Budget
  /\ focus = "coupon" =>
       /\ Cardinality(Busy') <= 1
       /\ \A r \in Requests : /\ req'[r].basket # For(ana, go101, None)
                              /\ req'[r].pc \notin {"cancelling", "syncing"}
       /\ \A o \in Orders : reported'[o] \subseteq {"capture", "cancel"}
SaleSpec == SaleInit /\ [][SaleNext]_<<vars, focus>>

MCSymmetry == Permutations(Requests) \cup Permutations(Orders)
=============================================================================
