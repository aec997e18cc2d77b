--------------------------- MODULE CheckoutProofs ---------------------------
(***************************************************************************)
(* Theorems of Checkout, for every catalogue, number of orders, of         *)
(* requests and of administrators.                                         *)
(***************************************************************************)
EXTENDS Checkout, TLAPS, FiniteSetTheorems

(* What the handlers rely on between their steps. *)

\* An order is never for a free course, and its buyer and item are known.
RowsFilled ==
  \A o \in Orders : orders[o].status # "absent" =>
    /\ orders[o].user \in Users
    /\ orders[o].item \in Items \ FreeCourses

\* What a handler holds is still there when it comes to use it.
BuyingSteps == {"priced", "looked"}
FreeSteps == {"enrolling", "rewarding"}
OrderSteps == {"cancelling", "paying", "expiring", "tokening", "saving",
               "syncing", "answered"}
RequestsSound ==
  \A r \in Requests :
    /\ req[r].pc \in BuyingSteps =>
         req[r].basket \in Baskets /\ req[r].basket.item \notin FreeCourses
    /\ req[r].pc \in FreeSteps =>
         req[r].basket \in Baskets /\ req[r].basket.item \in FreeCourses
    /\ req[r].pc \in OrderSteps =>
         req[r].order \in Orders /\ orders[req[r].order].status # "absent"
    /\ req[r].pc = "answered" => req[r].answer \in reported[req[r].order]

\* The gateway can repeat what it now answers.
GatewayReports ==
  \A o \in Orders : gw[o] \in GatewayStatuses => gw[o] \in reported[o]

HInv == TypeOK /\ RowsFilled /\ RequestsSound /\ GatewayReports

-----------------------------------------------------------------------------
(* Lemmas about the helpers. *)

\* A new order is either to be paid or successful at once.
LEMMA InitialStatusType ==
  ASSUME NEW b PROVE InitialStatus(b) \in {"success", "pending"}
BY DEF InitialStatus

\* Both readings of the gateway's answer give a status of the orders table.
LEMMA MapTypes ==
  ASSUME NEW g
  PROVE  /\ MapMidtransStatus(g) \in Statuses
         /\ MapQueriedStatus(g) \in Statuses
         /\ MapMidtransStatus(g) # "absent" /\ MapQueriedStatus(g) # "absent"
         /\ MapQueriedStatus(g) = "success" => MapMidtransStatus(g) = "success"
BY DEF MapMidtransStatus, MapQueriedStatus, Statuses

\* A basket names a user, an item of the catalogue and at most one coupon.
LEMMA BasketTypes ==
  ASSUME NEW b \in Baskets
  PROVE  /\ b.user \in Users /\ b.item \in Items
         /\ b.coupon \in Coupons \cup {None}
         /\ b.item \notin FreeCourses => NewRow(b) \in OrderRow
         /\ NewRow(b).user = b.user /\ NewRow(b).item = b.item
         /\ NewRow(b).status # "absent"
         /\ NewRow(b).status = InitialStatus(b)
         /\ NewRow(b).coupon = b.coupon
<1>1. b \in Basket
  BY CatalogueAssumption
<1>2. InitialStatus(b) \in {"success", "pending"}
  BY InitialStatusType
<1> QED
  BY <1>1, <1>2 DEF Basket, NewRow, OrderRow, Statuses

\* The sweep changes nothing but the status of some pending orders.
LEMMA SweptRows ==
  ASSUME TypeOK
  PROVE  /\ Swept \in [Orders -> OrderRow]
         /\ \A o \in Orders : /\ Swept[o].user = orders[o].user
                              /\ Swept[o].item = orders[o].item
                              /\ Swept[o].coupon = orders[o].coupon
                              /\ Swept[o].status # orders[o].status =>
                                   /\ Swept[o].status = "cancelled"
                                   /\ orders[o].status # "absent"
BY DEF TypeOK, Swept, Expired, OrderRow, Statuses

\* Fulfilling an order for a known buyer keeps the tables well typed.
LEMMA FulfillTypes ==
  ASSUME TypeOK, NEW o \in Orders, NEW row \in OrderRow,
         row.user \in Users, FulfillSuccessfulOrder(o, row), EnsureInvoice(o)
  PROVE  /\ usages' \subseteq Orders
         /\ couponRow' \in [Coupons -> CouponRow]
         /\ enrolled' \subseteq Users \X Courses
         /\ xp' \subseteq Users \X Courses
         /\ invoices' \subseteq Orders
<1>1. couponRow' \in [Coupons -> CouponRow]
  <2>1. CountUse(o, row) \in [Coupons -> CouponRow]
    <3>1. CASE row.coupon # None /\ o \notin usages /\ couponRow[row.coupon].state = "live"
      <4>1. row.coupon \in Coupons
        BY <3>1 DEF OrderRow
      <4>2. couponRow[row.coupon].used + 1 \in Nat
        BY <4>1 DEF TypeOK, CouponRow
      <4> QED
        BY <3>1, <4>1, <4>2 DEF TypeOK, CouponRow, CountUse
    <3>2. CASE ~(row.coupon # None /\ o \notin usages /\ couponRow[row.coupon].state = "live")
      BY <3>2 DEF TypeOK, CountUse
    <3> QED
      BY <3>1, <3>2
  <2> QED
    BY <2>1 DEF FulfillSuccessfulOrder
<1> QED
  BY <1>1 DEF TypeOK, FulfillSuccessfulOrder, EnsureInvoice

\* The two ways to save a coupon are one.
LEMMA SaveCoupons ==
  ASSUME NEW c, NEW n \in 0 .. Cardinality(Orders)
  PROVE  /\ n \in Nat
         /\ CreateCoupon(c, n) => SaveCoupon(c, "absent", n)
         /\ UpdateCoupon(c, n) => SaveCoupon(c, "live", n)
BY DEF CreateCoupon, UpdateCoupon

\* The records a handler keeps.
LEMMA RequestTypes ==
  /\ Idle \in Request /\ Idle.pc = "idle"
  /\ \A pc \in RequestSteps, b \in Baskets :
       /\ WithBasket(pc, b) \in Request
       /\ WithBasket(pc, b).pc = pc /\ WithBasket(pc, b).basket = b
  /\ \A pc \in RequestSteps, o \in Orders :
       /\ WithOrder(pc, o) \in Request
       /\ WithOrder(pc, o).pc = pc /\ WithOrder(pc, o).order = o
BY DEF Idle, Request, RequestSteps, WithBasket, WithOrder

\* The records a reconciliation keeps.
LEMMA ReconcileTypes ==
  /\ NoRows \in [Coupons -> Nat]
  /\ \A pc \in {"idle", "delete", "zero", "count", "write"} :
       AtStep(pc) \in Reconcile /\ AtStep(pc).pc = pc /\ AtStep(pc).rows = NoRows
  /\ Boot \in Reconcilers /\ Admins \subseteq Reconcilers
BY DEF AtStep, Reconcile, NoRows, Reconcilers

\* An update of one field of one order.
LEMMA OrderUpdates ==
  ASSUME TypeOK, NEW o \in Orders
  PROVE  /\ \A s \in Statuses :
              [orders EXCEPT ![o].status = s] \in [Orders -> OrderRow]
         /\ \A e \in {"null", "open", "past"} :
              [orders EXCEPT ![o].expires = e] \in [Orders -> OrderRow]
<1>1. orders[o] \in OrderRow
  BY DEF TypeOK
<1>2. ASSUME NEW row \in OrderRow PROVE [orders EXCEPT ![o] = row] \in [Orders -> OrderRow]
  BY <1>2 DEF TypeOK
<1>3. ASSUME NEW s \in Statuses PROVE [orders[o] EXCEPT !.status = s] \in OrderRow
  BY <1>1, <1>3 DEF OrderRow
<1>4. ASSUME NEW e \in {"null", "open", "past"}
      PROVE  [orders[o] EXCEPT !.expires = e] \in OrderRow
  BY <1>1, <1>4 DEF OrderRow
<1> QED
  BY <1>2, <1>3, <1>4

\* The count of a coupon's paid uses is a natural number.
LEMMA UsesCounted ==
  ASSUME TypeOK, NEW c \in Coupons PROVE Cardinality(PaidUsesOf(c)) \in Nat
BY ActorAssumption, FS_Subset, FS_CardinalityType DEF TypeOK, PaidUsesOf, UsedBy

\* Applying a status to an order that exists, well typed.
LEMMA ApplyTypes ==
  ASSUME HInv, NEW o \in Orders, orders[o].status # "absent",
         NEW s \in Statuses, ApplyStatus(o, s)
  PROVE  /\ orders' \in [Orders -> OrderRow]
         /\ trx' \in [Orders -> Statuses \cup {None}]
         /\ usages' \subseteq Orders
         /\ couponRow' \in [Coupons -> CouponRow]
         /\ enrolled' \subseteq Users \X Courses
         /\ xp' \subseteq Users \X Courses
         /\ invoices' \subseteq Orders
<1>1. orders' \in [Orders -> OrderRow]
  BY OrderUpdates DEF ApplyStatus, HInv
<1>2. trx' \in [Orders -> Statuses \cup {None}]
  BY DEF ApplyStatus, HInv, TypeOK
<1>3. CASE s = "success"
  <2>1. orders[o] \in OrderRow /\ orders[o].user \in Users
    BY DEF HInv, TypeOK, RowsFilled
  <2> QED
    BY <1>1, <1>2, <1>3, <2>1, FulfillTypes DEF ApplyStatus, HInv
<1>4. CASE s # "success"
  BY <1>1, <1>2, <1>4 DEF ApplyStatus, HInv, TypeOK, grants
<1> QED
  BY <1>3, <1>4

-----------------------------------------------------------------------------
(* The tables keep their types. *)

\* Every step keeps every table's type, given what the handlers rely on.
LEMMA TypeStep ==
  ASSUME HInv, [Next]_vars
  PROVE  TypeOK'
<1>1. ASSUME NEW r \in Requests, NEW b \in Baskets, StartPurchase(r, b) PROVE TypeOK'
  BY <1>1, RequestTypes, SweptRows DEF StartPurchase, NextStep, RequestSteps, HInv, TypeOK, grants, gateway, process
<1>2. ASSUME NEW r \in Requests, PendingOrderForItem(r) PROVE TypeOK'
  BY <1>2, RequestTypes DEF PendingOrderForItem, RequestSteps, RequestsSound, BuyingSteps, HInv, TypeOK, grants, gateway, process
<1>3. ASSUME NEW r \in Requests, NEW o \in Orders, CreateOrder(r, o) PROVE TypeOK'
  <2> DEFINE b == req[r].basket
  <2>1. b \in Baskets /\ b.item \notin FreeCourses
    BY <1>3 DEF CreateOrder, HInv, RequestsSound, BuyingSteps
  <2>2. NewRow(b) \in OrderRow /\ NewRow(b).user \in Users
    BY <2>1, BasketTypes
  <2>3. /\ usages' \subseteq Orders
        /\ couponRow' \in [Coupons -> CouponRow]
        /\ enrolled' \subseteq Users \X Courses
        /\ xp' \subseteq Users \X Courses
        /\ invoices' \subseteq Orders
    BY <1>3, <2>2, FulfillTypes DEF CreateOrder, HInv, TypeOK, grants
  <2> QED
    BY <1>3, <2>2, <2>3, RequestTypes DEF CreateOrder, HInv, TypeOK, grants, gateway, process
<1>4. ASSUME NEW r \in Requests, EnrollFree(r) PROVE TypeOK'
  <2>1. /\ req[r].basket \in Baskets /\ req[r].basket.item \in Courses
        /\ req[r].basket.user \in Users
    BY <1>4, BasketTypes, CatalogueAssumption DEF EnrollFree, HInv, RequestsSound, FreeSteps
  <2> QED
    BY <1>4, <2>1, RequestTypes DEF EnrollFree, RequestSteps, HInv, TypeOK, grants, gateway, process
<1>5. ASSUME NEW r \in Requests, AwardFreeXP(r) PROVE TypeOK'
  <2>1. /\ req[r].basket \in Baskets /\ req[r].basket.item \in Courses
        /\ req[r].basket.user \in Users
    BY <1>5, BasketTypes, CatalogueAssumption DEF AwardFreeXP, HInv, RequestsSound, FreeSteps
  <2> QED
    BY <1>5, <2>1, RequestTypes DEF AwardFreeXP, HInv, TypeOK, grants, gateway, process
<1>6. ASSUME NEW r \in Requests, NEW o \in Orders, StartCancel(r, o) PROVE TypeOK'
  BY <1>6, RequestTypes DEF StartCancel, RequestSteps, HInv, TypeOK, grants, gateway, process
<1>7. ASSUME NEW r \in Requests, CancelWrite(r) PROVE TypeOK'
  BY <1>7, RequestTypes, OrderUpdates DEF CancelWrite, RequestsSound, OrderSteps, Statuses, HInv, TypeOK, grants, gateway, process
<1>8. ASSUME NEW r \in Requests, NEW o \in Orders, StartPay(r, o) PROVE TypeOK'
  BY <1>8, RequestTypes, SweptRows DEF StartPay, RequestSteps, HInv, TypeOK, grants, gateway, process
<1>9. ASSUME NEW r \in Requests, PayRead(r) PROVE TypeOK'
  <2>1. req[r].order \in Orders
    BY <1>9 DEF PayRead, HInv, RequestsSound, OrderSteps
  <2>2. req' \in [Requests -> Request]
    BY <1>9, <2>1, RequestTypes DEF PayRead, RequestSteps, HInv, TypeOK, OrderRow
  <2> QED
    BY <1>9, <2>2 DEF PayRead, HInv, TypeOK, grants, gateway, process
<1>10. ASSUME NEW r \in Requests, PayExpire(r) PROVE TypeOK'
  BY <1>10, RequestTypes, OrderUpdates DEF PayExpire, RequestsSound, OrderSteps, Statuses, HInv, TypeOK, grants, gateway, process
<1>11. ASSUME NEW r \in Requests, CreateSnapToken(r) PROVE TypeOK'
  <2>1. [req EXCEPT ![r].pc = "saving"] \in [Requests -> Request]
    BY DEF HInv, TypeOK, Request, RequestSteps
  <2> QED
    BY <1>11, <2>1 DEF CreateSnapToken, GatewayStatuses, HInv, TypeOK, grants, gateway, process
<1>12. ASSUME NEW r \in Requests, SaveToken(r) PROVE TypeOK'
  BY <1>12, RequestTypes, OrderUpdates DEF SaveToken, RequestsSound, OrderSteps, Statuses, HInv, TypeOK, grants, gateway, process
<1>13. ASSUME NEW r \in Requests, NEW o \in Orders, StartSync(r, o) PROVE TypeOK'
  BY <1>13, RequestTypes DEF StartSync, RequestSteps, HInv, TypeOK, grants, gateway, process
<1>14. ASSUME NEW r \in Requests, AskGateway(r) PROVE TypeOK'
  <2>1. req[r].order \in Orders
    BY <1>14 DEF AskGateway, HInv, RequestsSound, OrderSteps
  <2>2. ASSUME NEW g \in GatewayStatuses
        PROVE  [WithOrder("answered", req[r].order) EXCEPT !.answer = g] \in Request
    BY <2>1, RequestTypes DEF Request, RequestSteps
  <2> QED
    BY <1>14, <2>1, <2>2, RequestTypes DEF AskGateway, HInv, TypeOK, grants, gateway, process
<1>15. ASSUME NEW r \in Requests, SyncApply(r) PROVE TypeOK'
  <2>1. /\ req[r].order \in Orders /\ orders[req[r].order].status # "absent"
    BY <1>15 DEF SyncApply, HInv, RequestsSound, OrderSteps
  <2> QED
    BY <1>15, <2>1, ApplyTypes, MapTypes, RequestTypes DEF SyncApply, HInv, TypeOK, grants, gateway, process
<1>16. ASSUME NEW r \in Requests, GiveUp(r) PROVE TypeOK'
  BY <1>16, RequestTypes DEF GiveUp, HInv, TypeOK, grants, gateway, process
<1>17. ASSUME NEW o \in Orders, NEW g \in GatewayStatuses, HandleMidtransWebhook(o, g) PROVE TypeOK'
  BY <1>17, ApplyTypes, MapTypes DEF HandleMidtransWebhook, HInv, TypeOK, grants, gateway, process
<1>18. ASSUME CancelExpiredPendingOrders PROVE TypeOK'
  BY <1>18, SweptRows DEF CancelExpiredPendingOrders, HInv, TypeOK, grants, gateway, process
<1>19. ASSUME NEW p \in Reconcilers, DeleteUnpaidUsages(p) PROVE TypeOK'
  BY <1>19, ReconcileTypes DEF DeleteUnpaidUsages, CouponRow, HInv, TypeOK, grants, gateway, process
<1>20. ASSUME NEW p \in Reconcilers, ZeroCounts(p) PROVE TypeOK'
  BY <1>20, ReconcileTypes DEF ZeroCounts, CouponRow, HInv, TypeOK, grants, gateway, process
<1>21. ASSUME NEW p \in Reconcilers, CountUsages(p) PROVE TypeOK'
  <2>1. [pc |-> "write", rows |-> [c \in Coupons |-> Cardinality(PaidUsesOf(c))]]
          \in Reconcile
    BY UsesCounted DEF HInv, Reconcile
  <2> QED
    BY <1>21, <2>1 DEF CountUsages, HInv, TypeOK, grants, gateway, process
<1>22. ASSUME NEW p \in Reconcilers, NEW c \in Coupons, WriteCount(p, c) PROVE TypeOK'
  <2>1. [rec EXCEPT ![p].rows[c] = 0] \in [Reconcilers -> Reconcile]
    BY DEF HInv, TypeOK, Reconcile
  <2>2. rec[p].rows[c] \in Nat
    BY DEF HInv, TypeOK, Reconcile
  <2>3. [couponRow EXCEPT ![c].used = rec[p].rows[c]] \in [Coupons -> CouponRow]
    BY <2>2 DEF HInv, TypeOK, CouponRow
  <2> QED
    BY <1>22, <2>1, <2>3 DEF WriteCount, HInv, TypeOK, grants, gateway, process
<1>23. ASSUME NEW p \in Reconcilers, ReconcileDone(p) PROVE TypeOK'
  BY <1>23, ReconcileTypes DEF ReconcileDone, HInv, TypeOK, grants, gateway, process
<1>24. ASSUME NEW a \in Admins, ListCoupons(a) PROVE TypeOK'
  BY <1>24, ReconcileTypes, ActorAssumption DEF ListCoupons, HInv, TypeOK, grants, gateway, process
<1>25. ASSUME NEW a \in Admins, AbandonReconcile(a) PROVE TypeOK'
  BY <1>25, ReconcileTypes DEF AbandonReconcile, HInv, TypeOK, grants, gateway, process
<1>26. ASSUME NEW c \in Coupons, NEW from, NEW n \in Nat, SaveCoupon(c, from, n) PROVE TypeOK'
  BY <1>26, ActorAssumption DEF SaveCoupon, CouponRow, HInv, TypeOK, grants, gateway, process
<1>27. ASSUME NEW c \in Coupons, DeleteCoupon(c) PROVE TypeOK'
  BY <1>27, ActorAssumption DEF DeleteCoupon, CouponRow, HInv, TypeOK, grants, gateway, process
<1>28. ASSUME NEW o \in Orders, WindowPasses(o) PROVE TypeOK'
  BY <1>28, OrderUpdates DEF WindowPasses, HInv, TypeOK, grants, gateway, process
<1>29. ASSUME NEW o \in Orders, NEW g \in GatewayStatuses, PaymentMoves(o, g) PROVE TypeOK'
  BY <1>29, RequestTypes DEF PaymentMoves, HInv, TypeOK, grants, gateway, process
<1>30. ASSUME Crash PROVE TypeOK'
  <2>1. /\ req' \in [Requests -> Request]
        /\ rec' \in [Reconcilers -> Reconcile]
    BY <1>30, RequestTypes, ReconcileTypes DEF Crash
  <2>2. budget' \in 0 .. Budget
    BY <1>30, ActorAssumption DEF Crash, HInv, TypeOK
  <2> QED
    BY <1>30, <2>1, <2>2 DEF Crash, HInv, TypeOK, grants, gateway, process
<1>31. CASE UNCHANGED vars
  BY <1>31 DEF HInv, TypeOK, vars, grants, gateway, process
<1>32. ASSUME NEW o \in Orders, GetOrderInvoice(o) PROVE TypeOK'
  BY <1>32 DEF GetOrderInvoice, EnsureInvoice, HInv, TypeOK, gateway, process
<1> QED
  BY <1>1, <1>2, <1>3, <1>4, <1>5, <1>6, <1>7, <1>8, <1>9, <1>10, <1>11, <1>12, <1>13, <1>14, <1>15, <1>16, <1>17, <1>18, <1>19, <1>20, <1>21, <1>22, <1>23, <1>24, <1>25, <1>26, <1>27, <1>28, <1>29, <1>30, <1>31, <1>32, SaveCoupons
  DEF Next, Purchase, Cancel, Pay, Sync, ReconcileStep, AdminPage, Environment

-----------------------------------------------------------------------------
(* What no step does to an order. *)

\* The row is left absent, or keeps its buyer, item and coupon.
Kept(o) ==
  /\ orders[o].status = "absent" <=> orders'[o].status = "absent"
  /\ orders'[o].user = orders[o].user
  /\ orders'[o].item = orders[o].item
  /\ orders'[o].coupon = orders[o].coupon

\* The row is inserted for a basket that is not free of charge.
Placed(o) ==
  \E b \in Baskets : /\ b.item \notin FreeCourses
                     /\ orders[o].status = "absent"
                     /\ orders'[o] = NewRow(b)

\* Every step inserts an order or keeps what it is for, and the gateway
\* forgets nothing it has reported.
LEMMA OrdersPersist ==
  ASSUME HInv, [Next]_vars
  PROVE  \A o \in Orders : (Kept(o) \/ Placed(o)) /\ reported[o] \subseteq reported'[o]
<1> DEFINE Persistent ==
      \A x \in Orders : (Kept(x) \/ Placed(x)) /\ reported[x] \subseteq reported'[x]
<1>1. ASSUME NEW r \in Requests, NEW b \in Baskets, StartPurchase(r, b) PROVE Persistent
  BY <1>1, SweptRows DEF StartPurchase, Kept, HInv, gateway
<1>2. ASSUME NEW r \in Requests, PendingOrderForItem(r) PROVE Persistent
  BY <1>2 DEF PendingOrderForItem, Kept, gateway
<1>3. ASSUME NEW r \in Requests, NEW o \in Orders, CreateOrder(r, o) PROVE Persistent
  <2>1. req[r].basket \in Baskets /\ req[r].basket.item \notin FreeCourses
    BY <1>3 DEF CreateOrder, HInv, RequestsSound, BuyingSteps
  <2> QED
    BY <1>3, <2>1 DEF CreateOrder, Kept, Placed, HInv, TypeOK, gateway
<1>4. ASSUME NEW r \in Requests, EnrollFree(r) PROVE Persistent
  BY <1>4 DEF EnrollFree, Kept, gateway
<1>5. ASSUME NEW r \in Requests, AwardFreeXP(r) PROVE Persistent
  BY <1>5 DEF AwardFreeXP, Kept, gateway
<1>6. ASSUME NEW r \in Requests, NEW o \in Orders, StartCancel(r, o) PROVE Persistent
  BY <1>6 DEF StartCancel, Kept, gateway
<1>7. ASSUME NEW r \in Requests, CancelWrite(r) PROVE Persistent
  BY <1>7 DEF CancelWrite, Kept, HInv, TypeOK, OrderRow, RequestsSound, OrderSteps, gateway
<1>8. ASSUME NEW r \in Requests, NEW o \in Orders, StartPay(r, o) PROVE Persistent
  BY <1>8, SweptRows DEF StartPay, Kept, HInv, gateway
<1>9. ASSUME NEW r \in Requests, PayRead(r) PROVE Persistent
  BY <1>9 DEF PayRead, Kept, gateway
<1>10. ASSUME NEW r \in Requests, PayExpire(r) PROVE Persistent
  BY <1>10 DEF PayExpire, Kept, HInv, TypeOK, OrderRow, RequestsSound, OrderSteps, gateway
<1>11. ASSUME NEW r \in Requests, CreateSnapToken(r) PROVE Persistent
  BY <1>11 DEF CreateSnapToken, Kept, gateway
<1>12. ASSUME NEW r \in Requests, SaveToken(r) PROVE Persistent
  BY <1>12 DEF SaveToken, Kept, HInv, TypeOK, OrderRow, RequestsSound, OrderSteps, gateway
<1>13. ASSUME NEW r \in Requests, NEW o \in Orders, StartSync(r, o) PROVE Persistent
  BY <1>13 DEF StartSync, Kept, gateway
<1>14. ASSUME NEW r \in Requests, AskGateway(r) PROVE Persistent
  BY <1>14 DEF AskGateway, Kept, gateway
<1>15. ASSUME NEW r \in Requests, SyncApply(r) PROVE Persistent
  BY <1>15, MapTypes DEF SyncApply, ApplyStatus, Kept, HInv, TypeOK, OrderRow, RequestsSound, OrderSteps, gateway
<1>16. ASSUME NEW r \in Requests, GiveUp(r) PROVE Persistent
  BY <1>16 DEF GiveUp, Kept, gateway
<1>17. ASSUME NEW o \in Orders, NEW g \in GatewayStatuses, HandleMidtransWebhook(o, g) PROVE Persistent
  BY <1>17, MapTypes DEF HandleMidtransWebhook, ApplyStatus, Kept, HInv, TypeOK, OrderRow, gateway
<1>18. ASSUME CancelExpiredPendingOrders PROVE Persistent
  BY <1>18, SweptRows DEF CancelExpiredPendingOrders, Kept, HInv, gateway
<1>19. ASSUME NEW p \in Reconcilers, DeleteUnpaidUsages(p) PROVE Persistent
  BY <1>19 DEF DeleteUnpaidUsages, Kept, gateway
<1>20. ASSUME NEW p \in Reconcilers, ZeroCounts(p) PROVE Persistent
  BY <1>20 DEF ZeroCounts, Kept, gateway
<1>21. ASSUME NEW p \in Reconcilers, CountUsages(p) PROVE Persistent
  BY <1>21 DEF CountUsages, Kept, gateway
<1>22. ASSUME NEW p \in Reconcilers, NEW c \in Coupons, WriteCount(p, c) PROVE Persistent
  BY <1>22 DEF WriteCount, Kept, gateway
<1>23. ASSUME NEW p \in Reconcilers, ReconcileDone(p) PROVE Persistent
  BY <1>23 DEF ReconcileDone, Kept, gateway
<1>24. ASSUME NEW a \in Admins, ListCoupons(a) PROVE Persistent
  BY <1>24 DEF ListCoupons, Kept, gateway
<1>25. ASSUME NEW a \in Admins, AbandonReconcile(a) PROVE Persistent
  BY <1>25 DEF AbandonReconcile, Kept, gateway
<1>26. ASSUME NEW c \in Coupons, NEW from, NEW n \in Nat, SaveCoupon(c, from, n) PROVE Persistent
  BY <1>26 DEF SaveCoupon, Kept, gateway
<1>27. ASSUME NEW c \in Coupons, DeleteCoupon(c) PROVE Persistent
  BY <1>27 DEF DeleteCoupon, Kept, gateway
<1>28. ASSUME NEW o \in Orders, WindowPasses(o) PROVE Persistent
  BY <1>28 DEF WindowPasses, Kept, HInv, TypeOK, OrderRow, gateway
<1>29. ASSUME NEW o \in Orders, NEW g \in GatewayStatuses, PaymentMoves(o, g) PROVE Persistent
  BY <1>29 DEF PaymentMoves, Kept, HInv, TypeOK
<1>30. ASSUME Crash PROVE Persistent
  BY <1>30 DEF Crash, Kept, gateway
<1>31. CASE UNCHANGED vars
  BY <1>31 DEF Kept, vars, gateway
<1>32. ASSUME NEW o \in Orders, GetOrderInvoice(o) PROVE Persistent
  BY <1>32 DEF GetOrderInvoice, Kept, gateway
<1> QED
  BY <1>1, <1>2, <1>3, <1>4, <1>5, <1>6, <1>7, <1>8, <1>9, <1>10, <1>11, <1>12, <1>13, <1>14, <1>15, <1>16, <1>17, <1>18, <1>19, <1>20, <1>21, <1>22, <1>23, <1>24, <1>25, <1>26, <1>27, <1>28, <1>29, <1>30, <1>31, <1>32, SaveCoupons
  DEF Next, Purchase, Cancel, Pay, Sync, ReconcileStep, AdminPage, Environment

\* An order that exists keeps naming a buyer and an item that is sold.
LEMMA RowsStep ==
  ASSUME HInv, [Next]_vars PROVE RowsFilled'
<1>1. ASSUME NEW o \in Orders, Kept(o) PROVE orders'[o].status # "absent" =>
        orders'[o].user \in Users /\ orders'[o].item \in Items \ FreeCourses
  BY <1>1 DEF Kept, HInv, RowsFilled
<1>2. ASSUME NEW o \in Orders, Placed(o) PROVE
        orders'[o].user \in Users /\ orders'[o].item \in Items \ FreeCourses
  BY <1>2, BasketTypes DEF Placed
<1> QED
  BY <1>1, <1>2, OrdersPersist DEF RowsFilled

\* A handler's orders and baskets stay good, whatever the others do.
LEMMA RequestsStep ==
  ASSUME HInv, [Next]_vars
  PROVE  RequestsSound'
<1> DEFINE Sound(q) ==
      /\ req'[q].pc \in BuyingSteps =>
           req'[q].basket \in Baskets /\ req'[q].basket.item \notin FreeCourses
      /\ req'[q].pc \in FreeSteps =>
           req'[q].basket \in Baskets /\ req'[q].basket.item \in FreeCourses
      /\ req'[q].pc \in OrderSteps =>
           req'[q].order \in Orders /\ orders'[req'[q].order].status # "absent"
      /\ req'[q].pc = "answered" => req'[q].answer \in reported'[req'[q].order]
<1>o. \A o \in Orders : /\ orders[o].status # "absent" => orders'[o].status # "absent"
                        /\ reported[o] \subseteq reported'[o]
  BY OrdersPersist DEF Kept, Placed
<1>f. ASSUME NEW q \in Requests, req'[q] = req[q] PROVE Sound(q)
  BY <1>o, <1>f DEF HInv, RequestsSound, OrderSteps
<1>a. ASSUME req' = req PROVE RequestsSound'
  BY <1>f, <1>a DEF RequestsSound
<1>e. ASSUME NEW r \in Requests, \A q \in Requests : q # r => req'[q] = req[q], Sound(r)
      PROVE  RequestsSound'
  BY <1>f, <1>e DEF RequestsSound
<1>b. ASSUME NEW r \in Requests, req' = [req EXCEPT ![r] = Idle], req \in [Requests -> Request]
      PROVE  RequestsSound'
  BY <1>e, <1>b, RequestTypes DEF BuyingSteps, FreeSteps, OrderSteps
<1>c. ASSUME NEW r \in Requests, NEW o \in Orders, orders[o].status # "absent",
             NEW pc \in OrderSteps \ {"answered"},
             req' = [req EXCEPT ![r] = WithOrder(pc, o)], req \in [Requests -> Request]
      PROVE  RequestsSound'
  <2>1. /\ req'[r].pc = pc /\ req'[r].order = o
        /\ \A q \in Requests : q # r => req'[q] = req[q]
    BY <1>c, RequestTypes DEF OrderSteps, RequestSteps
  <2> QED
    BY <1>e, <1>o, <1>c, <2>1 DEF BuyingSteps, FreeSteps, OrderSteps
<1>d. ASSUME NEW r \in Requests, NEW b \in Baskets, NEW pc \in BuyingSteps \cup FreeSteps,
             pc \in BuyingSteps <=> b.item \notin FreeCourses,
             req' = [req EXCEPT ![r] = WithBasket(pc, b)], req \in [Requests -> Request]
      PROVE  RequestsSound'
  <2>1. /\ req'[r].pc = pc /\ req'[r].basket = b
        /\ \A q \in Requests : q # r => req'[q] = req[q]
    BY <1>d, RequestTypes DEF BuyingSteps, FreeSteps, RequestSteps
  <2> QED
    BY <1>e, <1>d, <2>1 DEF BuyingSteps, FreeSteps, OrderSteps
<1>1. ASSUME NEW r \in Requests, NEW b \in Baskets, StartPurchase(r, b) PROVE RequestsSound'
  <2>1. CASE req' = req
    BY <1>a, <2>1
  <2>2. CASE req' = [req EXCEPT ![r] = WithBasket(NextStep(b), b)]
    <3>1. /\ NextStep(b) \in BuyingSteps \cup FreeSteps
          /\ NextStep(b) \in BuyingSteps <=> b.item \notin FreeCourses
      BY DEF NextStep, BuyingSteps, FreeSteps
    <3> QED
      BY <1>d, <2>2, <3>1 DEF HInv, TypeOK
  <2> QED
    BY <1>1, <2>1, <2>2 DEF StartPurchase
<1>2. ASSUME NEW r \in Requests, PendingOrderForItem(r) PROVE RequestsSound'
  <2>1. req[r].basket \in Baskets /\ req[r].basket.item \notin FreeCourses
    BY <1>2 DEF PendingOrderForItem, HInv, RequestsSound, BuyingSteps
  <2> QED
    BY <1>b, <1>d, <1>2, <2>1 DEF PendingOrderForItem, HInv, TypeOK, BuyingSteps
<1>3. ASSUME NEW r \in Requests, NEW o \in Orders, CreateOrder(r, o) PROVE RequestsSound'
  BY <1>b, <1>3 DEF CreateOrder, HInv, TypeOK
<1>4. ASSUME NEW r \in Requests, EnrollFree(r) PROVE RequestsSound'
  <2>1. req[r].basket \in Baskets /\ req[r].basket.item \in FreeCourses
    BY <1>4 DEF EnrollFree, HInv, RequestsSound, FreeSteps
  <2> QED
    BY <1>b, <1>d, <1>4, <2>1 DEF EnrollFree, HInv, TypeOK, BuyingSteps, FreeSteps
<1>5. ASSUME NEW r \in Requests, AwardFreeXP(r) PROVE RequestsSound'
  BY <1>b, <1>5 DEF AwardFreeXP, HInv, TypeOK
<1>6. ASSUME NEW r \in Requests, NEW o \in Orders, StartCancel(r, o) PROVE RequestsSound'
  BY <1>c, <1>6 DEF StartCancel, OrderSteps, HInv, TypeOK
<1>7. ASSUME NEW r \in Requests, CancelWrite(r) PROVE RequestsSound'
  BY <1>b, <1>7 DEF CancelWrite, HInv, TypeOK
<1>8. ASSUME NEW r \in Requests, NEW o \in Orders, StartPay(r, o) PROVE RequestsSound'
  BY <1>c, <1>8 DEF StartPay, OrderSteps, HInv, TypeOK
<1>9. ASSUME NEW r \in Requests, PayRead(r) PROVE RequestsSound'
  <2>1. req[r].order \in Orders /\ orders[req[r].order].status # "absent"
    BY <1>9 DEF PayRead, HInv, RequestsSound, OrderSteps
  <2>2. \/ req' = [req EXCEPT ![r] = Idle]
        \/ req' = [req EXCEPT ![r] = WithOrder("expiring", req[r].order)]
        \/ req' = [req EXCEPT ![r] = WithOrder("tokening", req[r].order)]
    BY <1>9, <2>1 DEF PayRead, HInv, TypeOK, OrderRow
  <2> QED
    BY <1>b, <1>c, <2>1, <2>2 DEF OrderSteps, HInv, TypeOK
<1>10. ASSUME NEW r \in Requests, PayExpire(r) PROVE RequestsSound'
  BY <1>b, <1>10 DEF PayExpire, HInv, TypeOK
<1>11. ASSUME NEW r \in Requests, CreateSnapToken(r) PROVE RequestsSound'
  <2>1. req[r].order \in Orders /\ orders[req[r].order].status # "absent"
    BY <1>11 DEF CreateSnapToken, HInv, RequestsSound, OrderSteps
  <2>2. /\ req'[r].pc = "saving" /\ req'[r].order = req[r].order
        /\ \A q \in Requests : q # r => req'[q] = req[q]
    BY <1>11 DEF CreateSnapToken, HInv, TypeOK, Request
  <2> QED
    BY <1>e, <1>o, <2>1, <2>2 DEF BuyingSteps, FreeSteps
<1>12. ASSUME NEW r \in Requests, SaveToken(r) PROVE RequestsSound'
  BY <1>b, <1>12 DEF SaveToken, HInv, TypeOK
<1>13. ASSUME NEW r \in Requests, NEW o \in Orders, StartSync(r, o) PROVE RequestsSound'
  BY <1>c, <1>13 DEF StartSync, OrderSteps, HInv, TypeOK
<1>14. ASSUME NEW r \in Requests, AskGateway(r) PROVE RequestsSound'
  <2>1. req[r].order \in Orders /\ orders[req[r].order].status # "absent"
    BY <1>14 DEF AskGateway, HInv, RequestsSound, OrderSteps
  <2>2. CASE gw[req[r].order] \in {"none", "token"}
    BY <1>b, <1>14, <2>2 DEF AskGateway, HInv, TypeOK
  <2>3. CASE gw[req[r].order] \notin {"none", "token"}
    <3>1. gw[req[r].order] \in reported[req[r].order]
      BY <2>1, <2>3 DEF HInv, TypeOK, GatewayReports
    <3>2. /\ req'[r].pc = "answered" /\ req'[r].order = req[r].order
          /\ req'[r].answer = gw[req[r].order]
          /\ \A q \in Requests : q # r => req'[q] = req[q]
      BY <1>14, <2>3 DEF AskGateway, HInv, TypeOK, WithOrder, Idle
    <3> QED
      BY <1>e, <1>o, <2>1, <3>1, <3>2 DEF BuyingSteps, FreeSteps
  <2> QED
    BY <2>2, <2>3
<1>15. ASSUME NEW r \in Requests, SyncApply(r) PROVE RequestsSound'
  BY <1>b, <1>15 DEF SyncApply, HInv, TypeOK
<1>16. ASSUME NEW r \in Requests, GiveUp(r) PROVE RequestsSound'
  BY <1>b, <1>16 DEF GiveUp, HInv, TypeOK
<1>17. ASSUME NEW o \in Orders, NEW g \in GatewayStatuses, HandleMidtransWebhook(o, g) PROVE RequestsSound'
  BY <1>a, <1>17 DEF HandleMidtransWebhook
<1>18. ASSUME CancelExpiredPendingOrders PROVE RequestsSound'
  BY <1>a, <1>18 DEF CancelExpiredPendingOrders
<1>19. ASSUME NEW p \in Reconcilers, DeleteUnpaidUsages(p) PROVE RequestsSound'
  BY <1>a, <1>19 DEF DeleteUnpaidUsages
<1>20. ASSUME NEW p \in Reconcilers, ZeroCounts(p) PROVE RequestsSound'
  BY <1>a, <1>20 DEF ZeroCounts
<1>21. ASSUME NEW p \in Reconcilers, CountUsages(p) PROVE RequestsSound'
  BY <1>a, <1>21 DEF CountUsages
<1>22. ASSUME NEW p \in Reconcilers, NEW c \in Coupons, WriteCount(p, c) PROVE RequestsSound'
  BY <1>a, <1>22 DEF WriteCount
<1>23. ASSUME NEW p \in Reconcilers, ReconcileDone(p) PROVE RequestsSound'
  BY <1>a, <1>23 DEF ReconcileDone
<1>24. ASSUME NEW a \in Admins, ListCoupons(a) PROVE RequestsSound'
  BY <1>a, <1>24 DEF ListCoupons
<1>25. ASSUME NEW a \in Admins, AbandonReconcile(a) PROVE RequestsSound'
  BY <1>a, <1>25 DEF AbandonReconcile
<1>26. ASSUME NEW c \in Coupons, NEW from, NEW n \in Nat, SaveCoupon(c, from, n) PROVE RequestsSound'
  BY <1>a, <1>26 DEF SaveCoupon
<1>27. ASSUME NEW c \in Coupons, DeleteCoupon(c) PROVE RequestsSound'
  BY <1>a, <1>27 DEF DeleteCoupon
<1>28. ASSUME NEW o \in Orders, WindowPasses(o) PROVE RequestsSound'
  BY <1>a, <1>28 DEF WindowPasses
<1>29. ASSUME NEW o \in Orders, NEW g \in GatewayStatuses, PaymentMoves(o, g) PROVE RequestsSound'
  BY <1>a, <1>29 DEF PaymentMoves
<1>30. ASSUME Crash PROVE RequestsSound'
  BY <1>30, RequestTypes DEF Crash, RequestsSound, BuyingSteps, FreeSteps, OrderSteps
<1>31. CASE UNCHANGED vars
  BY <1>a, <1>31 DEF vars
<1>32. ASSUME NEW o \in Orders, GetOrderInvoice(o) PROVE RequestsSound'
  BY <1>a, <1>32 DEF GetOrderInvoice
<1> QED
  BY <1>1, <1>2, <1>3, <1>4, <1>5, <1>6, <1>7, <1>8, <1>9, <1>10, <1>11, <1>12, <1>13, <1>14, <1>15, <1>16, <1>17, <1>18, <1>19, <1>20, <1>21, <1>22, <1>23, <1>24, <1>25, <1>26, <1>27, <1>28, <1>29, <1>30, <1>31, <1>32, SaveCoupons
  DEF Next, Purchase, Cancel, Pay, Sync, ReconcileStep, AdminPage, Environment

\* What the gateway now answers stays among what it has reported.
LEMMA GatewayStep ==
  ASSUME HInv, [Next]_vars
  PROVE  GatewayReports'
<1>a. ASSUME gw' = gw, reported' = reported PROVE GatewayReports'
  BY <1>a DEF HInv, GatewayReports
<1>1. ASSUME NEW r \in Requests, NEW b \in Baskets, StartPurchase(r, b) PROVE GatewayReports'
  BY <1>a, <1>1 DEF StartPurchase, gateway
<1>2. ASSUME NEW r \in Requests, PendingOrderForItem(r) PROVE GatewayReports'
  BY <1>a, <1>2 DEF PendingOrderForItem, gateway
<1>3. ASSUME NEW r \in Requests, NEW o \in Orders, CreateOrder(r, o) PROVE GatewayReports'
  BY <1>a, <1>3 DEF CreateOrder, gateway
<1>4. ASSUME NEW r \in Requests, EnrollFree(r) PROVE GatewayReports'
  BY <1>a, <1>4 DEF EnrollFree, gateway
<1>5. ASSUME NEW r \in Requests, AwardFreeXP(r) PROVE GatewayReports'
  BY <1>a, <1>5 DEF AwardFreeXP, gateway
<1>6. ASSUME NEW r \in Requests, NEW o \in Orders, StartCancel(r, o) PROVE GatewayReports'
  BY <1>a, <1>6 DEF StartCancel, gateway
<1>7. ASSUME NEW r \in Requests, CancelWrite(r) PROVE GatewayReports'
  BY <1>a, <1>7 DEF CancelWrite, gateway
<1>8. ASSUME NEW r \in Requests, NEW o \in Orders, StartPay(r, o) PROVE GatewayReports'
  BY <1>a, <1>8 DEF StartPay, gateway
<1>9. ASSUME NEW r \in Requests, PayRead(r) PROVE GatewayReports'
  BY <1>a, <1>9 DEF PayRead, gateway
<1>10. ASSUME NEW r \in Requests, PayExpire(r) PROVE GatewayReports'
  BY <1>a, <1>10 DEF PayExpire, gateway
<1>11. ASSUME NEW r \in Requests, CreateSnapToken(r) PROVE GatewayReports'
  <2>1. req[r].order \in Orders
    BY <1>11 DEF CreateSnapToken, HInv, RequestsSound, OrderSteps
  <2> QED
    BY <1>11, <2>1 DEF CreateSnapToken, HInv, TypeOK, GatewayReports, GatewayStatuses
<1>12. ASSUME NEW r \in Requests, SaveToken(r) PROVE GatewayReports'
  BY <1>a, <1>12 DEF SaveToken, gateway
<1>13. ASSUME NEW r \in Requests, NEW o \in Orders, StartSync(r, o) PROVE GatewayReports'
  BY <1>a, <1>13 DEF StartSync, gateway
<1>14. ASSUME NEW r \in Requests, AskGateway(r) PROVE GatewayReports'
  BY <1>a, <1>14 DEF AskGateway, gateway
<1>15. ASSUME NEW r \in Requests, SyncApply(r) PROVE GatewayReports'
  BY <1>a, <1>15 DEF SyncApply, gateway
<1>16. ASSUME NEW r \in Requests, GiveUp(r) PROVE GatewayReports'
  BY <1>a, <1>16 DEF GiveUp, gateway
<1>17. ASSUME NEW o \in Orders, NEW g \in GatewayStatuses, HandleMidtransWebhook(o, g) PROVE GatewayReports'
  BY <1>a, <1>17 DEF HandleMidtransWebhook, gateway
<1>18. ASSUME CancelExpiredPendingOrders PROVE GatewayReports'
  BY <1>a, <1>18 DEF CancelExpiredPendingOrders, gateway
<1>19. ASSUME NEW p \in Reconcilers, DeleteUnpaidUsages(p) PROVE GatewayReports'
  BY <1>a, <1>19 DEF DeleteUnpaidUsages, gateway
<1>20. ASSUME NEW p \in Reconcilers, ZeroCounts(p) PROVE GatewayReports'
  BY <1>a, <1>20 DEF ZeroCounts, gateway
<1>21. ASSUME NEW p \in Reconcilers, CountUsages(p) PROVE GatewayReports'
  BY <1>a, <1>21 DEF CountUsages, gateway
<1>22. ASSUME NEW p \in Reconcilers, NEW c \in Coupons, WriteCount(p, c) PROVE GatewayReports'
  BY <1>a, <1>22 DEF WriteCount, gateway
<1>23. ASSUME NEW p \in Reconcilers, ReconcileDone(p) PROVE GatewayReports'
  BY <1>a, <1>23 DEF ReconcileDone, gateway
<1>24. ASSUME NEW a \in Admins, ListCoupons(a) PROVE GatewayReports'
  BY <1>a, <1>24 DEF ListCoupons, gateway
<1>25. ASSUME NEW a \in Admins, AbandonReconcile(a) PROVE GatewayReports'
  BY <1>a, <1>25 DEF AbandonReconcile, gateway
<1>26. ASSUME NEW c \in Coupons, NEW from, NEW n \in Nat, SaveCoupon(c, from, n) PROVE GatewayReports'
  BY <1>a, <1>26 DEF SaveCoupon, gateway
<1>27. ASSUME NEW c \in Coupons, DeleteCoupon(c) PROVE GatewayReports'
  BY <1>a, <1>27 DEF DeleteCoupon, gateway
<1>28. ASSUME NEW o \in Orders, WindowPasses(o) PROVE GatewayReports'
  BY <1>a, <1>28 DEF WindowPasses, gateway
<1>29. ASSUME NEW o \in Orders, NEW g \in GatewayStatuses, PaymentMoves(o, g) PROVE GatewayReports'
  BY <1>29 DEF PaymentMoves, HInv, TypeOK, GatewayReports
<1>30. ASSUME Crash PROVE GatewayReports'
  BY <1>a, <1>30 DEF Crash, gateway
<1>31. CASE UNCHANGED vars
  BY <1>a, <1>31 DEF vars, gateway
<1>32. ASSUME NEW o \in Orders, GetOrderInvoice(o) PROVE GatewayReports'
  BY <1>a, <1>32 DEF GetOrderInvoice, gateway
<1> QED
  BY <1>1, <1>2, <1>3, <1>4, <1>5, <1>6, <1>7, <1>8, <1>9, <1>10, <1>11, <1>12, <1>13, <1>14, <1>15, <1>16, <1>17, <1>18, <1>19, <1>20, <1>21, <1>22, <1>23, <1>24, <1>25, <1>26, <1>27, <1>28, <1>29, <1>30, <1>31, <1>32, SaveCoupons
  DEF Next, Purchase, Cancel, Pay, Sync, ReconcileStep, AdminPage, Environment

-----------------------------------------------------------------------------
\* What the handlers rely on holds at the start.
LEMMA HInvInit == ASSUME Init PROVE HInv
<1>1. TypeOK
  <2>1. NoRow \in OrderRow
    BY DEF NoRow, OrderRow
  <2>2. couponRow \in [Coupons -> CouponRow]
    BY DEF Init, CouponRow
  <2>3. rec \in [Reconcilers -> Reconcile]
    BY ReconcileTypes DEF Init
  <2>4. budget \in 0 .. Budget
    BY ActorAssumption DEF Init
  <2> QED
    BY <2>1, <2>2, <2>3, <2>4, RequestTypes DEF Init, TypeOK
<1> QED
  BY <1>1, RequestTypes
  DEF Init, HInv, RowsFilled, NoRow, RequestsSound, BuyingSteps, FreeSteps, OrderSteps,
      GatewayReports, GatewayStatuses

\* What the handlers rely on holds in every reachable state.
LEMMA HandlersSound == Spec => []HInv
<1>1. ASSUME HInv, [Next]_vars PROVE HInv'
  BY <1>1, TypeStep, RowsStep, RequestsStep, GatewayStep DEF HInv
<1> QED
  BY <1>1, HInvInit, PTL DEF Spec

\* Every row, set and handler record has its type: no handler writes a status,
\* a count or a seat outside its column, whatever it interleaves with.
THEOREM TypeCorrect == Spec => []TypeOK
<1>1. HInv => TypeOK
  BY DEF HInv
<1> QED
  BY <1>1, HandlersSound, PTL

-----------------------------------------------------------------------------
(* What is paid is fulfilled. *)

\* XP comes with every seat that is not free: a seat found taken, for which
\* no XP is awarded, has had it.
SeatsRewarded ==
  \A u \in Users, c \in Courses \ FreeCourses : <<u, c>> \in enrolled => <<u, c>> \in xp

\* Fulfilling an order grants all that PaidIsFulfilled asks of it.
LEMMA FulfillGrants ==
  ASSUME SeatsRewarded, NEW o \in Orders, NEW row,
         row.user \in Users, row.item \in Items \ FreeCourses,
         FulfillSuccessfulOrder(o, row), EnsureInvoice(o)
  PROVE  /\ o \in invoices'
         /\ row.coupon # None => o \in usages'
         /\ row.item \in Courses => <<row.user, row.item>> \in enrolled' \cap xp'
         /\ SeatsRewarded'
         /\ usages \subseteq usages' /\ enrolled \subseteq enrolled'
         /\ xp \subseteq xp' /\ invoices \subseteq invoices'
<1>1. xp \subseteq xp' /\ enrolled \subseteq enrolled'
  BY DEF FulfillSuccessfulOrder
<1>2. row.item \in Courses => <<row.user, row.item>> \in enrolled' \cap xp'
  BY DEF FulfillSuccessfulOrder, SeatsRewarded
<1>3. SeatsRewarded'
  BY DEF FulfillSuccessfulOrder, SeatsRewarded
<1> QED
  BY <1>1, <1>2, <1>3 DEF FulfillSuccessfulOrder, EnsureInvoice

\* Every step keeps paid orders fulfilled: each way to "success" grants, and
\* nothing else takes a grant back.
LEMMA FulfilledStep ==
  ASSUME HInv, SeatsRewarded, PaidIsFulfilled, [Next]_vars
  PROVE  SeatsRewarded' /\ PaidIsFulfilled'
<1> DEFINE Grants(o, row) ==
      /\ o \in invoices'
      /\ row.coupon # None => o \in usages'
      /\ row.item \in Courses => <<row.user, row.item>> \in enrolled' \cap xp'
<1> DEFINE Goal == SeatsRewarded' /\ PaidIsFulfilled'
<1>a. ASSUME UNCHANGED <<usages, enrolled, xp, invoices>>,
             \A o \in Orders : orders'[o].status = "success" =>
               /\ orders[o].status = "success"
               /\ orders'[o].user = orders[o].user
               /\ orders'[o].item = orders[o].item
               /\ orders'[o].coupon = orders[o].coupon
      PROVE  Goal
  BY <1>a DEF SeatsRewarded, PaidIsFulfilled, Seat
<1>b. ASSUME UNCHANGED <<orders, usages, enrolled, xp, invoices>> PROVE Goal
  BY <1>a, <1>b
<1>c. ASSUME NEW o \in Orders, NEW row,
             row.user \in Users, row.item \in Items \ FreeCourses,
             FulfillSuccessfulOrder(o, row), EnsureInvoice(o),
             orders' = [orders EXCEPT ![o] = row]
      PROVE  Goal
  <2>1. Grants(o, row) /\ SeatsRewarded'
        /\ usages \subseteq usages' /\ enrolled \subseteq enrolled'
        /\ xp \subseteq xp' /\ invoices \subseteq invoices'
    BY <1>c, FulfillGrants DEF HInv
  <2>2. orders'[o] = row /\ \A x \in Orders \ {o} : orders'[x] = orders[x]
    BY <1>c DEF HInv, TypeOK
  <2> QED
    BY <2>1, <2>2 DEF PaidIsFulfilled, Seat
<1>d. ASSUME NEW o \in Orders, orders[o].status # "absent", NEW s, ApplyStatus(o, s)
      PROVE  Goal
  <2> DEFINE row == orders[o]
  <2>1. row.user \in Users /\ row.item \in Items \ FreeCourses
    BY <1>d DEF HInv, RowsFilled
  <2>2. /\ \A x \in Orders \ {o} : orders'[x] = orders[x]
        /\ orders'[o].status = s
        /\ orders'[o].user = row.user
        /\ orders'[o].item = row.item
        /\ orders'[o].coupon = row.coupon
    BY <1>d DEF ApplyStatus, HInv, TypeOK, OrderRow
  <2>3. CASE s = "success"
    <3>1. Grants(o, row) /\ SeatsRewarded'
          /\ usages \subseteq usages' /\ enrolled \subseteq enrolled'
          /\ xp \subseteq xp' /\ invoices \subseteq invoices'
      BY <1>d, <2>1, <2>3, FulfillGrants DEF ApplyStatus, HInv
    <3> QED
      BY <2>2, <3>1 DEF PaidIsFulfilled, Seat
  <2>4. CASE s # "success"
    BY <1>a, <1>d, <2>2, <2>4 DEF ApplyStatus, grants
  <2> QED
    BY <2>3, <2>4
<1>1. ASSUME NEW r \in Requests, NEW b \in Baskets, StartPurchase(r, b) PROVE Goal
  BY <1>a, <1>1, SweptRows DEF StartPurchase, HInv, grants
<1>2. ASSUME NEW r \in Requests, PendingOrderForItem(r) PROVE Goal
  BY <1>b, <1>2 DEF PendingOrderForItem, grants
<1>3. ASSUME NEW r \in Requests, NEW o \in Orders, CreateOrder(r, o) PROVE Goal
  <2> DEFINE b == req[r].basket
  <2>1. b \in Baskets /\ b.item \notin FreeCourses
    BY <1>3 DEF CreateOrder, HInv, RequestsSound, BuyingSteps
  <2>2. /\ orders' = [orders EXCEPT ![o] = NewRow(b)]
        /\ NewRow(b).user \in Users /\ NewRow(b).item \in Items \ FreeCourses
    BY <1>3, <2>1, BasketTypes DEF CreateOrder
  <2>3. CASE NewRow(b).status = "success"
    <3>1. FulfillSuccessfulOrder(o, NewRow(b)) /\ EnsureInvoice(o)
      BY <1>3, <2>1, <2>3, BasketTypes DEF CreateOrder
    <3> QED
      BY <1>c, <2>2, <3>1 DEF HInv, TypeOK
  <2>4. CASE NewRow(b).status # "success"
    BY <1>a, <1>3, <2>1, <2>2, <2>4, BasketTypes DEF CreateOrder, HInv, TypeOK, grants
  <2> QED
    BY <2>3, <2>4
<1>4. ASSUME NEW r \in Requests, EnrollFree(r) PROVE Goal
  <2>1. req[r].basket.item \in FreeCourses
    BY <1>4 DEF EnrollFree, HInv, RequestsSound, FreeSteps
  <2> QED
    BY <1>4, <2>1 DEF EnrollFree, PaidIsFulfilled, SeatsRewarded, Seat
<1>5. ASSUME NEW r \in Requests, AwardFreeXP(r) PROVE Goal
  BY <1>5 DEF AwardFreeXP, PaidIsFulfilled, SeatsRewarded, Seat
<1>6. ASSUME NEW r \in Requests, NEW o \in Orders, StartCancel(r, o) PROVE Goal
  BY <1>b, <1>6 DEF StartCancel, grants
<1>7. ASSUME NEW r \in Requests, CancelWrite(r) PROVE Goal
  BY <1>a, <1>7 DEF CancelWrite, HInv, TypeOK, OrderRow, RequestsSound, OrderSteps, grants
<1>8. ASSUME NEW r \in Requests, NEW o \in Orders, StartPay(r, o) PROVE Goal
  BY <1>a, <1>8, SweptRows DEF StartPay, HInv, grants
<1>9. ASSUME NEW r \in Requests, PayRead(r) PROVE Goal
  BY <1>b, <1>9 DEF PayRead, grants
<1>10. ASSUME NEW r \in Requests, PayExpire(r) PROVE Goal
  BY <1>a, <1>10 DEF PayExpire, HInv, TypeOK, OrderRow, RequestsSound, OrderSteps, grants
<1>11. ASSUME NEW r \in Requests, CreateSnapToken(r) PROVE Goal
  BY <1>b, <1>11 DEF CreateSnapToken, grants
<1>12. ASSUME NEW r \in Requests, SaveToken(r) PROVE Goal
  BY <1>a, <1>12 DEF SaveToken, HInv, TypeOK, OrderRow, RequestsSound, OrderSteps, grants
<1>13. ASSUME NEW r \in Requests, NEW o \in Orders, StartSync(r, o) PROVE Goal
  BY <1>b, <1>13 DEF StartSync, grants
<1>14. ASSUME NEW r \in Requests, AskGateway(r) PROVE Goal
  BY <1>b, <1>14 DEF AskGateway, grants
<1>15. ASSUME NEW r \in Requests, SyncApply(r) PROVE Goal
  <2>1. req[r].order \in Orders /\ orders[req[r].order].status # "absent"
    BY <1>15 DEF SyncApply, HInv, RequestsSound, OrderSteps
  <2> QED
    BY <1>d, <1>15, <2>1 DEF SyncApply
<1>16. ASSUME NEW r \in Requests, GiveUp(r) PROVE Goal
  BY <1>b, <1>16 DEF GiveUp, grants
<1>17. ASSUME NEW o \in Orders, NEW g \in GatewayStatuses, HandleMidtransWebhook(o, g) PROVE Goal
  BY <1>d, <1>17 DEF HandleMidtransWebhook
<1>18. ASSUME CancelExpiredPendingOrders PROVE Goal
  BY <1>a, <1>18, SweptRows DEF CancelExpiredPendingOrders, HInv, grants
<1>19. ASSUME NEW p \in Reconcilers, DeleteUnpaidUsages(p) PROVE Goal
  BY <1>19 DEF DeleteUnpaidUsages, PaidIsFulfilled, SeatsRewarded, Seat, HInv, TypeOK
<1>20. ASSUME NEW p \in Reconcilers, ZeroCounts(p) PROVE Goal
  BY <1>b, <1>20 DEF ZeroCounts
<1>21. ASSUME NEW p \in Reconcilers, CountUsages(p) PROVE Goal
  BY <1>b, <1>21 DEF CountUsages, grants
<1>22. ASSUME NEW p \in Reconcilers, NEW c \in Coupons, WriteCount(p, c) PROVE Goal
  BY <1>b, <1>22 DEF WriteCount
<1>23. ASSUME NEW p \in Reconcilers, ReconcileDone(p) PROVE Goal
  BY <1>b, <1>23 DEF ReconcileDone, grants
<1>24. ASSUME NEW a \in Admins, ListCoupons(a) PROVE Goal
  BY <1>b, <1>24 DEF ListCoupons, grants
<1>25. ASSUME NEW a \in Admins, AbandonReconcile(a) PROVE Goal
  BY <1>b, <1>25 DEF AbandonReconcile, grants
<1>26. ASSUME NEW c \in Coupons, NEW from, NEW n \in Nat, SaveCoupon(c, from, n) PROVE Goal
  BY <1>b, <1>26 DEF SaveCoupon
<1>27. ASSUME NEW c \in Coupons, DeleteCoupon(c) PROVE Goal
  BY <1>b, <1>27 DEF DeleteCoupon
<1>28. ASSUME NEW o \in Orders, WindowPasses(o) PROVE Goal
  BY <1>a, <1>28 DEF WindowPasses, HInv, TypeOK, OrderRow, RequestsSound, OrderSteps, grants
<1>29. ASSUME NEW o \in Orders, NEW g \in GatewayStatuses, PaymentMoves(o, g) PROVE Goal
  BY <1>b, <1>29 DEF PaymentMoves, grants
<1>30. ASSUME Crash PROVE Goal
  BY <1>b, <1>30 DEF Crash, grants
<1>31. CASE UNCHANGED vars
  BY <1>b, <1>31 DEF vars, grants
<1>32. ASSUME NEW o \in Orders, GetOrderInvoice(o) PROVE Goal
  BY <1>32 DEF GetOrderInvoice, EnsureInvoice, PaidIsFulfilled, SeatsRewarded, Seat
<1> QED
  BY <1>1, <1>2, <1>3, <1>4, <1>5, <1>6, <1>7, <1>8, <1>9, <1>10, <1>11, <1>12, <1>13, <1>14, <1>15, <1>16, <1>17, <1>18, <1>19, <1>20, <1>21, <1>22, <1>23, <1>24, <1>25, <1>26, <1>27, <1>28, <1>29, <1>30, <1>31, <1>32, SaveCoupons
  DEF Next, Purchase, Cancel, Pay, Sync, ReconcileStep, AdminPage, Environment

\* An order that is successful has its invoice, its coupon use, its seat and
\* the seat's XP, through every interleaving of checkouts, notifications,
\* status queries, downgrades, sweeps, reconciliations and crashes.
THEOREM Fulfilled == Spec => []PaidIsFulfilled
<1> DEFINE FInv == SeatsRewarded /\ PaidIsFulfilled
<1>1. ASSUME Init PROVE FInv
  BY <1>1 DEF Init, SeatsRewarded, PaidIsFulfilled, NoRow
<1>2. ASSUME FInv, HInv, [Next]_vars PROVE FInv'
  BY <1>2, FulfilledStep
<1>3. FInv => PaidIsFulfilled
  OBVIOUS
<1> QED
  BY <1>1, <1>2, <1>3, HandlersSound, PTL DEF Spec

-----------------------------------------------------------------------------
(* What was given was earned. *)

\* What has been earned stays earned: the basket of an order does not change
\* and the gateway forgets nothing.
LEMMA EarnedKept ==
  ASSUME NEW o \in Orders, Kept(o), reported[o] \subseteq reported'[o], Earned(o)
  PROVE  Earned(o)'
<1>1. CASE InitialStatus(BasketOf(o)) = "success"
  <2>1. BasketOf(o)' = BasketOf(o)
    BY DEF BasketOf, Kept
  <2> QED
    BY <1>1, <2>1 DEF Earned
<1>2. CASE \E g \in reported[o] : MapMidtransStatus(g) = "success"
  BY <1>2 DEF Earned
<1> QED
  BY <1>1, <1>2 DEF Earned

\* Every step keeps grants backed: only a step that has just been told of the
\* money, or that sells for nothing, gives a priced seat or an invoice.
LEMMA BackedStep ==
  ASSUME HInv, PaidIsFulfilled, GrantsAreBacked, [Next]_vars
  PROVE  GrantsAreBacked'
<1>o. \A x \in Orders : orders[x].status # "absent" =>
        /\ orders'[x].status # "absent"
        /\ Seat(x)' = Seat(x)
        /\ Earned(x) => Earned(x)'
  BY OrdersPersist, EarnedKept DEF Kept, Placed, Seat
<1>s. ASSUME invoices \subseteq invoices',
             \A x \in invoices' \ invoices : orders'[x].status # "absent" /\ Earned(x)',
             \A u \in Users, c \in Courses \ FreeCourses :
               <<u, c>> \in enrolled' \ enrolled => \E x \in invoices' : Seat(x)' = <<u, c>>
      PROVE  GrantsAreBacked'
  <2>1. \A x \in invoices : x \in Orders /\ orders[x].status # "absent" /\ Earned(x)
    BY DEF GrantsAreBacked, HInv, TypeOK
  <2>2. \A x \in invoices' : orders'[x].status # "absent" /\ Earned(x)'
    BY <1>o, <1>s, <2>1
  <2>3. ASSUME NEW u \in Users, NEW c \in Courses \ FreeCourses, <<u, c>> \in enrolled'
        PROVE  \E x \in invoices' : Seat(x)' = <<u, c>>
    <3>1. CASE <<u, c>> \in enrolled
      <4>1. PICK x \in invoices : Seat(x) = <<u, c>>
        BY <3>1 DEF GrantsAreBacked
      <4> QED
        BY <4>1, <1>o, <1>s, <2>1
    <3> QED
      BY <1>s, <2>3, <3>1
  <2> QED
    BY <2>2, <2>3 DEF GrantsAreBacked
<1>a. ASSUME invoices' = invoices,
             \A u \in Users, c \in Courses \ FreeCourses :
               <<u, c>> \in enrolled' => <<u, c>> \in enrolled
      PROVE  GrantsAreBacked'
  BY <1>s, <1>a
<1>b. ASSUME NEW o \in Orders, orders'[o].status # "absent", Earned(o)',
             invoices' = invoices \cup {o},
             enrolled' \subseteq enrolled \cup {Seat(o)'}
      PROVE  GrantsAreBacked'
  BY <1>s, <1>b
<1>c. ASSUME NEW o \in Orders, orders[o].status # "absent", NEW s, ApplyStatus(o, s),
             s = "success" => \E g \in reported[o] : MapMidtransStatus(g) = "success"
      PROVE  GrantsAreBacked'
  <2>1. CASE s = "success"
    <3>1. Earned(o)
      BY <1>c, <2>1 DEF Earned
    <3>2. orders'[o].status # "absent" /\ Earned(o)' /\ Seat(o)' = Seat(o)
      BY <1>o, <1>c, <3>1
    <3> QED
      BY <1>b, <1>c, <2>1, <3>2
      DEF ApplyStatus, FulfillSuccessfulOrder, EnsureInvoice, Seat
  <2>2. CASE s # "success"
    BY <1>a, <1>c, <2>2 DEF ApplyStatus, grants
  <2> QED
    BY <2>1, <2>2
<1>1. ASSUME NEW r \in Requests, NEW b \in Baskets, StartPurchase(r, b) PROVE GrantsAreBacked'
  BY <1>a, <1>1 DEF StartPurchase, grants
<1>2. ASSUME NEW r \in Requests, PendingOrderForItem(r) PROVE GrantsAreBacked'
  BY <1>a, <1>2 DEF PendingOrderForItem, grants
<1>3. ASSUME NEW r \in Requests, NEW o \in Orders, CreateOrder(r, o) PROVE GrantsAreBacked'
  <2> DEFINE b == req[r].basket
  <2>1. b \in Baskets /\ b.item \notin FreeCourses
    BY <1>3 DEF CreateOrder, HInv, RequestsSound, BuyingSteps
  <2>2. orders'[o] = NewRow(b) /\ NewRow(b).status = InitialStatus(b)
    BY <1>3, <2>1, BasketTypes DEF CreateOrder, HInv, TypeOK
  <2>3. CASE InitialStatus(b) = "success"
    <3>1. b = [user |-> NewRow(b).user, item |-> NewRow(b).item, coupon |-> NewRow(b).coupon]
      BY <2>1, CatalogueAssumption DEF Basket, NewRow
    <3>2. Earned(o)'
      BY <2>2, <2>3, <3>1 DEF Earned, BasketOf
    <3> QED
      BY <1>b, <1>3, <2>2, <2>3, <3>2
      DEF CreateOrder, FulfillSuccessfulOrder, EnsureInvoice, Seat
  <2>4. CASE InitialStatus(b) # "success"
    BY <1>a, <1>3, <2>4 DEF CreateOrder, grants
  <2> QED
    BY <2>3, <2>4
<1>4. ASSUME NEW r \in Requests, EnrollFree(r) PROVE GrantsAreBacked'
  <2>1. req[r].basket.item \in FreeCourses /\ req[r].basket.user \in Users
    BY <1>4, BasketTypes DEF EnrollFree, HInv, RequestsSound, FreeSteps
  <2> QED
    BY <1>a, <1>4, <2>1 DEF EnrollFree
<1>5. ASSUME NEW r \in Requests, AwardFreeXP(r) PROVE GrantsAreBacked'
  BY <1>a, <1>5 DEF AwardFreeXP
<1>6. ASSUME NEW r \in Requests, NEW o \in Orders, StartCancel(r, o) PROVE GrantsAreBacked'
  BY <1>a, <1>6 DEF StartCancel, grants
<1>7. ASSUME NEW r \in Requests, CancelWrite(r) PROVE GrantsAreBacked'
  BY <1>a, <1>7 DEF CancelWrite, grants
<1>8. ASSUME NEW r \in Requests, NEW o \in Orders, StartPay(r, o) PROVE GrantsAreBacked'
  BY <1>a, <1>8 DEF StartPay, grants
<1>9. ASSUME NEW r \in Requests, PayRead(r) PROVE GrantsAreBacked'
  BY <1>a, <1>9 DEF PayRead, grants
<1>10. ASSUME NEW r \in Requests, PayExpire(r) PROVE GrantsAreBacked'
  BY <1>a, <1>10 DEF PayExpire, grants
<1>11. ASSUME NEW r \in Requests, CreateSnapToken(r) PROVE GrantsAreBacked'
  BY <1>a, <1>11 DEF CreateSnapToken, grants
<1>12. ASSUME NEW r \in Requests, SaveToken(r) PROVE GrantsAreBacked'
  BY <1>a, <1>12 DEF SaveToken, grants
<1>13. ASSUME NEW r \in Requests, NEW o \in Orders, StartSync(r, o) PROVE GrantsAreBacked'
  BY <1>a, <1>13 DEF StartSync, grants
<1>14. ASSUME NEW r \in Requests, AskGateway(r) PROVE GrantsAreBacked'
  BY <1>a, <1>14 DEF AskGateway, grants
<1>15. ASSUME NEW r \in Requests, SyncApply(r) PROVE GrantsAreBacked'
  <2> DEFINE o == req[r].order
  <2>1. /\ o \in Orders /\ orders[o].status # "absent"
        /\ req[r].answer \in reported[o]
    BY <1>15 DEF SyncApply, HInv, RequestsSound, OrderSteps
  <2> QED
    BY <1>c, <1>15, <2>1, MapTypes DEF SyncApply
<1>16. ASSUME NEW r \in Requests, GiveUp(r) PROVE GrantsAreBacked'
  BY <1>a, <1>16 DEF GiveUp, grants
<1>17. ASSUME NEW o \in Orders, NEW g \in GatewayStatuses, HandleMidtransWebhook(o, g) PROVE GrantsAreBacked'
  BY <1>c, <1>17, MapTypes DEF HandleMidtransWebhook
<1>18. ASSUME CancelExpiredPendingOrders PROVE GrantsAreBacked'
  BY <1>a, <1>18 DEF CancelExpiredPendingOrders, grants
<1>19. ASSUME NEW p \in Reconcilers, DeleteUnpaidUsages(p) PROVE GrantsAreBacked'
  BY <1>a, <1>19 DEF DeleteUnpaidUsages
<1>20. ASSUME NEW p \in Reconcilers, ZeroCounts(p) PROVE GrantsAreBacked'
  BY <1>a, <1>20 DEF ZeroCounts
<1>21. ASSUME NEW p \in Reconcilers, CountUsages(p) PROVE GrantsAreBacked'
  BY <1>a, <1>21 DEF CountUsages, grants
<1>22. ASSUME NEW p \in Reconcilers, NEW c \in Coupons, WriteCount(p, c) PROVE GrantsAreBacked'
  BY <1>a, <1>22 DEF WriteCount
<1>23. ASSUME NEW p \in Reconcilers, ReconcileDone(p) PROVE GrantsAreBacked'
  BY <1>a, <1>23 DEF ReconcileDone, grants
<1>24. ASSUME NEW a \in Admins, ListCoupons(a) PROVE GrantsAreBacked'
  BY <1>a, <1>24 DEF ListCoupons, grants
<1>25. ASSUME NEW a \in Admins, AbandonReconcile(a) PROVE GrantsAreBacked'
  BY <1>a, <1>25 DEF AbandonReconcile, grants
<1>26. ASSUME NEW c \in Coupons, NEW from, NEW n \in Nat, SaveCoupon(c, from, n) PROVE GrantsAreBacked'
  BY <1>a, <1>26 DEF SaveCoupon
<1>27. ASSUME NEW c \in Coupons, DeleteCoupon(c) PROVE GrantsAreBacked'
  BY <1>a, <1>27 DEF DeleteCoupon
<1>28. ASSUME NEW o \in Orders, WindowPasses(o) PROVE GrantsAreBacked'
  BY <1>a, <1>28 DEF WindowPasses, grants
<1>29. ASSUME NEW o \in Orders, NEW g \in GatewayStatuses, PaymentMoves(o, g) PROVE GrantsAreBacked'
  BY <1>a, <1>29 DEF PaymentMoves, grants
<1>30. ASSUME Crash PROVE GrantsAreBacked'
  BY <1>a, <1>30 DEF Crash, grants
<1>31. CASE UNCHANGED vars
  BY <1>a, <1>31 DEF vars, grants
<1>32. ASSUME NEW o \in Orders, GetOrderInvoice(o) PROVE GrantsAreBacked'
  BY <1>a, <1>32 DEF GetOrderInvoice, EnsureInvoice, PaidIsFulfilled, grants
<1> QED
  BY <1>1, <1>2, <1>3, <1>4, <1>5, <1>6, <1>7, <1>8, <1>9, <1>10, <1>11, <1>12, <1>13, <1>14, <1>15, <1>16, <1>17, <1>18, <1>19, <1>20, <1>21, <1>22, <1>23, <1>24, <1>25, <1>26, <1>27, <1>28, <1>29, <1>30, <1>31, <1>32, SaveCoupons
  DEF Next, Purchase, Cancel, Pay, Sync, ReconcileStep, AdminPage, Environment

\* No seat in a priced course and no invoice without an order that cost
\* nothing or whose money the gateway has reported taken.
THEOREM Backed == Spec => []GrantsAreBacked
<1>1. ASSUME Init PROVE GrantsAreBacked
  BY <1>1 DEF Init, GrantsAreBacked
<1>2. ASSUME GrantsAreBacked, PaidIsFulfilled, HInv, [Next]_vars PROVE GrantsAreBacked'
  BY <1>2, BackedStep
<1> QED
  BY <1>1, <1>2, HandlersSound, Fulfilled, PTL DEF Spec

-----------------------------------------------------------------------------
(* Who decides the status of an order. *)

\* No step but an insert, a cancellation or a report changes a status.
LEMMA ReportedStep ==
  ASSUME HInv, [Next]_vars
  PROVE  \A o \in Orders :
           LET from == orders[o].status
               to == orders'[o].status
           IN  from # "absent" /\ to # from /\ to # "cancelled" =>
                 \E g \in reported[o] : to \in {MapMidtransStatus(g), MapQueriedStatus(g)}
<1> DEFINE StatusStep ==
      \A x \in Orders :
        orders[x].status # "absent" /\ orders'[x].status # orders[x].status
          /\ orders'[x].status # "cancelled" =>
            \E h \in reported[x] :
              orders'[x].status \in {MapMidtransStatus(h), MapQueriedStatus(h)}
<1>1. ASSUME NEW r \in Requests, NEW b \in Baskets, StartPurchase(r, b) PROVE StatusStep
  BY <1>1, SweptRows DEF StartPurchase, HInv
<1>2. ASSUME NEW r \in Requests, PendingOrderForItem(r) PROVE StatusStep
  BY <1>2 DEF PendingOrderForItem
<1>3. ASSUME NEW r \in Requests, NEW o \in Orders, CreateOrder(r, o) PROVE StatusStep
  BY <1>3 DEF CreateOrder, HInv, TypeOK
<1>4. ASSUME NEW r \in Requests, EnrollFree(r) PROVE StatusStep
  BY <1>4 DEF EnrollFree
<1>5. ASSUME NEW r \in Requests, AwardFreeXP(r) PROVE StatusStep
  BY <1>5 DEF AwardFreeXP
<1>6. ASSUME NEW r \in Requests, NEW o \in Orders, StartCancel(r, o) PROVE StatusStep
  BY <1>6 DEF StartCancel
<1>7. ASSUME NEW r \in Requests, CancelWrite(r) PROVE StatusStep
  BY <1>7 DEF CancelWrite, HInv, TypeOK, OrderRow, RequestsSound, OrderSteps
<1>8. ASSUME NEW r \in Requests, NEW o \in Orders, StartPay(r, o) PROVE StatusStep
  BY <1>8, SweptRows DEF StartPay, HInv
<1>9. ASSUME NEW r \in Requests, PayRead(r) PROVE StatusStep
  BY <1>9 DEF PayRead
<1>10. ASSUME NEW r \in Requests, PayExpire(r) PROVE StatusStep
  BY <1>10 DEF PayExpire, HInv, TypeOK, OrderRow, RequestsSound, OrderSteps
<1>11. ASSUME NEW r \in Requests, CreateSnapToken(r) PROVE StatusStep
  BY <1>11 DEF CreateSnapToken
<1>12. ASSUME NEW r \in Requests, SaveToken(r) PROVE StatusStep
  BY <1>12 DEF SaveToken, HInv, TypeOK, OrderRow, RequestsSound, OrderSteps
<1>13. ASSUME NEW r \in Requests, NEW o \in Orders, StartSync(r, o) PROVE StatusStep
  BY <1>13 DEF StartSync
<1>14. ASSUME NEW r \in Requests, AskGateway(r) PROVE StatusStep
  BY <1>14 DEF AskGateway
<1>15. ASSUME NEW r \in Requests, SyncApply(r) PROVE StatusStep
  BY <1>15 DEF SyncApply, ApplyStatus, HInv, TypeOK, OrderRow, RequestsSound, OrderSteps
<1>16. ASSUME NEW r \in Requests, GiveUp(r) PROVE StatusStep
  BY <1>16 DEF GiveUp
<1>17. ASSUME NEW o \in Orders, NEW g \in GatewayStatuses, HandleMidtransWebhook(o, g) PROVE StatusStep
  BY <1>17 DEF HandleMidtransWebhook, ApplyStatus, HInv, TypeOK, OrderRow
<1>18. ASSUME CancelExpiredPendingOrders PROVE StatusStep
  BY <1>18, SweptRows DEF CancelExpiredPendingOrders, HInv
<1>19. ASSUME NEW p \in Reconcilers, DeleteUnpaidUsages(p) PROVE StatusStep
  BY <1>19 DEF DeleteUnpaidUsages
<1>20. ASSUME NEW p \in Reconcilers, ZeroCounts(p) PROVE StatusStep
  BY <1>20 DEF ZeroCounts
<1>21. ASSUME NEW p \in Reconcilers, CountUsages(p) PROVE StatusStep
  BY <1>21 DEF CountUsages
<1>22. ASSUME NEW p \in Reconcilers, NEW c \in Coupons, WriteCount(p, c) PROVE StatusStep
  BY <1>22 DEF WriteCount
<1>23. ASSUME NEW p \in Reconcilers, ReconcileDone(p) PROVE StatusStep
  BY <1>23 DEF ReconcileDone
<1>24. ASSUME NEW a \in Admins, ListCoupons(a) PROVE StatusStep
  BY <1>24 DEF ListCoupons
<1>25. ASSUME NEW a \in Admins, AbandonReconcile(a) PROVE StatusStep
  BY <1>25 DEF AbandonReconcile
<1>26. ASSUME NEW c \in Coupons, NEW from, NEW n \in Nat, SaveCoupon(c, from, n) PROVE StatusStep
  BY <1>26 DEF SaveCoupon
<1>27. ASSUME NEW c \in Coupons, DeleteCoupon(c) PROVE StatusStep
  BY <1>27 DEF DeleteCoupon
<1>28. ASSUME NEW o \in Orders, WindowPasses(o) PROVE StatusStep
  BY <1>28 DEF WindowPasses, HInv, TypeOK, OrderRow, RequestsSound, OrderSteps
<1>29. ASSUME NEW o \in Orders, NEW g \in GatewayStatuses, PaymentMoves(o, g) PROVE StatusStep
  BY <1>29 DEF PaymentMoves
<1>30. ASSUME Crash PROVE StatusStep
  BY <1>30 DEF Crash
<1>31. CASE UNCHANGED vars
  BY <1>31 DEF vars
<1>32. ASSUME NEW o \in Orders, GetOrderInvoice(o) PROVE StatusStep
  BY <1>32 DEF GetOrderInvoice
<1> QED
  BY <1>1, <1>2, <1>3, <1>4, <1>5, <1>6, <1>7, <1>8, <1>9, <1>10, <1>11, <1>12, <1>13, <1>14, <1>15, <1>16, <1>17, <1>18, <1>19, <1>20, <1>21, <1>22, <1>23, <1>24, <1>25, <1>26, <1>27, <1>28, <1>29, <1>30, <1>31, <1>32, SaveCoupons
  DEF Next, Purchase, Cancel, Pay, Sync, ReconcileStep, AdminPage, Environment

\* Short of cancelling it, the server gives an existing order only a status
\* the gateway has reported for it.
THEOREM StatusReported == Spec => StatusIsReported
<1>1. HInv /\ [Next]_vars =>
        [\A o \in Orders :
           LET from == orders[o].status
               to == orders'[o].status
           IN  from # "absent" /\ to # from /\ to # "cancelled" =>
                 \E g \in reported[o] : to \in {MapMidtransStatus(g), MapQueriedStatus(g)}]_vars
  BY ReportedStep
<1> QED
  BY <1>1, HandlersSound, PTL DEF Spec, StatusIsReported

-----------------------------------------------------------------------------
(* The checkout implements Entitlement. *)

\* Every step of the checkout is a step of Entitlement or a stutter.
LEMMA PromiseStep ==
  ASSUME HInv, PaidIsFulfilled, [Next]_vars
  PROVE  [Promise!Next]_(Promise!vars)
<1> DEFINE phases == [x \in Orders |-> PhaseOf(x)]
           seats == [x \in Orders |-> Seat(x)]
           earnedNow == {x \in Orders : orders[x].status # "absent" /\ Earned(x)}
           Goal == [Promise!Next]_(Promise!vars)
<1>q. ASSUME NEW o \in Orders, NEW thing \in (Users \cup {None}) \X (Items \cup {None}),
             phases[o] = "none",
             seats' = [seats EXCEPT ![o] = thing],
             earnedNow' \in {earnedNow, earnedNow \cup {o}},
             \/ /\ phases' = [phases EXCEPT ![o] = "unpaid"]
                /\ invoices' = invoices /\ enrolled' = enrolled
             \/ /\ phases' = [phases EXCEPT ![o] = "paid"]
                /\ o \in earnedNow'
                /\ invoices' = invoices \cup {o}
                /\ enrolled' = enrolled \cup ({thing} \cap (Users \X Courses))
      PROVE  Goal
  <2>1. Promise!Place(o, thing)
    BY <1>q DEF Promise!Place, Promise!Honour
  <2> QED
    BY <2>1 DEF Promise!Next
<1>m. ASSUME reported' = reported,
             \A x \in Orders : orders[x].status = "absent" => orders'[x].status = "absent"
      PROVE  seats' = seats /\ earnedNow' = earnedNow
  <2>1. \A x \in Orders : Kept(x)
    BY <1>m, OrdersPersist, BasketTypes DEF Placed
  <2>2. \A x \in Orders : Seat(x)' = Seat(x) /\ (Earned(x)' <=> Earned(x))
    BY <1>m, <2>1 DEF Kept, Seat, Earned, BasketOf
  <2> QED
    BY <2>1, <2>2 DEF Kept
<1>t. ASSUME UNCHANGED <<reported, invoices, enrolled>>,
             \A x \in Orders : PhaseOf(x)' = PhaseOf(x)
      PROVE  Goal
  <2>1. \A x \in Orders : orders[x].status = "absent" => orders'[x].status = "absent"
    BY <1>t DEF PhaseOf
  <2> QED
    BY <1>m, <1>t, <2>1 DEF Promise!vars
<1>l. ASSUME NEW o \in Orders, UNCHANGED <<reported, invoices, enrolled>>,
             orders[o].status # "absent", orders'[o].status \notin {"absent", "success"},
             \A x \in Orders \ {o} : orders'[x] = orders[x]
      PROVE  Goal
  <2>1. seats' = seats /\ earnedNow' = earnedNow
    BY <1>m, <1>l
  <2>2. CASE orders[o].status = "success"
    <3>1. phases[o] = "paid" /\ phases' = [phases EXCEPT ![o] = "unpaid"]
      BY <1>l, <2>2 DEF PhaseOf
    <3>2. Promise!Lapse(o)
      BY <1>l, <2>1, <3>1 DEF Promise!Lapse
    <3> QED
      BY <3>2 DEF Promise!Next
  <2>3. CASE orders[o].status # "success"
    BY <1>t, <1>l, <2>3 DEF PhaseOf
  <2> QED
    BY <2>2, <2>3
<1>p. ASSUME NEW o \in Orders, orders[o].status # "absent",
             NEW s \in Statuses, ApplyStatus(o, s), reported' = reported,
             s = "success" => \E g \in reported[o] : MapMidtransStatus(g) = "success"
      PROVE  Goal
  <2>1. /\ orders'[o].status = s
        /\ \A x \in Orders \ {o} : orders'[x] = orders[x]
    BY <1>p DEF ApplyStatus, HInv, TypeOK, OrderRow
  <2>2. s # "absent"
    BY <1>p DEF Statuses
  <2>3. CASE s = "success"
    <3>1. seats' = seats /\ earnedNow' = earnedNow
      BY <1>m, <1>p, <2>1, <2>2
    <3>2. phases[o] # "none" /\ phases' = [phases EXCEPT ![o] = "paid"]
      BY <1>p, <2>1, <2>3 DEF PhaseOf
    <3>3. o \in earnedNow
      BY <1>p, <2>3 DEF Earned
    <3>4. /\ invoices' = invoices \cup {o}
          /\ enrolled' = enrolled \cup ({seats[o]} \cap (Users \X Courses))
      BY <1>p, <2>3 DEF ApplyStatus, FulfillSuccessfulOrder, EnsureInvoice,
                        Seat, HInv, RowsFilled
    <3>5. Promise!Pay(o)
      BY <3>1, <3>2, <3>3, <3>4 DEF Promise!Pay, Promise!Honour
    <3> QED
      BY <3>5 DEF Promise!Next
  <2>4. CASE s # "success"
    BY <1>l, <1>p, <2>1, <2>2, <2>4 DEF ApplyStatus, grants
  <2> QED
    BY <2>3, <2>4
<1>1. ASSUME NEW r \in Requests, NEW b \in Baskets, StartPurchase(r, b) PROVE Goal
  <2>1. \A x \in Orders : PhaseOf(x)' = PhaseOf(x)
    BY <1>1 DEF StartPurchase, Swept, Expired, PhaseOf, HInv, TypeOK, OrderRow
  <2> QED
    BY <1>t, <1>1, <2>1 DEF StartPurchase, grants, gateway
<1>2. ASSUME NEW r \in Requests, PendingOrderForItem(r) PROVE Goal
  BY <1>t, <1>2 DEF PendingOrderForItem, PhaseOf, grants, gateway
<1>3. ASSUME NEW r \in Requests, NEW o \in Orders, CreateOrder(r, o) PROVE Goal
  <2> DEFINE b == req[r].basket
               t == <<b.user, b.item>>
  <2>1. b \in Baskets /\ b.item \notin FreeCourses
    BY <1>3 DEF CreateOrder, HInv, RequestsSound, BuyingSteps
  <2>2. /\ orders'[o] = NewRow(b) /\ orders[o].status = "absent"
        /\ \A x \in Orders \ {o} : orders'[x] = orders[x]
        /\ reported' = reported
    BY <1>3 DEF CreateOrder, gateway, HInv, TypeOK
  <2>3. \A x \in Orders \ {o} : Earned(x)' <=> Earned(x)
    BY <2>2 DEF Earned, BasketOf
  <2>4. /\ t \in (Users \cup {None}) \X (Items \cup {None})
        /\ t \in Users \X Courses <=> b.item \in Courses
    BY <2>1, BasketTypes
  <2>5. seats' = [seats EXCEPT ![o] = t]
    <3>1. Seat(o)' = t
      BY <2>1, <2>2, BasketTypes DEF Seat
    <3>2. \A x \in Orders \ {o} : Seat(x)' = Seat(x)
      BY <2>2 DEF Seat
    <3> QED
      BY <3>1, <3>2
  <2>6. earnedNow' \in {earnedNow, earnedNow \cup {o}}
    BY <2>2, <2>3
  <2>7. phases[o] = "none"
    BY <2>2 DEF PhaseOf
  <2>8. CASE InitialStatus(b) = "success"
    <3>1. phases' = [phases EXCEPT ![o] = "paid"]
      <4>1. orders'[o].status = "success"
        BY <2>1, <2>2, <2>8, BasketTypes, InitialStatusType
      <4>2. PhaseOf(o)' = "paid"
        BY <4>1 DEF PhaseOf
      <4>3. \A x \in Orders \ {o} : PhaseOf(x)' = PhaseOf(x)
        BY <2>2 DEF PhaseOf
      <4> QED
        BY <4>2, <4>3
    <3>2. b = [user |-> NewRow(b).user, item |-> NewRow(b).item, coupon |-> NewRow(b).coupon]
      BY <2>1, CatalogueAssumption DEF Basket, NewRow
    <3>3. o \in earnedNow'
      BY <2>1, <2>2, <2>8, <3>2, BasketTypes DEF Earned, BasketOf
    <3>4. FulfillSuccessfulOrder(o, NewRow(b)) /\ EnsureInvoice(o)
      BY <1>3, <2>8 DEF CreateOrder
    <3>5. /\ invoices' = invoices \cup {o}
          /\ enrolled' = enrolled \cup ({t} \cap (Users \X Courses))
      BY <2>1, <2>4, <3>4, BasketTypes DEF FulfillSuccessfulOrder, EnsureInvoice
    <3> QED
      BY <1>q, <2>4, <2>5, <2>6, <2>7, <3>1, <3>3, <3>5
  <2>9. CASE InitialStatus(b) # "success"
    <3>1. phases' = [phases EXCEPT ![o] = "unpaid"]
      <4>1. orders'[o].status = "pending"
        BY <2>1, <2>2, <2>9, BasketTypes, InitialStatusType
      <4>2. PhaseOf(o)' = "unpaid"
        BY <4>1 DEF PhaseOf
      <4>3. \A x \in Orders \ {o} : PhaseOf(x)' = PhaseOf(x)
        BY <2>2 DEF PhaseOf
      <4> QED
        BY <4>2, <4>3
    <3>2. invoices' = invoices /\ enrolled' = enrolled
      BY <1>3, <2>9 DEF CreateOrder, grants
    <3> QED
      BY <1>q, <2>4, <2>5, <2>6, <2>7, <3>1, <3>2
  <2> QED
    BY <2>8, <2>9
<1>4. ASSUME NEW r \in Requests, EnrollFree(r) PROVE Goal
  <2> DEFINE s == <<req[r].basket.user, req[r].basket.item>>
  <2>1. s \in Users \X FreeCourses
    BY <1>4, BasketTypes DEF EnrollFree, HInv, RequestsSound, FreeSteps
  <2>2. enrolled' = enrolled \cup {s} /\ UNCHANGED <<invoices, reported>>
    BY <1>4 DEF EnrollFree, gateway
  <2>3. /\ phases' = phases /\ seats' = seats /\ earnedNow' = earnedNow
    BY <1>m, <1>4, <2>2 DEF EnrollFree, PhaseOf
  <2>4. Promise!GiveFree(s)
    BY <2>1, <2>2, <2>3 DEF Promise!GiveFree
  <2> QED
    BY <2>1, <2>4 DEF Promise!Next
<1>5. ASSUME NEW r \in Requests, AwardFreeXP(r) PROVE Goal
  BY <1>t, <1>5 DEF AwardFreeXP, PhaseOf, grants, gateway
<1>6. ASSUME NEW r \in Requests, NEW o \in Orders, StartCancel(r, o) PROVE Goal
  BY <1>t, <1>6 DEF StartCancel, PhaseOf, grants, gateway
<1>7. ASSUME NEW r \in Requests, CancelWrite(r) PROVE Goal
  <2> DEFINE o == req[r].order
  <2>1. /\ o \in Orders /\ orders[o].status # "absent"
        /\ orders'[o].status = "cancelled"
        /\ \A x \in Orders \ {o} : orders'[x] = orders[x]
    BY <1>7 DEF CancelWrite, HInv, TypeOK, OrderRow, RequestsSound, OrderSteps
  <2> QED
    BY <1>l, <1>7, <2>1 DEF CancelWrite, grants, gateway
<1>8. ASSUME NEW r \in Requests, NEW o \in Orders, StartPay(r, o) PROVE Goal
  <2>1. \A x \in Orders : PhaseOf(x)' = PhaseOf(x)
    BY <1>8 DEF StartPay, Swept, Expired, PhaseOf, HInv, TypeOK, OrderRow
  <2> QED
    BY <1>t, <1>8, <2>1 DEF StartPay, grants, gateway
<1>9. ASSUME NEW r \in Requests, PayRead(r) PROVE Goal
  BY <1>t, <1>9 DEF PayRead, PhaseOf, grants, gateway
<1>10. ASSUME NEW r \in Requests, PayExpire(r) PROVE Goal
  <2> DEFINE o == req[r].order
  <2>1. /\ o \in Orders /\ orders[o].status # "absent"
        /\ orders'[o].status = "cancelled"
        /\ \A x \in Orders \ {o} : orders'[x] = orders[x]
    BY <1>10 DEF PayExpire, HInv, TypeOK, OrderRow, RequestsSound, OrderSteps
  <2> QED
    BY <1>l, <1>10, <2>1 DEF PayExpire, grants, gateway
<1>11. ASSUME NEW r \in Requests, CreateSnapToken(r) PROVE Goal
  BY <1>t, <1>11 DEF CreateSnapToken, PhaseOf, grants, gateway
<1>12. ASSUME NEW r \in Requests, SaveToken(r) PROVE Goal
  <2>1. \A x \in Orders : PhaseOf(x)' = PhaseOf(x)
    BY <1>12 DEF SaveToken, PhaseOf, HInv, TypeOK, OrderRow, RequestsSound, OrderSteps
  <2> QED
    BY <1>t, <1>12, <2>1 DEF SaveToken, grants, gateway
<1>13. ASSUME NEW r \in Requests, NEW o \in Orders, StartSync(r, o) PROVE Goal
  BY <1>t, <1>13 DEF StartSync, PhaseOf, grants, gateway
<1>14. ASSUME NEW r \in Requests, AskGateway(r) PROVE Goal
  BY <1>t, <1>14 DEF AskGateway, PhaseOf, grants, gateway
<1>15. ASSUME NEW r \in Requests, SyncApply(r) PROVE Goal
  <2> DEFINE o == req[r].order
  <2>1. /\ o \in Orders /\ orders[o].status # "absent"
        /\ req[r].answer \in reported[o]
    BY <1>15 DEF SyncApply, HInv, RequestsSound, OrderSteps
  <2> QED
    BY <1>p, <1>15, <2>1, MapTypes DEF SyncApply, gateway
<1>16. ASSUME NEW r \in Requests, GiveUp(r) PROVE Goal
  BY <1>t, <1>16 DEF GiveUp, PhaseOf, grants, gateway
<1>17. ASSUME NEW o \in Orders, NEW g \in GatewayStatuses, HandleMidtransWebhook(o, g) PROVE Goal
  BY <1>p, <1>17, MapTypes DEF HandleMidtransWebhook, gateway
<1>18. ASSUME CancelExpiredPendingOrders PROVE Goal
  <2>1. \A x \in Orders : PhaseOf(x)' = PhaseOf(x)
    BY <1>18 DEF CancelExpiredPendingOrders, Swept, Expired, PhaseOf, HInv, TypeOK, OrderRow
  <2> QED
    BY <1>t, <1>18, <2>1 DEF CancelExpiredPendingOrders, grants, gateway
<1>19. ASSUME NEW p \in Reconcilers, DeleteUnpaidUsages(p) PROVE Goal
  BY <1>t, <1>19 DEF DeleteUnpaidUsages, PhaseOf, grants, gateway
<1>20. ASSUME NEW p \in Reconcilers, ZeroCounts(p) PROVE Goal
  BY <1>t, <1>20 DEF ZeroCounts, PhaseOf, grants, gateway
<1>21. ASSUME NEW p \in Reconcilers, CountUsages(p) PROVE Goal
  BY <1>t, <1>21 DEF CountUsages, PhaseOf, grants, gateway
<1>22. ASSUME NEW p \in Reconcilers, NEW c \in Coupons, WriteCount(p, c) PROVE Goal
  BY <1>t, <1>22 DEF WriteCount, PhaseOf, grants, gateway
<1>23. ASSUME NEW p \in Reconcilers, ReconcileDone(p) PROVE Goal
  BY <1>t, <1>23 DEF ReconcileDone, PhaseOf, grants, gateway
<1>24. ASSUME NEW a \in Admins, ListCoupons(a) PROVE Goal
  BY <1>t, <1>24 DEF ListCoupons, PhaseOf, grants, gateway
<1>25. ASSUME NEW a \in Admins, AbandonReconcile(a) PROVE Goal
  BY <1>t, <1>25 DEF AbandonReconcile, PhaseOf, grants, gateway
<1>26. ASSUME NEW c \in Coupons, NEW from, NEW n \in Nat, SaveCoupon(c, from, n) PROVE Goal
  BY <1>t, <1>26 DEF SaveCoupon, PhaseOf, grants, gateway
<1>27. ASSUME NEW c \in Coupons, DeleteCoupon(c) PROVE Goal
  BY <1>t, <1>27 DEF DeleteCoupon, PhaseOf, grants, gateway
<1>28. ASSUME NEW o \in Orders, WindowPasses(o) PROVE Goal
  <2>1. \A x \in Orders : PhaseOf(x)' = PhaseOf(x)
    BY <1>28 DEF WindowPasses, PhaseOf, HInv, TypeOK, OrderRow, RequestsSound, OrderSteps
  <2> QED
    BY <1>t, <1>28, <2>1 DEF WindowPasses, grants, gateway
<1>29. ASSUME NEW o \in Orders, NEW g \in GatewayStatuses, PaymentMoves(o, g) PROVE Goal
  <2>1. /\ orders' = orders /\ invoices' = invoices /\ enrolled' = enrolled
        /\ \A x \in Orders \ {o} : reported'[x] = reported[x]
        /\ reported[o] \subseteq reported'[o]
    BY <1>29 DEF PaymentMoves, grants, HInv, TypeOK
  <2>2. phases' = phases /\ seats' = seats
    BY <2>1 DEF PhaseOf, Seat
  <2>3. \A x \in Orders \ {o} : Earned(x)' <=> Earned(x)
    BY <2>1 DEF Earned, BasketOf
  <2>4. Earned(o) => Earned(o)'
    BY <2>1 DEF Earned, BasketOf
  <2>5. CASE orders[o].status # "absent" /\ Earned(o)'
    <3>1. earnedNow' = earnedNow \cup {o}
      BY <2>1, <2>3, <2>5
    <3>2. phases[o] # "none"
      BY <2>5 DEF PhaseOf
    <3>3. Promise!TakeMoney(o)
      BY <2>1, <2>2, <3>1, <3>2 DEF Promise!TakeMoney
    <3> QED
      BY <3>3 DEF Promise!Next
  <2>6. CASE ~(orders[o].status # "absent" /\ Earned(o)')
    <3>1. earnedNow' = earnedNow
      BY <2>1, <2>3, <2>4, <2>6
    <3> QED
      BY <2>1, <2>2, <3>1 DEF Promise!vars
  <2> QED
    BY <2>5, <2>6
<1>30. ASSUME Crash PROVE Goal
  BY <1>t, <1>30 DEF Crash, PhaseOf, grants, gateway
<1>31. CASE UNCHANGED vars
  BY <1>t, <1>31 DEF vars, PhaseOf, grants, gateway
<1>32. ASSUME NEW o \in Orders, GetOrderInvoice(o) PROVE Goal
  BY <1>t, <1>32 DEF GetOrderInvoice, EnsureInvoice, PaidIsFulfilled, PhaseOf, grants, gateway
<1> QED
  BY <1>1, <1>2, <1>3, <1>4, <1>5, <1>6, <1>7, <1>8, <1>9, <1>10, <1>11, <1>12, <1>13, <1>14, <1>15, <1>16, <1>17, <1>18, <1>19, <1>20, <1>21, <1>22, <1>23, <1>24, <1>25, <1>26, <1>27, <1>28, <1>29, <1>30, <1>31, <1>32, SaveCoupons
  DEF Next, Purchase, Cancel, Pay, Sync, ReconcileStep, AdminPage, Environment

\* Whatever the interleaving, an order is paid only once it has been earned,
\* is honoured in the step that makes it paid, and what it gave stays given.
THEOREM Implements == Spec => ImplementsEntitlement
<1>1. ASSUME Init PROVE Promise!Init
  BY <1>1 DEF Init, NoRow, Promise!Init, PhaseOf, Seat
<1> QED
  BY <1>1, PromiseStep, HandlersSound, Fulfilled, PTL DEF Spec, ImplementsEntitlement, Promise!Spec
-----------------------------------------------------------------------------
(* The counter of a coupon's uses. *)

\* A use is of an order that was placed, whose coupon is known for good.
UsagesPlaced == \A o \in usages : orders[o].status # "absent"

\* Before the server is up nobody works but the reconciliation of the start;
\* from then until an admin asks for the coupons nobody reconciles.
Undisturbed ==
  /\ ~touched => \A a \in Admins : rec[a].pc = "idle"
  /\ ~up => ~touched /\ \A r \in Requests : req[r].pc = "idle"
  /\ up => rec[Boot].pc = "idle"

\* What the start's reconciliation has established at each of its statements.
BootCounts == ~up =>
  /\ rec[Boot].pc \in {"zero", "count", "write"} =>
       \A o \in usages : orders[o].status = "success"
  /\ rec[Boot].pc = "count" =>
       \A c \in Coupons : couponRow[c].state = "live" => couponRow[c].used = 0
  /\ rec[Boot].pc = "write" => \A c \in Coupons :
       /\ rec[Boot].rows[c] \in {0, Cardinality(UsedBy(c))}
       /\ couponRow[c].state = "live" /\ rec[Boot].rows[c] = 0 =>
            couponRow[c].used = Cardinality(UsedBy(c))

CInv == UsagesPlaced /\ Undisturbed /\ BootCounts /\ CounterExact

\* The orders that use a coupon are finitely many.
LEMMA UsersFinite ==
  ASSUME TypeOK, NEW c
  PROVE  IsFiniteSet(UsedBy(c)) /\ Cardinality(UsedBy(c)) \in Nat
BY ActorAssumption, FS_Subset, FS_CardinalityType DEF TypeOK, UsedBy

\* A step that changes neither a use, nor a coupon, nor what an order is for leaves the
\* counts as they are.
LEMMA CountsStay ==
  ASSUME HInv, CInv, UNCHANGED <<usages, couponRow, up, touched>>,
         \A o \in Orders : Kept(o) \/ Placed(o)
  PROVE  /\ UsagesPlaced'
         /\ \A c : UsedBy(c)' = UsedBy(c)
         /\ CounterExact'
<1>1. \A o \in usages : Kept(o)
  BY DEF CInv, UsagesPlaced, Placed, HInv, TypeOK
<1>2. \A c : UsedBy(c)' = UsedBy(c)
  BY <1>1 DEF UsedBy, Kept
<1> QED
  BY <1>1, <1>2 DEF CInv, UsagesPlaced, CounterExact, Kept

\* Fulfilling an order counts its use where the use is new, and nowhere else.
LEMMA FulfilCounts ==
  ASSUME HInv, CInv, up, NEW o \in Orders, NEW row \in OrderRow,
         FulfillSuccessfulOrder(o, row), UNCHANGED <<up, touched>>,
         orders'[o].status # "absent", orders'[o].coupon = row.coupon,
         \A x \in Orders : Kept(x) \/ Placed(x)
  PROVE  UsagesPlaced' /\ CounterExact'
<1>1. \A x \in usages : Kept(x)
  BY DEF CInv, UsagesPlaced, Placed, HInv, TypeOK
<1>2. UsagesPlaced'
  BY <1>1 DEF FulfillSuccessfulOrder, UsagesPlaced, CInv, Kept
<1>3. ASSUME NEW c \in Coupons, ~touched, couponRow'[c].state = "live"
      PROVE  couponRow'[c].used = Cardinality(UsedBy(c)')
  <2>1. couponRow[c].state = "live" /\ couponRow[c].used = Cardinality(UsedBy(c))
    BY <1>3 DEF FulfillSuccessfulOrder, CountUse, CInv, CounterExact, HInv, TypeOK, CouponRow
  <2>2. CASE row.coupon = c /\ o \notin usages
    <3>1. c # None
      BY ActorAssumption
    <3>2. UsedBy(c)' = UsedBy(c) \cup {o} /\ o \notin UsedBy(c)
      BY <1>1, <2>2, <3>1 DEF FulfillSuccessfulOrder, UsedBy, Kept
    <3>3. Cardinality(UsedBy(c) \cup {o}) = Cardinality(UsedBy(c)) + 1
      BY <3>2, UsersFinite, FS_AddElement DEF HInv
    <3>4. couponRow'[c].used = couponRow[c].used + 1
      BY <2>1, <2>2, <3>1 DEF FulfillSuccessfulOrder, CountUse, HInv, TypeOK, CouponRow
    <3> QED
      BY <2>1, <3>2, <3>3, <3>4
  <2>3. CASE ~(row.coupon = c /\ o \notin usages)
    <3>1. UsedBy(c)' = UsedBy(c)
      BY <1>1, <2>3 DEF FulfillSuccessfulOrder, UsedBy, Kept
    <3>2. couponRow'[c].used = couponRow[c].used
      BY <2>3 DEF FulfillSuccessfulOrder, CountUse, HInv, TypeOK, CouponRow
    <3> QED
      BY <2>1, <3>1, <3>2
  <2> QED
    BY <2>2, <2>3
<1> QED
  BY <1>2, <1>3 DEF CounterExact

\* Every step keeps what the counter rests on.
LEMMA CountStep ==
  ASSUME HInv, CInv, [Next]_vars PROVE CInv'
<1>p. \A o \in Orders : Kept(o) \/ Placed(o)
  BY OrdersPersist
<1>q. Boot \in Reconcilers /\ Boot \notin Admins /\ Admins \subseteq Reconcilers
  BY ReconcileTypes, ActorAssumption
<1>a. ASSUME up, UNCHANGED <<usages, couponRow, rec, up, touched>> PROVE CInv'
  BY <1>a, <1>p, CountsStay DEF CInv, Undisturbed, BootCounts
<1>b. ASSUME UNCHANGED <<usages, couponRow, rec, up, touched, req>>,
             \A o \in Orders : orders'[o].status = orders[o].status
      PROVE CInv'
  <2>1. UsagesPlaced' /\ CounterExact' /\ \A c \in Coupons : UsedBy(c)' = UsedBy(c)
    BY <1>b, <1>p, CountsStay
  <2>2. usages \subseteq Orders
    BY DEF HInv, TypeOK
  <2>3. BootCounts'
    BY <1>b, <2>1, <2>2 DEF CInv, BootCounts
  <2> QED
    BY <1>b, <2>1, <2>3 DEF CInv, Undisturbed
<1>c. ASSUME NEW o \in Orders, NEW row \in OrderRow, up, FulfillSuccessfulOrder(o, row),
             UNCHANGED <<rec, up, touched>>,
             orders'[o].status # "absent", orders'[o].coupon = row.coupon
      PROVE CInv'
  BY <1>c, <1>p, FulfilCounts DEF CInv, Undisturbed, BootCounts
<1>d. ASSUME NEW o \in Orders, orders[o].status # "absent", NEW s, s # "absent", ApplyStatus(o, s),
             up, UNCHANGED <<rec, up, touched>>
      PROVE  CInv'
  <2>1. /\ orders[o] \in OrderRow /\ orders'[o].coupon = orders[o].coupon
        /\ orders'[o].status = s
    BY <1>d DEF ApplyStatus, HInv, TypeOK, OrderRow
  <2>2. CASE s = "success"
    BY <1>c, <1>d, <2>1, <2>2 DEF ApplyStatus
  <2>3. CASE s # "success"
    BY <1>a, <1>d, <2>3 DEF ApplyStatus, grants
  <2> QED
    BY <2>2, <2>3
<1>e. ASSUME NEW r \in Requests, req[r].pc # "idle" PROVE up
  BY <1>e DEF CInv, Undisturbed
<1>1. ASSUME NEW r \in Requests, NEW b \in Baskets, StartPurchase(r, b) PROVE CInv'
  BY <1>a, <1>1 DEF StartPurchase, grants, process
<1>2. ASSUME NEW r \in Requests, PendingOrderForItem(r) PROVE CInv'
  BY <1>a, <1>e, <1>2 DEF PendingOrderForItem, grants, process
<1>3. ASSUME NEW r \in Requests, NEW o \in Orders, CreateOrder(r, o) PROVE CInv'
  <2> DEFINE b == req[r].basket
  <2>1. b \in Baskets /\ b.item \notin FreeCourses
    BY <1>3 DEF CreateOrder, HInv, RequestsSound, BuyingSteps
  <2>2. /\ orders'[o] = NewRow(b) /\ NewRow(b) \in OrderRow /\ NewRow(b).status # "absent"
    BY <1>3, <2>1, BasketTypes DEF CreateOrder, HInv, TypeOK
  <2>3. up /\ UNCHANGED <<rec, up, touched>>
    BY <1>3, <1>e DEF CreateOrder, process
  <2>4. CASE InitialStatus(b) = "success"
    BY <1>c, <1>3, <2>2, <2>3, <2>4 DEF CreateOrder
  <2>5. CASE InitialStatus(b) # "success"
    BY <1>a, <1>3, <2>3, <2>5 DEF CreateOrder, grants
  <2> QED
    BY <2>4, <2>5
<1>4. ASSUME NEW r \in Requests, EnrollFree(r) PROVE CInv'
  BY <1>a, <1>e, <1>4 DEF EnrollFree, process
<1>5. ASSUME NEW r \in Requests, AwardFreeXP(r) PROVE CInv'
  BY <1>a, <1>e, <1>5 DEF AwardFreeXP, process
<1>6. ASSUME NEW r \in Requests, NEW o \in Orders, StartCancel(r, o) PROVE CInv'
  BY <1>a, <1>6 DEF StartCancel, grants, process
<1>7. ASSUME NEW r \in Requests, CancelWrite(r) PROVE CInv'
  BY <1>a, <1>e, <1>7 DEF CancelWrite, grants, process
<1>8. ASSUME NEW r \in Requests, NEW o \in Orders, StartPay(r, o) PROVE CInv'
  BY <1>a, <1>8 DEF StartPay, grants, process
<1>9. ASSUME NEW r \in Requests, PayRead(r) PROVE CInv'
  BY <1>a, <1>e, <1>9 DEF PayRead, grants, process
<1>10. ASSUME NEW r \in Requests, PayExpire(r) PROVE CInv'
  BY <1>a, <1>e, <1>10 DEF PayExpire, grants, process
<1>11. ASSUME NEW r \in Requests, CreateSnapToken(r) PROVE CInv'
  BY <1>a, <1>e, <1>11 DEF CreateSnapToken, grants, process
<1>12. ASSUME NEW r \in Requests, SaveToken(r) PROVE CInv'
  BY <1>a, <1>e, <1>12 DEF SaveToken, grants, process
<1>13. ASSUME NEW r \in Requests, NEW o \in Orders, StartSync(r, o) PROVE CInv'
  BY <1>a, <1>13 DEF StartSync, grants, process
<1>14. ASSUME NEW r \in Requests, AskGateway(r) PROVE CInv'
  BY <1>a, <1>e, <1>14 DEF AskGateway, grants, process
<1>15. ASSUME NEW r \in Requests, SyncApply(r) PROVE CInv'
  <2>1. req[r].order \in Orders /\ orders[req[r].order].status # "absent"
    BY <1>15 DEF SyncApply, HInv, RequestsSound, OrderSteps
  <2>2. up /\ UNCHANGED <<rec, up, touched>>
    BY <1>15, <1>e DEF SyncApply, process
  <2> QED
    BY <1>d, <1>15, <2>1, <2>2, MapTypes DEF SyncApply
<1>16. ASSUME NEW r \in Requests, GiveUp(r) PROVE CInv'
  BY <1>a, <1>e, <1>16 DEF GiveUp, grants, process
<1>17. ASSUME NEW o \in Orders, NEW g \in GatewayStatuses, HandleMidtransWebhook(o, g) PROVE CInv'
  BY <1>d, <1>17, MapTypes DEF HandleMidtransWebhook, process
<1>18. ASSUME CancelExpiredPendingOrders PROVE CInv'
  BY <1>a, <1>18 DEF CancelExpiredPendingOrders, grants, process
<1>19. ASSUME NEW p \in Reconcilers, DeleteUnpaidUsages(p) PROVE CInv'
  <2>1. UsagesPlaced' /\ Undisturbed'
    BY <1>19, <1>q, ReconcileTypes DEF DeleteUnpaidUsages, Reconciling, CInv, UsagesPlaced, Undisturbed, HInv, TypeOK
  <2>2. up => touched
    BY <1>19 DEF DeleteUnpaidUsages, Reconciling, CInv, Undisturbed, Reconcilers
  <2>3. ~up => p = Boot
    BY <1>19 DEF DeleteUnpaidUsages, Reconciling, CInv, Undisturbed, Reconcilers
  <2>4. BootCounts'
    BY <1>19, <2>3, <1>q, ReconcileTypes DEF DeleteUnpaidUsages, BootCounts, HInv, TypeOK
  <2> QED
    BY <1>19, <2>1, <2>2, <2>4 DEF DeleteUnpaidUsages, CInv, CounterExact
<1>20. ASSUME NEW p \in Reconcilers, ZeroCounts(p) PROVE CInv'
  <2>1. UsagesPlaced' /\ Undisturbed'
    BY <1>20, <1>q, ReconcileTypes DEF ZeroCounts, Reconciling, CInv, UsagesPlaced, Undisturbed, HInv, TypeOK
  <2>2. /\ up => touched
        /\ ~up => p = Boot
    BY <1>20 DEF ZeroCounts, Reconciling, CInv, Undisturbed, Reconcilers
  <2>3. ASSUME NEW c \in Coupons, couponRow'[c].state = "live" PROVE couponRow'[c].used = 0
    BY <1>20, <2>3 DEF ZeroCounts, HInv, TypeOK, CouponRow
  <2>4. ~up => rec'[Boot].pc = "count" /\ \A o \in usages : orders[o].status = "success"
    BY <1>20, <2>2, <1>q, ReconcileTypes DEF ZeroCounts, Reconciling, CInv, BootCounts, HInv, TypeOK
  <2>5. BootCounts'
    BY <1>20, <2>3, <2>4 DEF ZeroCounts, BootCounts
  <2> QED
    BY <1>20, <2>1, <2>2, <2>5 DEF ZeroCounts, CInv, CounterExact
<1>21. ASSUME NEW p \in Reconcilers, CountUsages(p) PROVE CInv'
  <2>1. UsagesPlaced' /\ Undisturbed'
    BY <1>21, <1>q DEF CountUsages, Reconciling, CInv, UsagesPlaced, Undisturbed, HInv, TypeOK, grants
  <2>2. /\ up => touched
        /\ ~up => p = Boot
    BY <1>21 DEF CountUsages, Reconciling, CInv, Undisturbed, Reconcilers
  <2>3. ASSUME NEW c \in Coupons, ~up
        PROVE  /\ rec'[Boot].rows[c] = Cardinality(UsedBy(c))
               /\ couponRow[c].state = "live" => couponRow[c].used = 0
    <3>1. PaidUsesOf(c) = UsedBy(c)
      BY <1>21, <2>2, <2>3 DEF CountUsages, Reconciling, CInv, BootCounts, PaidUsesOf, UsedBy
    <3> QED
      BY <1>21, <1>q, <2>2, <2>3, <3>1 DEF CountUsages, Reconciling, CInv, BootCounts, HInv, TypeOK
  <2>4. ~up => rec'[Boot].pc = "write" /\ \A o \in usages : orders[o].status = "success"
    BY <1>21, <2>2, <1>q DEF CountUsages, Reconciling, CInv, BootCounts, HInv, TypeOK
  <2>5. \A c : UsedBy(c)' = UsedBy(c)
    BY <1>21 DEF CountUsages, UsedBy, grants
  <2>6. BootCounts'
    BY <1>21, <2>3, <2>4, <2>5 DEF CountUsages, BootCounts, grants
  <2> QED
    BY <1>21, <2>1, <2>2, <2>6 DEF CountUsages, CInv, CounterExact
<1>22. ASSUME NEW p \in Reconcilers, NEW c \in Coupons, WriteCount(p, c) PROVE CInv'
  <2>0. rec[p].rows[c] \in Nat
    BY DEF HInv, TypeOK, Reconcile
  <2>1. UsagesPlaced' /\ Undisturbed'
    BY <1>22, <1>q DEF WriteCount, Reconciling, CInv, UsagesPlaced, Undisturbed, HInv, TypeOK, Reconcile
  <2>2. /\ up => touched
        /\ ~up => p = Boot
    BY <1>22 DEF WriteCount, Reconciling, CInv, Undisturbed, Reconcilers
  <2>3. \A x : UsedBy(x)' = UsedBy(x)
    BY <1>22 DEF WriteCount, UsedBy
  <2>4. ASSUME ~up PROVE BootCounts'
    <3>1. /\ rec'[Boot].pc = "write" /\ rec[Boot].pc = "write"
          /\ rec'[Boot].rows[c] = 0
          /\ \A x \in Coupons \ {c} : rec'[Boot].rows[x] = rec[Boot].rows[x]
      BY <1>22, <2>2, <2>4, <1>q DEF WriteCount, Reconciling, HInv, TypeOK, Reconcile
    <3>2. rec[Boot].rows[c] = Cardinality(UsedBy(c))
      BY <1>22, <2>0, <2>2, <2>4, <3>1 DEF WriteCount, CInv, BootCounts
    <3>3. /\ couponRow'[c].state = "live" => couponRow'[c].used = Cardinality(UsedBy(c))
          /\ \A x \in Coupons \ {c} : couponRow'[x] = couponRow[x]
      BY <1>22, <2>2, <2>4, <3>2 DEF WriteCount, HInv, TypeOK, CouponRow
    <3>4. \A o \in usages : orders[o].status = "success"
      BY <2>4, <3>1 DEF CInv, BootCounts
    <3> QED
      BY <1>22, <2>3, <2>4, <3>1, <3>3, <3>4 DEF WriteCount, CInv, BootCounts
  <2>5. BootCounts'
    BY <1>22, <2>4 DEF WriteCount, BootCounts
  <2> QED
    BY <1>22, <2>1, <2>2, <2>5 DEF WriteCount, CInv, CounterExact
<1>23. ASSUME NEW p \in Reconcilers, ReconcileDone(p) PROVE CInv'
  <2>1. /\ up => touched
        /\ ~up => p = Boot /\ ~touched
    BY <1>23 DEF ReconcileDone, Reconciling, CInv, Undisturbed, Reconcilers
  <2>2. UsagesPlaced' /\ Undisturbed' /\ up'
    BY <1>23, <1>q, <2>1, ReconcileTypes DEF ReconcileDone, Reconciling, CInv, UsagesPlaced, Undisturbed, HInv, TypeOK, grants
  <2>3. \A x : UsedBy(x)' = UsedBy(x)
    BY <1>23 DEF ReconcileDone, UsedBy, grants
  <2>4. ASSUME ~up, NEW c \in Coupons, couponRow[c].state = "live"
        PROVE  couponRow[c].used = Cardinality(UsedBy(c))
    BY <1>23, <2>1, <2>4 DEF ReconcileDone, Reconciling, NoRows, CInv, BootCounts
  <2>5. CounterExact'
    BY <1>23, <2>1, <2>3, <2>4 DEF ReconcileDone, CounterExact, grants
  <2> QED
    BY <2>2, <2>5 DEF CInv, BootCounts
<1>24. ASSUME NEW a \in Admins, ListCoupons(a) PROVE CInv'
  BY <1>24, <1>q DEF ListCoupons, CInv, UsagesPlaced, Undisturbed, BootCounts, CounterExact, HInv, TypeOK, grants
<1>25. ASSUME NEW a \in Admins, AbandonReconcile(a) PROVE CInv'
  <2>1. up /\ touched
    BY <1>25 DEF AbandonReconcile, Reconciling, CInv, Undisturbed
  <2> QED
    BY <1>25, <1>q, <2>1 DEF AbandonReconcile, CInv, UsagesPlaced, Undisturbed, BootCounts, CounterExact, HInv, TypeOK, grants
<1>26. ASSUME NEW c \in Coupons, NEW from, NEW n \in Nat, SaveCoupon(c, from, n) PROVE CInv'
  BY <1>26 DEF SaveCoupon, CInv, UsagesPlaced, Undisturbed, BootCounts, CounterExact
<1>27. ASSUME NEW c \in Coupons, DeleteCoupon(c) PROVE CInv'
  BY <1>27 DEF DeleteCoupon, CInv, UsagesPlaced, Undisturbed, BootCounts, CounterExact
<1>28. ASSUME NEW o \in Orders, WindowPasses(o) PROVE CInv'
  BY <1>b, <1>28 DEF WindowPasses, HInv, TypeOK, OrderRow, grants, process
<1>29. ASSUME NEW o \in Orders, NEW g \in GatewayStatuses, PaymentMoves(o, g) PROVE CInv'
  BY <1>b, <1>29 DEF PaymentMoves, grants, process
<1>30. ASSUME Crash PROVE CInv'
  BY <1>30, <1>q, RequestTypes, ReconcileTypes DEF Crash, CInv, UsagesPlaced, Undisturbed, BootCounts, CounterExact, grants
<1>31. CASE UNCHANGED vars
  BY <1>b, <1>31 DEF vars, grants, process
<1>32. ASSUME NEW o \in Orders, GetOrderInvoice(o) PROVE CInv'
  BY <1>b, <1>32 DEF GetOrderInvoice, process
<1> QED
  BY <1>1, <1>2, <1>3, <1>4, <1>5, <1>6, <1>7, <1>8, <1>9, <1>10, <1>11, <1>12, <1>13, <1>14, <1>15, <1>16, <1>17, <1>18, <1>19, <1>20, <1>21, <1>22, <1>23, <1>24, <1>25, <1>26, <1>27, <1>28, <1>29, <1>30, <1>31, <1>32, SaveCoupons
  DEF Next, Purchase, Cancel, Pay, Sync, ReconcileStep, AdminPage, Environment

\* From the end of any start-up to the next admin coupon request, used_count is the
\* number of a coupon's uses, however notifications repeat, orders are downgraded and
\* succeed again, and whatever an earlier process has left behind.
THEOREM CounterIsExact == Spec => []CounterExact
<1>1. ASSUME Init PROVE CInv
  BY <1>1, RequestTypes, ReconcileTypes, ActorAssumption
  DEF Init, CInv, UsagesPlaced, Undisturbed, BootCounts, CounterExact, Reconcilers
<1>2. ASSUME HInv, CInv, [Next]_vars PROVE CInv'
  BY <1>2, CountStep
<1>3. CInv => CounterExact
  BY DEF CInv
<1> QED
  BY <1>1, <1>2, <1>3, HandlersSound, PTL DEF Spec

=============================================================================
