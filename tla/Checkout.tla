------------------------------ MODULE Checkout ------------------------------
(***************************************************************************)
(* Orders, payments, coupons and what a paid order grants.                 *)
(*                                                                         *)
(* The rows of the database are the state; a request handler is a process  *)
(* that keeps, between its statements, what it has read.  A statement, or  *)
(* a transaction whose first statement locks the order row, is one step;   *)
(* reads outside a transaction, calls to the payment gateway and the       *)
(* statements of ReconcileCouponUsageCounts are steps of their own.        *)
(***************************************************************************)
EXTENDS Integers, FiniteSets

CONSTANTS
  Users, Courses, Products,
  FreeCourses,        \* is_free, or a price of zero
  Coupons,
  Price,              \* Items -> Nat
  Discount,           \* Coupons -> [kind, value, scope, max]
  Orders,             \* the ids the orders table may hand out (bound)
  Baskets,            \* what purchase requests may ask for (bound)
  Requests,           \* request handlers that may be in flight (bound)
  Admins,             \* admins loading and editing the coupon page (bound)
  Boot,               \* the reconciliation that main() runs before serving
  GatewayConfigured,  \* MidtransServerKey # ""
  Emits,              \* the statuses the gateway may report (bound)
  Budget,             \* crashes and admin coupon requests in a behaviour (bound)
  None

Items == Courses \cup Products
Statuses == {"pending", "success", "cancelled", "failed"}
GatewayStatuses == {"pending", "capture", "challenge", "settlement", "cancel",
                    "expire", "deny", "failure", "refund"}
Basket == [user: Users, item: Items, coupon: Coupons \cup {None}]
DiscountRow == [kind: {"percent", "fixed"}, value: Nat,
                scope: {"all", "course", "product"}, max: Nat]
Reconcilers == Admins \cup {Boot}

ASSUME CatalogueAssumption ==
  /\ FreeCourses \subseteq Courses
  /\ Courses \cap Products = {}
  /\ Price \in [Items -> Nat]
  /\ Discount \in [Coupons -> DiscountRow]
  /\ Baskets \subseteq Basket
ASSUME ActorAssumption ==
  /\ Boot \notin Admins
  /\ None \notin Users \cup Items \cup Coupons \cup Orders \cup Baskets
  /\ IsFiniteSet(Orders)
  /\ GatewayConfigured \in BOOLEAN
  /\ Emits \subseteq GatewayStatuses
  /\ Budget \in Nat

VARIABLES
  orders,     \* the orders table, each with its one order_items row
  usages,     \* orders that have a coupon_usages row
  couponRow,  \* the coupons table
  enrolled,   \* course_enrollments: unique (user, course)
  xp,         \* xp_ledger rows for course_enrolled: unique (user, course)
  invoices,   \* orders that have an invoices row: unique order_id
  trx,        \* status of the order's transactions row
  gw,         \* the gateway's present status of the order's payment
  reported,   \* every status the gateway has reached, hence may notify
  req,        \* request handlers in flight
  rec,        \* coupon reconciliations in progress
  up,         \* the server accepts requests
  touched,    \* history: an admin coupon request since the process started
  budget      \* what is left of Budget

grants == <<usages, couponRow, enrolled, xp, invoices>>
gateway == <<gw, reported>>
process == <<rec, up, touched, budget>>
vars == <<orders, grants, trx, gateway, req, process>>

-----------------------------------------------------------------------------
(* Rows and process records. *)

OrderRow == [status: Statuses \cup {"absent"}, user: Users \cup {None},
             item: Items \cup {None}, coupon: Coupons \cup {None},
             expires: {"null", "open", "past"}]
NoRow == [status |-> "absent", user |-> None, item |-> None, coupon |-> None,
          expires |-> "null"]
CouponRow == [state: {"absent", "live", "deleted"}, used: Nat]

RequestSteps == {"idle", "priced", "looked", "enrolling", "rewarding",
                 "cancelling", "paying", "expiring", "tokening", "saving",
                 "syncing", "answered"}
Request == [pc: RequestSteps, basket: Baskets \cup {None},
            order: Orders \cup {None}, answer: GatewayStatuses \cup {None}]
Idle == [pc |-> "idle", basket |-> None, order |-> None, answer |-> None]
WithBasket(pc, b) == [Idle EXCEPT !.pc = pc, !.basket = b]
WithOrder(pc, o) == [Idle EXCEPT !.pc = pc, !.order = o]

Reconcile == [pc: {"idle", "delete", "zero", "count", "write"}, rows: [Coupons -> Nat]]
NoRows == [c \in Coupons |-> 0]
AtStep(pc) == [pc |-> pc, rows |-> NoRows]

TypeOK ==
  /\ orders \in [Orders -> OrderRow]
  /\ usages \subseteq Orders
  /\ couponRow \in [Coupons -> CouponRow]
  /\ enrolled \subseteq Users \X Courses
  /\ xp \subseteq Users \X Courses
  /\ invoices \subseteq Orders
  /\ trx \in [Orders -> Statuses \cup {None}]
  /\ gw \in [Orders -> GatewayStatuses \cup {"none", "token"}]
  /\ reported \in [Orders -> SUBSET GatewayStatuses]
  /\ req \in [Requests -> Request]
  /\ rec \in [Reconcilers -> Reconcile]
  /\ up \in BOOLEAN
  /\ touched \in BOOLEAN
  /\ budget \in 0 .. Budget

Init ==
  /\ orders = [o \in Orders |-> NoRow]
  /\ usages = {}
  /\ couponRow \in [Coupons -> [state: {"absent", "live"}, used: {0}]]
  /\ enrolled = {}
  /\ xp = {}
  /\ invoices = {}
  /\ trx = [o \in Orders |-> None]
  /\ gw = [o \in Orders |-> "none"]
  /\ reported = [o \in Orders |-> {}]
  /\ req = [r \in Requests |-> Idle]
  /\ rec = [p \in Reconcilers |-> AtStep(IF p = Boot THEN "delete" ELSE "idle")]
  /\ up = FALSE
  /\ touched = FALSE
  /\ budget = Budget

-----------------------------------------------------------------------------
(* Prices and coupons. *)

ScopeOf(item) == IF item \in Courses THEN "course" ELSE "product"

DiscountedAmount(price, d) ==
  LET next == IF d.kind = "percent" THEN price - ((price * d.value) \div 100)
                                    ELSE price - d.value
  IN  IF next < 0 THEN 0 ELSE next

Amount(b) == IF b.coupon = None THEN Price[b.item]
             ELSE DiscountedAmount(Price[b.item], Discount[b.coupon])

\* The expiry date of a coupon is not kept: a refusal has no effect, so a
\* purchase refused for it is a purchase that was not made.
CouponAdmits(b) ==
  b.coupon # None =>
    LET d == Discount[b.coupon]
        row == couponRow[b.coupon]
    IN  /\ row.state = "live"
        /\ ~ (d.max > 0 /\ row.used >= d.max)
        /\ d.scope \in {"all", ScopeOf(b.item)}

\* The status an order is created with.
InitialStatus(b) ==
  IF Amount(b) = 0 \/ ~GatewayConfigured THEN "success" ELSE "pending"

(* What a successful order grants, in the transaction that makes it so. *)

\* Faulty variant: a use is counted on every success, not on the first.
CountUseTwice(o, row) ==
  IF row.coupon # None /\ couponRow[row.coupon].state = "live"
  THEN [couponRow EXCEPT ![row.coupon].used = @ + 1]
  ELSE couponRow

CountUse(o, row) ==
  IF row.coupon # None /\ o \notin usages /\ couponRow[row.coupon].state = "live"
  THEN [couponRow EXCEPT ![row.coupon].used = @ + 1]
  ELSE couponRow

\* Faulty variant: an order with an invoice is taken to be fulfilled already.
FulfillOnce(o, row) ==
  IF o \in invoices THEN UNCHANGED <<usages, couponRow, enrolled, xp>>
  ELSE /\ usages' = IF row.coupon # None THEN usages \cup {o} ELSE usages
       /\ couponRow' = CountUse(o, row)
       /\ enrolled' = IF row.item \in Courses THEN enrolled \cup {<<row.user, row.item>>}
                      ELSE enrolled
       /\ xp' = IF row.item \in Courses THEN xp \cup {<<row.user, row.item>>} ELSE xp

FulfillSuccessfulOrder(o, row) ==
  LET seat == <<row.user, row.item>> IN
  /\ usages' = IF row.coupon # None THEN usages \cup {o} ELSE usages
  /\ couponRow' = CountUse(o, row)
  /\ enrolled' = IF row.item \in Courses THEN enrolled \cup {seat} ELSE enrolled
  /\ xp' = IF row.item \in Courses /\ seat \notin enrolled THEN xp \cup {seat} ELSE xp

EnsureInvoice(o) == invoices' = invoices \cup {o}

MapMidtransStatus(g) ==
  CASE g \in {"capture", "challenge", "settlement"} -> "success"
    [] g \in {"cancel", "expire"}                   -> "cancelled"
    [] g \in {"deny", "failure"}                    -> "failed"
    [] OTHER                                        -> "pending"

\* Only the status query looks at fraud_status.
MapQueriedStatus(g) == IF g = "challenge" THEN "pending" ELSE MapMidtransStatus(g)

\* Faulty variant: only an order that was pending is fulfilled.
ApplyStatusToPending(o, s) ==
  /\ orders' = [orders EXCEPT ![o].status = s]
  /\ trx' = [trx EXCEPT ![o] = s]
  /\ IF s = "success" /\ orders[o].status = "pending"
     THEN FulfillSuccessfulOrder(o, orders[o]) /\ EnsureInvoice(o)
     ELSE UNCHANGED grants

\* The transaction of the notification handler and of the status query: the
\* update of the order row, the upsert of the transactions row and, for a
\* success, everything the order grants.
ApplyStatus(o, s) ==
  /\ orders' = [orders EXCEPT ![o].status = s]
  /\ trx' = [trx EXCEPT ![o] = s]
  /\ IF s = "success"
     THEN FulfillSuccessfulOrder(o, orders[o]) /\ EnsureInvoice(o)
     ELSE UNCHANGED grants

Expired(o) == orders[o].status = "pending" /\ orders[o].expires = "past"

\* Faulty variant: the comparison of the sweep the wrong way round.
SweptTooSoon == [o \in Orders |->
  IF orders[o].status = "pending" /\ orders[o].expires = "open"
  THEN [orders[o] EXCEPT !.status = "cancelled"] ELSE orders[o]]

\* UPDATE ... WHERE status = 'pending' AND payment_expires_at < now
Swept == [o \in Orders |->
            IF Expired(o) THEN [orders[o] EXCEPT !.status = "cancelled"] ELSE orders[o]]

-----------------------------------------------------------------------------
(* The expiry sweep: every minute from main(), and before the list of      *)
(* transactions is read.                                                   *)

CancelExpiredPendingOrders ==
  /\ up
  /\ orders' = Swept
  /\ UNCHANGED <<grants, trx, gateway, req, process>>

-----------------------------------------------------------------------------
(* Buying: CreateProductPurchase and CreateCourseEnrollment. *)

NextStep(b) == IF b.item \in FreeCourses THEN "enrolling"
               ELSE IF b.coupon = None THEN "priced" ELSE "looked"

\* The sweep, the look at the enrollments and the coupon's checks.
StartPurchase(r, b) ==
  /\ up
  /\ req[r].pc = "idle"
  /\ orders' = Swept
  /\ req' = IF \/ <<b.user, b.item>> \in enrolled
               \/ b.item \notin FreeCourses /\ ~CouponAdmits(b)
            THEN req
            ELSE [req EXCEPT ![r] = WithBasket(NextStep(b), b)]
  /\ UNCHANGED <<grants, trx, gateway, process>>

\* A pending order for the item is offered again, unless a coupon is given:
\* that path ignores the answer and goes to "looked" at once.
PendingOrderForItem(r) ==
  LET b == req[r].basket
      found == \E o \in Orders : /\ orders[o].status = "pending"
                                 /\ orders[o].user = b.user
                                 /\ orders[o].item = b.item
  IN  /\ req[r].pc = "priced"
      /\ req' = [req EXCEPT ![r] = IF found THEN Idle ELSE WithBasket("looked", b)]
      /\ UNCHANGED <<orders, grants, trx, gateway, process>>

NewRow(b) == [status |-> InitialStatus(b), user |-> b.user, item |-> b.item,
              coupon |-> b.coupon, expires |-> "null"]

\* Faulty variant: the order is fulfilled without looking at its status.
CreateOrderFulfilled(r, o) ==
  LET b == req[r].basket IN
  /\ req[r].pc = "looked"
  /\ orders[o].status = "absent"
  /\ orders' = [orders EXCEPT ![o] = NewRow(b)]
  /\ FulfillSuccessfulOrder(o, NewRow(b)) /\ EnsureInvoice(o)
  /\ req' = [req EXCEPT ![r] = Idle]
  /\ UNCHANGED <<trx, gateway, process>>

CreateOrder(r, o) ==
  LET b == req[r].basket IN
  /\ req[r].pc = "looked"
  /\ orders[o].status = "absent"
  /\ orders' = [orders EXCEPT ![o] = NewRow(b)]
  /\ IF InitialStatus(b) = "success"
     THEN FulfillSuccessfulOrder(o, NewRow(b)) /\ EnsureInvoice(o)
     ELSE UNCHANGED grants
  /\ req' = [req EXCEPT ![r] = Idle]
  /\ UNCHANGED <<trx, gateway, process>>

\* A free course: the enrollment and its XP are two statements.
EnrollFree(r) ==
  LET b == req[r].basket
      seat == <<b.user, b.item>>
  IN  /\ req[r].pc = "enrolling"
      /\ enrolled' = enrolled \cup {seat}
      /\ req' = [req EXCEPT ![r] = IF seat \in enrolled THEN Idle
                                   ELSE WithBasket("rewarding", b)]
      /\ UNCHANGED <<orders, usages, couponRow, xp, invoices, trx, gateway, process>>

AwardFreeXP(r) ==
  LET b == req[r].basket IN
  /\ req[r].pc = "rewarding"
  /\ xp' = xp \cup {<<b.user, b.item>>}
  /\ req' = [req EXCEPT ![r] = Idle]
  /\ UNCHANGED <<orders, usages, couponRow, enrolled, invoices, trx, gateway, process>>

-----------------------------------------------------------------------------
(* CancelOrder: reads the order, then updates it by its id alone. *)

StartCancel(r, o) ==
  /\ up
  /\ req[r].pc = "idle"
  /\ orders[o].status = "pending"
  /\ req' = [req EXCEPT ![r] = WithOrder("cancelling", o)]
  /\ UNCHANGED <<orders, grants, trx, gateway, process>>

CancelWrite(r) ==
  /\ req[r].pc = "cancelling"
  /\ orders' = [orders EXCEPT ![req[r].order].status = "cancelled"]
  /\ req' = [req EXCEPT ![r] = Idle]
  /\ UNCHANGED <<grants, trx, gateway, process>>

-----------------------------------------------------------------------------
(* PayOrder and EnsureOrderPaymentToken.  A row has a token exactly when   *)
(* its window is not "null": both are written by the same update.          *)

StartPay(r, o) ==
  /\ up
  /\ req[r].pc = "idle"
  /\ orders[o].status # "absent"
  /\ orders' = Swept
  /\ req' = [req EXCEPT ![r] = WithOrder("paying", o)]
  /\ UNCHANGED <<grants, trx, gateway, process>>

PayRead(r) ==
  LET o == req[r].order
      next == IF orders[o].status # "pending" THEN Idle
              ELSE CASE orders[o].expires = "past" -> WithOrder("expiring", o)
                     [] orders[o].expires = "open" -> Idle
                     [] orders[o].expires = "null" -> WithOrder("tokening", o)
  IN  /\ req[r].pc = "paying"
      /\ req' = [req EXCEPT ![r] = next]
      /\ UNCHANGED <<orders, grants, trx, gateway, process>>

\* The window closed between the sweep and the read.
PayExpire(r) ==
  /\ req[r].pc = "expiring"
  /\ orders' = [orders EXCEPT ![req[r].order].status = "cancelled"]
  /\ req' = [req EXCEPT ![r] = Idle]
  /\ UNCHANGED <<grants, trx, gateway, process>>

\* createMidtransSnapToken: without a server key the token is made up.
CreateSnapToken(r) ==
  LET o == req[r].order IN
  /\ req[r].pc = "tokening"
  /\ gw' = IF GatewayConfigured /\ gw[o] = "none" THEN [gw EXCEPT ![o] = "token"] ELSE gw
  /\ req' = [req EXCEPT ![r].pc = "saving"]
  /\ UNCHANGED <<orders, grants, trx, reported, process>>

\* Updates the token and its window, whatever the status has become.
SaveToken(r) ==
  /\ req[r].pc = "saving"
  /\ orders' = [orders EXCEPT ![req[r].order].expires = "open"]
  /\ req' = [req EXCEPT ![r] = Idle]
  /\ UNCHANGED <<grants, trx, gateway, process>>

-----------------------------------------------------------------------------
(* SyncOrder and SyncOrderPaymentStatus. *)

StartSync(r, o) ==
  /\ up /\ GatewayConfigured
  /\ req[r].pc = "idle"
  /\ orders[o].status \notin {"absent", "success"}
  /\ req' = [req EXCEPT ![r] = WithOrder("syncing", o)]
  /\ UNCHANGED <<orders, grants, trx, gateway, process>>

\* Faulty variant: "not found" is read like any other answer.
AskGatewayUnchecked(r) ==
  LET o == req[r].order IN
  /\ req[r].pc = "syncing"
  /\ req' = [req EXCEPT ![r] = [WithOrder("answered", o) EXCEPT !.answer = gw[o]]]
  /\ UNCHANGED <<orders, grants, trx, gateway, process>>

\* The gateway answers "not found" until the customer has started to pay.
AskGateway(r) ==
  LET o == req[r].order IN
  /\ req[r].pc = "syncing"
  /\ req' = [req EXCEPT ![r] =
               IF gw[o] \in {"none", "token"} THEN Idle
               ELSE [WithOrder("answered", o) EXCEPT !.answer = gw[o]]]
  /\ UNCHANGED <<orders, grants, trx, gateway, process>>

SyncApply(r) ==
  /\ req[r].pc = "answered"
  /\ ApplyStatus(req[r].order, MapQueriedStatus(req[r].answer))
  /\ req' = [req EXCEPT ![r] = Idle]
  /\ UNCHANGED <<gateway, process>>

-----------------------------------------------------------------------------
(* HandleMidtransWebhook.  The gateway may deliver any status it has       *)
(* reached, late, again and in any order.                                  *)

\* Faulty variant: notifications for orders that are not pending are dropped.
WebhookForPending(o, g) ==
  /\ up /\ GatewayConfigured
  /\ g \in reported[o]
  /\ orders[o].status = "pending"
  /\ ApplyStatus(o, MapMidtransStatus(g))
  /\ UNCHANGED <<gateway, req, process>>

HandleMidtransWebhook(o, g) ==
  /\ up /\ GatewayConfigured
  /\ g \in reported[o]
  /\ orders[o].status # "absent"
  /\ ApplyStatus(o, MapMidtransStatus(g))
  /\ UNCHANGED <<gateway, req, process>>

\* GetOrderInvoice: its read and its insert are one step here, for an order
\* that was successful when it was read has had its invoice ever since.
GetOrderInvoice(o) ==
  /\ up
  /\ orders[o].status = "success"
  /\ EnsureInvoice(o)
  /\ UNCHANGED <<orders, usages, couponRow, enrolled, xp, trx, gateway, req, process>>

\* Any handler may end early: a failed statement or call, a client gone.
GiveUp(r) ==
  /\ req[r].pc # "idle"
  /\ req' = [req EXCEPT ![r] = Idle]
  /\ UNCHANGED <<orders, grants, trx, gateway, process>>

-----------------------------------------------------------------------------
(* ReconcileCouponUsageCounts: four statements, no transaction around      *)
(* them.  main() runs it to the end before it serves; ListCoupons runs it  *)
(* again on each load of the admin page.                                   *)

UsedBy(c) == {o \in usages : orders[o].coupon = c}
PaidUsesOf(c) == {o \in UsedBy(c) : orders[o].status = "success"}

Reconciling(p, pc) == rec[p].pc = pc

ListCoupons(a) ==
  /\ up /\ budget > 0
  /\ Reconciling(a, "idle")
  /\ rec' = [rec EXCEPT ![a] = AtStep("delete")]
  /\ touched' = TRUE
  /\ budget' = budget - 1
  /\ UNCHANGED <<orders, grants, trx, gateway, req, up>>

DeleteUnpaidUsages(p) ==
  /\ Reconciling(p, "delete")
  /\ usages' = {o \in usages : orders[o].status = "success"}
  /\ rec' = [rec EXCEPT ![p] = AtStep("zero")]
  /\ UNCHANGED <<orders, couponRow, enrolled, xp, invoices, trx, gateway, req, up, touched, budget>>

ZeroCounts(p) ==
  /\ Reconciling(p, "zero")
  /\ couponRow' = [c \in Coupons |->
                     IF couponRow[c].state = "live" THEN [couponRow[c] EXCEPT !.used = 0]
                     ELSE couponRow[c]]
  /\ rec' = [rec EXCEPT ![p] = AtStep("count")]
  /\ UNCHANGED <<orders, usages, enrolled, xp, invoices, trx, gateway, req, up, touched, budget>>

CountUsages(p) ==
  /\ Reconciling(p, "count")
  /\ rec' = [rec EXCEPT ![p] = [pc |-> "write",
                                rows |-> [c \in Coupons |-> Cardinality(PaidUsesOf(c))]]]
  /\ UNCHANGED <<orders, grants, trx, gateway, req, up, touched, budget>>

\* One update per coupon that has a count; a row is cleared when written.
WriteCount(p, c) ==
  /\ Reconciling(p, "write")
  /\ rec[p].rows[c] > 0
  /\ couponRow' = IF couponRow[c].state = "live"
                  THEN [couponRow EXCEPT ![c].used = rec[p].rows[c]] ELSE couponRow
  /\ rec' = [rec EXCEPT ![p].rows[c] = 0]
  /\ UNCHANGED <<orders, usages, enrolled, xp, invoices, trx, gateway, req, up, touched, budget>>

ReconcileDone(p) ==
  /\ Reconciling(p, "write")
  /\ rec[p].rows = NoRows
  /\ rec' = [rec EXCEPT ![p] = AtStep("idle")]
  /\ up' = (up \/ p = Boot)
  /\ UNCHANGED <<orders, grants, trx, gateway, req, touched, budget>>

\* ListCoupons ignores the error of a statement that failed, and its
\* statements are cancelled with the request.
AbandonReconcile(a) ==
  /\ ~Reconciling(a, "idle")
  /\ rec' = [rec EXCEPT ![a] = AtStep("idle")]
  /\ UNCHANGED <<orders, grants, trx, gateway, req, up, touched, budget>>

-----------------------------------------------------------------------------
(* The admin's coupon rows.  The update writes every column of the form,   *)
(* used_count among them, as it was when the form was loaded.              *)

SaveCoupon(c, from, n) ==
  /\ up /\ budget > 0 /\ Admins # {}
  /\ couponRow[c].state = from
  /\ couponRow' = [couponRow EXCEPT ![c] = [state |-> "live", used |-> n]]
  /\ touched' = TRUE
  /\ budget' = budget - 1
  /\ UNCHANGED <<orders, usages, enrolled, xp, invoices, trx, gateway, req, rec, up>>

CreateCoupon(c, n) == SaveCoupon(c, "absent", n)
UpdateCoupon(c, n) == SaveCoupon(c, "live", n)

DeleteCoupon(c) ==
  /\ up /\ budget > 0 /\ Admins # {}
  /\ couponRow[c].state = "live"
  /\ couponRow' = [couponRow EXCEPT ![c] = [state |-> "deleted", used |-> 0]]
  /\ touched' = TRUE
  /\ budget' = budget - 1
  /\ UNCHANGED <<orders, usages, enrolled, xp, invoices, trx, gateway, req, rec, up>>

-----------------------------------------------------------------------------
(* The environment: the clock, the gateway, and the server process dying.  *)

WindowPasses(o) ==
  /\ orders[o].expires = "open"
  /\ orders' = [orders EXCEPT ![o].expires = "past"]
  /\ UNCHANGED <<grants, trx, gateway, req, process>>

GatewayMoves ==
  ({"token"} \X {"pending", "capture", "challenge"}) \cup
  ({"pending"} \X {"settlement", "cancel", "expire", "deny", "failure"}) \cup
  ({"challenge"} \X {"capture", "deny", "cancel"}) \cup
  ({"capture"} \X {"settlement", "cancel"}) \cup
  ({"deny"} \X {"pending"}) \cup
  ({"settlement"} \X {"refund"})

PaymentMoves(o, g) ==
  /\ <<gw[o], g>> \in GatewayMoves
  /\ g \in Emits
  /\ gw' = [gw EXCEPT ![o] = g]
  /\ reported' = [reported EXCEPT ![o] = @ \cup {g}]
  /\ UNCHANGED <<orders, grants, trx, req, process>>

\* The process dies and is started again, from the reconciliation.
Crash ==
  /\ budget > 0
  /\ up' = FALSE
  /\ touched' = FALSE
  /\ req' = [r \in Requests |-> Idle]
  /\ rec' = [p \in Reconcilers |-> AtStep(IF p = Boot THEN "delete" ELSE "idle")]
  /\ budget' = budget - 1
  /\ UNCHANGED <<orders, grants, trx, gateway>>

-----------------------------------------------------------------------------
Purchase(r) ==
  \/ \E b \in Baskets : StartPurchase(r, b)
  \/ PendingOrderForItem(r)
  \/ \E o \in Orders : CreateOrder(r, o)
  \/ EnrollFree(r)
  \/ AwardFreeXP(r)

Cancel(r) == (\E o \in Orders : StartCancel(r, o)) \/ CancelWrite(r)

Pay(r) ==
  \/ \E o \in Orders : StartPay(r, o)
  \/ PayRead(r)
  \/ PayExpire(r)
  \/ CreateSnapToken(r)
  \/ SaveToken(r)

Sync(r) ==
  \/ \E o \in Orders : StartSync(r, o)
  \/ AskGateway(r)
  \/ SyncApply(r)

ReconcileStep(p) ==
  \/ DeleteUnpaidUsages(p)
  \/ ZeroCounts(p)
  \/ CountUsages(p)
  \/ \E c \in Coupons : WriteCount(p, c)
  \/ ReconcileDone(p)

AdminPage ==
  \/ \E a \in Admins : ListCoupons(a) \/ AbandonReconcile(a)
  \/ \E c \in Coupons : \/ DeleteCoupon(c)
                        \/ \E n \in 0 .. Cardinality(Orders) :
                             CreateCoupon(c, n) \/ UpdateCoupon(c, n)

Environment ==
  \/ \E o \in Orders : WindowPasses(o)
  \/ \E o \in Orders, g \in GatewayStatuses : PaymentMoves(o, g)
  \/ Crash

Next ==
  \/ CancelExpiredPendingOrders
  \/ \E r \in Requests : Purchase(r) \/ Cancel(r) \/ Pay(r) \/ Sync(r) \/ GiveUp(r)
  \/ \E o \in Orders, g \in GatewayStatuses : HandleMidtransWebhook(o, g)
  \/ \E o \in Orders : GetOrderInvoice(o)
  \/ \E p \in Reconcilers : ReconcileStep(p)
  \/ AdminPage
  \/ Environment

Spec == Init /\ [][Next]_vars

\* The gateway repeats a notification until it is answered with success.  An
\* answered settlement has left an invoice: from then on nothing is promised
\* to come again, though it may.
SettlementUnanswered(o) ==
  o \notin invoices /\ HandleMidtransWebhook(o, "settlement")

\* The sweep is a ticker; main() runs on to the end of its start-up.
Fairness ==
  /\ WF_vars(CancelExpiredPendingOrders)
  /\ WF_vars(ReconcileStep(Boot))
  /\ \A o \in Orders : WF_vars(SettlementUnanswered(o))

FairSpec == Spec /\ Fairness

-----------------------------------------------------------------------------
(* Safety. *)

Seat(o) == <<orders[o].user, orders[o].item>>

\* An order that is successful now has everything it grants: the coupon use,
\* the seat with its XP, the invoice.  Every path into "success" (checkout,
\* notification, status query, a second success after a downgrade) has to
\* grant it in the same transaction, and the coupon reconciliation must not
\* take a usage back.
PaidIsFulfilled ==
  \A o \in Orders : orders[o].status = "success" =>
    /\ o \in invoices
    /\ orders[o].coupon # None => o \in usages
    /\ orders[o].item \in Courses => Seat(o) \in enrolled /\ Seat(o) \in xp

\* The order cost nothing, or the gateway has reported the money taken.
BasketOf(o) == [user |-> orders[o].user, item |-> orders[o].item,
                coupon |-> orders[o].coupon]
Earned(o) ==
  \/ InitialStatus(BasketOf(o)) = "success"
  \/ \E g \in reported[o] : MapMidtransStatus(g) = "success"

\* Nobody sits in a priced course, and no invoice exists, without an order
\* for it that was earned, however notifications and queries interleave.
GrantsAreBacked ==
  /\ \A o \in invoices : orders[o].status # "absent" /\ Earned(o)
  /\ \A u \in Users, c \in Courses \ FreeCourses :
       <<u, c>> \in enrolled => \E o \in invoices : Seat(o) = <<u, c>>

\* From the end of a start-up to the first admin coupon request used_count
\* equals the coupon_usages rows, over repeated notifications, downgrades and
\* second successes; a restart restores this whatever a stale form, an
\* interrupted reconciliation or a fulfilment during one has left behind.
CounterExact ==
  up /\ ~touched =>
    \A c \in Coupons : couponRow[c].state = "live" =>
      couponRow[c].used = Cardinality(UsedBy(c))

\* Short of cancelling it, no step of the server gives an existing order a
\* status that the gateway has not reported for it: handlers that act on what
\* they read earlier cannot reopen, fail or complete an order by themselves.
StatusIsReported ==
  [][\A o \in Orders :
       LET from == orders[o].status
           to == orders'[o].status
       IN  from # "absent" /\ to # from /\ to # "cancelled" =>
             \E g \in reported[o] : to \in {MapMidtransStatus(g), MapQueriedStatus(g)}]_vars

\* CancelOrder answers "Only pending orders can be cancelled": the order it
\* cancels is pending when it writes.
CancelOnlyPending ==
  [][\A r \in Requests : CancelWrite(r) => orders[req[r].order].status = "pending"]_vars

(* Liveness. *)

\* A pending order whose window has passed does not stay so.
ExpiredIsSwept == \A o \in Orders : Expired(o) ~> ~Expired(o)

\* What a paid order grants for good: its invoice, and the seat in its course.
Honoured(o) == o \in invoices /\ (orders[o].item \in Courses => Seat(o) \in enrolled)

\* A payment that the gateway settles, late as it may be, is honoured, even if
\* the sweep or the customer had cancelled the order by then: its invoice and
\* its seat come, and stay.  The order's own status need not: a cancellation
\* that read the order before the payment, or an older notification delivered
\* after it, may overwrite it, and an answered settlement does not come again
\* (dashboard/orders.go:30-34, public/payments.go).
SettledIsHonoured ==
  \A o \in Orders : gw[o] = "settlement" ~> ([]Honoured(o) \/ gw[o] = "refund")

-----------------------------------------------------------------------------
(* The checkout implements the promise stated in Entitlement. *)

PhaseOf(o) == CASE orders[o].status = "absent"  -> "none"
                [] orders[o].status = "success" -> "paid"
                [] OTHER                        -> "unpaid"

Promise == INSTANCE Entitlement WITH
  Things    <- (Users \cup {None}) \X (Items \cup {None}),
  Seats     <- Users \X Courses,
  FreeSeats <- Users \X FreeCourses,
  phase     <- [o \in Orders |-> PhaseOf(o)],
  seat      <- [o \in Orders |-> Seat(o)],
  earned    <- {o \in Orders : orders[o].status # "absent" /\ Earned(o)},
  honoured  <- invoices,
  access    <- enrolled

\* Every step of the checkout is a step of Entitlement or changes nothing it
\* speaks of.
ImplementsEntitlement == Promise!Spec
=============================================================================
