------------------------------- MODULE Bookings -------------------------------
(***************************************************************************)
(* Holding, paying and confirming the slots of one professional on one      *)
(* future day: BookingsService, BookingsCleanupService, the webhook         *)
(* controller, and of PostgreSQL, Paystack, Google Calendar and the mail    *)
(* server what BookingsService relies on.                                   *)
(*                                                                          *)
(* Every request runs on its own, and stops at each await; what it does     *)
(* between two awaits is one action.  An action therefore reads or writes   *)
(* the database once, and anything may happen before the next one.          *)
(*                                                                          *)
(* Time is relative: a row carries heldFor = heldUntil - now, which Tick     *)
(* counts down to -1.  heldFor > 0 is the code's heldUntil > now, and       *)
(* heldFor <= 0 its heldUntil <= now; 0 is the instant of expiry itself.    *)
(***************************************************************************)
EXTENDS Integers, FiniteSets, SlotMath

CONSTANTS
    Holds,            \* createHold requests; each also names the row it inserts
    Checkouts,        \* initCheckout requests; each also names its payment row
    Deliveries,       \* webhook handlers that may be running at once
    None,             \* no service, no booking, no payment
    Events,           \* what Paystack may report of a charge
    Services,         \* services of the professional
    ServiceConfigs,   \* the contents a service row may have
    DayRanges,        \* the time ranges the day's availability rule opens
    Starts,           \* start times customers ask for, in minutes
    Quantities,       \* quantities customers ask for
    HoldDuration,     \* HOLD_DURATION_MS, in ticks
    ReferencesCollide,\* whether two random booking references may be equal
    MaxFailures       \* bound: requests cut short by a crash or an error

ASSUME NoneAssumption == None \notin Holds \cup Checkouts \cup Services
ASSUME ConfigsAssumption ==
    ServiceConfigs \subseteq
        [isActive : BOOLEAN, duration : Nat \ {0}, buffer : Nat, price : Nat,
         pricing : {"FIXED", "VARIABLE"}, minVariable : Nat, maxVariable : Nat]
ASSUME DayAssumption ==
    /\ Starts \subseteq Nat
    /\ DayRanges \subseteq [start : Nat, end : Nat]
    /\ Quantities \subseteq Nat
ASSUME DeliveriesAssumption == IsFiniteSet(Deliveries)
ASSUME BoundsAssumption ==
    /\ Events \subseteq {"success", "failed"}
    /\ HoldDuration \in Nat \ {0}
    /\ ReferencesCollide \in BOOLEAN
    /\ MaxFailures \in Nat

VARIABLES
    service,    \* service rows
    hold,       \* createHold requests in flight
    booking,    \* booking rows
    checkout,   \* initCheckout requests in flight
    txn,        \* paystack_transactions rows
    charge,     \* charge[k]: the events Paystack has for payment k
    delivery,   \* webhook handlers in flight
    acked,      \* the <<payment, event>> answered with 200
    pushed,     \* pushed[b]: Google Calendar events created for b
    mailed,     \* mailed[b]: confirmations mailed for b
    failures    \* requests cut short so far

requestVars == <<service, hold>>
paymentVars == <<checkout, txn, charge>>
webhookVars == <<delivery, acked>>
outsideVars == <<pushed, mailed>>
vars == <<requestVars, booking, paymentVars, webhookVars, outsideVars, failures>>

-----------------------------------------------------------------------------
(* Rows and requests.                                                       *)

BookingStatuses ==
    {"NONE", "HELD", "PENDING_PAYMENT", "CONFIRMED", "CANCELLED", "EXPIRED"}

\* No code of the repository writes REFUNDED: a refund is made by hand.
PaymentStatuses == {"PENDING", "SUCCESS", "FAILED", "ABANDONED", "REFUNDED"}

BookingRow ==
    [status : BookingStatuses, start : Nat, end : Nat, amount : Nat,
     heldFor : -1 .. HoldDuration, paymentStatus : PaymentStatuses,
     linked : BOOLEAN]

NoBooking ==
    [status |-> "NONE", start |-> 0, end |-> 0, amount |-> 0, heldFor |-> -1,
     paymentStatus |-> "PENDING", linked |-> FALSE]

HoldRequest ==
    [pc : {"new", "checking", "inserting", "reclaiming",
           "held", "rejected", "notAvailable", "taken", "conflict", "failed"},
     service : Services \cup {None}, start : Nat, end : Nat, amount : Nat,
     allowRetry : BOOLEAN]

NewHold ==
    [pc |-> "new", service |-> None, start |-> 0, end |-> 0, amount |-> 0,
     allowRetry |-> TRUE]

CheckoutRequest ==
    [pc : {"new", "initializing", "open", "gone", "failed"},
     booking : Holds \cup {None}, amount : Nat]

NewCheckout == [pc |-> "new", booking |-> None, amount |-> 0]

Payment ==
    [status : PaymentStatuses \cup {"NONE"}, booking : Holds \cup {None},
     amount : Nat, paidAt : BOOLEAN]

\* paidAt stands for whether the column is set.
NoPayment == [status |-> "NONE", booking |-> None, amount |-> 0, paidAt |-> FALSE]

Delivery ==
    [pc : {"idle", "readBooking", "abandon", "confirm", "calendar", "link",
           "mail", "failTxn", "failBooking"},
     txn : Checkouts \cup {None}]

Idle == [pc |-> "idle", txn |-> None]

-----------------------------------------------------------------------------
Init ==
    /\ service \in [Services -> ServiceConfigs]
    /\ hold = [h \in Holds |-> NewHold]
    /\ booking = [h \in Holds |-> NoBooking]
    /\ checkout = [k \in Checkouts |-> NewCheckout]
    /\ txn = [k \in Checkouts |-> NoPayment]
    /\ charge = [k \in Checkouts |-> {}]
    /\ delivery = [d \in Deliveries |-> Idle]
    /\ acked = {}
    /\ pushed = [h \in Holds |-> 0]
    /\ mailed = [h \in Holds |-> 0]
    /\ failures = 0

-----------------------------------------------------------------------------
(* The database.                                                            *)

\* The statuses the partial unique index bookings_active_slot_unique covers.
Occupying == {"HELD", "PENDING_PAYMENT", "CONFIRMED"}

\* Mutant: an index over confirmed bookings only.
IndexForgetsHeld(b, start) ==
    \A c \in Holds \ {b} :
        booking[c].status = "CONFIRMED" => booking[c].start # start

\* Whether row b may occupy the start: no other row in the index has it.
IndexAllows(b, start) ==
    \A c \in Holds \ {b} :
        booking[c].status \in Occupying => booking[c].start # start

\* Mutants: heldUntil not compared, status not compared.
LapsedAnyHeld(b) == booking[b].status = "HELD"
LapsedAnyStatus(b) ==
    booking[b].status \in {"HELD", "CONFIRMED"} /\ booking[b].heldFor <= 0

Lapsed(b) == booking[b].status = "HELD" /\ booking[b].heldFor <= 0

Live(b) == booking[b].status = "HELD" /\ booking[b].heldFor > 0

Made(b) == booking[b].status # "NONE"

\* The rows computeAvailableSlots selects for the day.
DateBookings ==
    {booking[b] : b \in {c \in Holds :
        booking[c].status \notin {"NONE", "CANCELLED", "EXPIRED"}}}

-----------------------------------------------------------------------------
(* The professional's services.                                             *)

\* ServicesService.update and .remove: any change of the row, isActive included.
UpdateService(s, config) ==
    /\ service' = [service EXCEPT ![s] = config]
    /\ UNCHANGED <<hold, booking, paymentVars, webhookVars, outsideVars, failures>>

-----------------------------------------------------------------------------
(* createHold and attemptHold.                                              *)

\* minVariable and maxVariable of a row are what the code compares with: 1 and
\* 10 where the professional has set no bound.
QuantityAllowed(row, q) ==
    IF row.pricing = "VARIABLE"
    THEN q \in row.minVariable .. row.maxVariable
    ELSE q = 1

\* The service is read and the request validated; end time and amount are
\* fixed here, from this reading of the service.
CreateHold(h, s, start, q) ==
    /\ hold[h].pc = "new"
    /\ LET row == service[s]
           accepted == row.isActive /\ QuantityAllowed(row, q)
       IN  hold' = [hold EXCEPT ![h] =
               [pc |-> IF accepted THEN "checking" ELSE "rejected",
                service |-> s, start |-> start, end |-> start + row.duration,
                amount |-> row.price * q, allowRetry |-> TRUE]]
    /\ UNCHANGED <<service, booking, paymentVars, webhookVars, outsideVars, failures>>

\* The service is read again, with the bookings of the day.
SlotIsFree(h) ==
    LET row == service[hold[h].service]
    IN  /\ row.isActive
        /\ hold[h].start \in AvailableStarts(row, DayRanges, FALSE, 0, DateBookings)

\* The transaction computes the slots and looks for the requested one.
CheckSlot(h) ==
    /\ hold[h].pc = "checking"
    /\ hold' = [hold EXCEPT ![h].pc =
                    IF SlotIsFree(h) THEN "inserting" ELSE "notAvailable"]
    /\ UNCHANGED <<service, booking, paymentVars, webhookVars, outsideVars, failures>>

\* Mutant: seconds where milliseconds were meant.
InsertHoldInSeconds(h) ==
    /\ hold[h].pc = "inserting"
    /\ IndexAllows(h, hold[h].start)
    /\ booking' = [booking EXCEPT ![h] =
           [status |-> "HELD", start |-> hold[h].start, end |-> hold[h].end,
            amount |-> hold[h].amount, heldFor |-> HoldDuration * 1000,
            paymentStatus |-> "PENDING", linked |-> FALSE]]
    /\ hold' = [hold EXCEPT ![h].pc = "held"]
    /\ UNCHANGED <<service, paymentVars, webhookVars, outsideVars, failures>>

\* The insert succeeds and the transaction commits.
InsertHold(h) ==
    /\ hold[h].pc = "inserting"
    /\ IndexAllows(h, hold[h].start)
    /\ booking' = [booking EXCEPT ![h] =
           [status |-> "HELD", start |-> hold[h].start, end |-> hold[h].end,
            amount |-> hold[h].amount, heldFor |-> HoldDuration,
            paymentStatus |-> "PENDING", linked |-> FALSE]]
    /\ hold' = [hold EXCEPT ![h].pc = "held"]
    /\ UNCHANGED <<service, paymentVars, webhookVars, outsideVars, failures>>

\* A first P2002 leads to the reclaim, a second one to a 409 of the filter.
InsertFails(h) ==
    /\ hold' = [hold EXCEPT ![h].pc =
                    IF hold[h].allowRetry THEN "reclaiming" ELSE "conflict"]
    /\ UNCHANGED <<service, booking, paymentVars, webhookVars, outsideVars, failures>>

\* P2002 of the partial index: another row occupies the start.
SlotConflict(h) ==
    /\ hold[h].pc = "inserting"
    /\ ~IndexAllows(h, hold[h].start)
    /\ InsertFails(h)

\* P2002 of the unique column reference: generateReference drew one in use.
ReferenceConflict(h) ==
    /\ ReferencesCollide
    /\ hold[h].pc = "inserting"
    /\ \E c \in Holds : Made(c)
    /\ InsertFails(h)

\* A set of held rows is expired by one UPDATE ... WHERE.
Expire(rows) ==
    booking' = [b \in Holds |-> IF b \in rows
                                THEN [booking[b] EXCEPT !.status = "EXPIRED"]
                                ELSE booking[b]]

\* Mutant: the insert is tried again also when nothing was reclaimed.
ReclaimRetriesInsert(h) ==
    /\ hold[h].pc = "reclaiming"
    /\ Expire({b \in Holds : Lapsed(b) /\ booking[b].start = hold[h].start})
    /\ hold' = [hold EXCEPT ![h].pc = "inserting"]
    /\ UNCHANGED <<service, paymentVars, webhookVars, outsideVars, failures>>

\* reclaimExpiredHold, and what attemptHold makes of its answer: a second
\* attempt if a row was reclaimed, and a 409 otherwise.
Reclaim(h) ==
    /\ hold[h].pc = "reclaiming"
    /\ LET stale == {b \in Holds : Lapsed(b) /\ booking[b].start = hold[h].start}
       IN  /\ Expire(stale)
           /\ \/ /\ stale # {}
                 /\ hold' = [hold EXCEPT ![h] = [@ EXCEPT
                        !.pc = "checking", !.allowRetry = FALSE]]
              \/ /\ stale = {}
                 /\ hold' = [hold EXCEPT ![h].pc = "taken"]
    /\ UNCHANGED <<service, paymentVars, webhookVars, outsideVars, failures>>

-----------------------------------------------------------------------------
(* initCheckout.                                                            *)

\* Mutant: the price of the service is charged, not the booking's amount.
InitCheckoutAtPrice(k, b) ==
    /\ checkout[k].pc = "new"
    /\ Made(b)
    /\ checkout' = [checkout EXCEPT ![k] =
           [pc |-> IF Live(b) THEN "initializing" ELSE "gone",
            booking |-> b, amount |-> service[hold[b].service].price]]
    /\ UNCHANGED <<requestVars, booking, txn, charge, webhookVars, outsideVars, failures>>

\* A live hold goes to Paystack, anything else is answered 410 Gone.
InitCheckout(k, b) ==
    /\ checkout[k].pc = "new"
    /\ Made(b)
    /\ checkout' = [checkout EXCEPT ![k] =
           [pc |-> IF Live(b) THEN "initializing" ELSE "gone",
            booking |-> b, amount |-> booking[b].amount]]
    /\ UNCHANGED <<requestVars, booking, txn, charge, webhookVars, outsideVars, failures>>

\* Paystack has answered: the payment row is created and the customer gets
\* its authorization URL.  The booking is not looked at again.
OpenCheckout(k) ==
    /\ checkout[k].pc = "initializing"
    /\ checkout' = [checkout EXCEPT ![k].pc = "open"]
    /\ txn' = [txn EXCEPT ![k] = [status |-> "PENDING",
                                  booking |-> checkout[k].booking,
                                  amount |-> checkout[k].amount,
                                  paidAt |-> FALSE]]
    /\ UNCHANGED <<requestVars, booking, charge, webhookVars, outsideVars, failures>>

-----------------------------------------------------------------------------
(* Paystack.                                                                *)

\* The customer's attempts to pay: any number fail before one succeeds.
Charge(k, e) ==
    /\ checkout[k].pc = "open"
    /\ e \notin charge[k]
    /\ "success" \notin charge[k]
    /\ charge' = [charge EXCEPT ![k] = @ \cup {e}]
    /\ UNCHANGED <<requestVars, booking, checkout, txn, webhookVars, outsideVars, failures>>

-----------------------------------------------------------------------------
(* handleWebhook.  Paystack may deliver an event late, again, in any order, *)
(* and to several handlers at once; it is sure to deliver it again only as  *)
(* long as no handler has answered 200.                                     *)

DeliveryGoesTo(d, pc) == delivery' = [delivery EXCEPT ![d].pc = pc]

\* The handler answers 200.
Acknowledge(d, k, e) ==
    /\ delivery' = [delivery EXCEPT ![d] = Idle]
    /\ acked' = acked \cup {<<k, e>>}

\* Mutant: the name of the event is not looked at.
ReceiveAnyEvent(d, k, e) ==
    /\ delivery[d].pc = "idle"
    /\ e \in charge[k]
    /\ delivery' = [delivery EXCEPT ![d] = [pc |-> "readBooking", txn |-> k]]
    /\ UNCHANGED <<requestVars, booking, paymentVars, acked, outsideVars, failures>>

\* Mutant: a success already recorded is handled again.
ReceiveAgain(d, k, e) ==
    /\ delivery[d].pc = "idle"
    /\ e \in charge[k]
    /\ delivery' = [delivery EXCEPT ![d] =
           [pc |-> IF e = "success" THEN "readBooking" ELSE "failTxn", txn |-> k]]
    /\ UNCHANGED <<requestVars, booking, paymentVars, acked, outsideVars, failures>>

\* The payment row is read first.  A success already recorded is acknowledged.
ReceiveWebhook(d, k, e) ==
    /\ delivery[d].pc = "idle"
    /\ e \in charge[k]
    /\ \/ /\ e = "success"
          /\ txn[k].status = "SUCCESS"
          /\ Acknowledge(d, k, e)
       \/ /\ e = "success"
          /\ txn[k].status # "SUCCESS"
          /\ delivery' = [delivery EXCEPT ![d] = [pc |-> "readBooking", txn |-> k]]
          /\ UNCHANGED acked
       \/ /\ e = "failed"
          /\ delivery' = [delivery EXCEPT ![d] = [pc |-> "failTxn", txn |-> k]]
          /\ UNCHANGED acked
    /\ UNCHANGED <<requestVars, booking, paymentVars, outsideVars, failures>>

\* Mutant: only heldUntil decides.
ReadBookingUntilExpiry(d) ==
    /\ delivery[d].pc = "readBooking"
    /\ DeliveryGoesTo(d, IF booking[txn[delivery[d].txn].booking].heldFor > 0
                         THEN "confirm" ELSE "abandon")
    /\ UNCHANGED <<requestVars, booking, paymentVars, acked, outsideVars, failures>>

\* The included booking is read by a query of its own; then stillHeld decides.
ReadBooking(d) ==
    /\ delivery[d].pc = "readBooking"
    /\ DeliveryGoesTo(d, IF Live(txn[delivery[d].txn].booking)
                         THEN "confirm" ELSE "abandon")
    /\ UNCHANGED <<requestVars, booking, paymentVars, acked, outsideVars, failures>>

\* Not held any more: the payment is flagged for a refund.
Abandon(d) ==
    /\ delivery[d].pc = "abandon"
    /\ LET k == delivery[d].txn
       IN  /\ txn' = [txn EXCEPT ![k].status = "ABANDONED"]
           /\ Acknowledge(d, k, "success")
    /\ UNCHANGED <<requestVars, booking, checkout, charge, outsideVars, failures>>

\* Payment and booking are updated in one transaction, whatever the booking's
\* status has become since it was read.
Confirm(d) ==
    /\ delivery[d].pc = "confirm"
    /\ LET k == delivery[d].txn
           b == txn[k].booking
       IN  /\ IndexAllows(b, booking[b].start)
           /\ txn' = [txn EXCEPT ![k] = [@ EXCEPT !.status = "SUCCESS", !.paidAt = TRUE]]
           /\ booking' = [booking EXCEPT ![b] = [@ EXCEPT
                  !.status = "CONFIRMED", !.paymentStatus = "SUCCESS"]]
    /\ DeliveryGoesTo(d, "calendar")
    /\ UNCHANGED <<requestVars, checkout, charge, acked, outsideVars, failures>>

\* Mutant: the error is swallowed and the event answered with 200.
ConfirmConflictAcked(d) ==
    /\ delivery[d].pc = "confirm"
    /\ LET b == txn[delivery[d].txn].booking
       IN  ~IndexAllows(b, booking[b].start)
    /\ Acknowledge(d, delivery[d].txn, "success")
    /\ UNCHANGED <<requestVars, booking, paymentVars, outsideVars, failures>>

\* The booking has lost its slot meanwhile: P2002, rolled back, answered 409.
ConfirmConflict(d) ==
    /\ delivery[d].pc = "confirm"
    /\ LET b == txn[delivery[d].txn].booking
       IN  ~IndexAllows(b, booking[b].start)
    /\ delivery' = [delivery EXCEPT ![d] = Idle]
    /\ UNCHANGED <<requestVars, booking, paymentVars, acked, outsideVars, failures>>

\* Mutant: the handler returns where only pushToGoogleCalendar should.
PushCalendarOrReturn(d) ==
    /\ delivery[d].pc = "calendar"
    /\ \/ /\ pushed' = [pushed EXCEPT ![txn[delivery[d].txn].booking] = @ + 1]
          /\ \E next \in {"link", "mail"} : DeliveryGoesTo(d, next)
          /\ UNCHANGED acked
       \/ /\ UNCHANGED pushed
          /\ Acknowledge(d, delivery[d].txn, "success")
    /\ UNCHANGED <<requestVars, booking, paymentVars, mailed, failures>>

\* An event is created in the professional's calendar and its link goes to the
\* booking, unless Google's answer is lost or without an id; or no event is
\* created: no calendar connected, or Google refuses, which is only logged.
PushCalendar(d) ==
    /\ delivery[d].pc = "calendar"
    /\ \/ /\ pushed' = [pushed EXCEPT ![txn[delivery[d].txn].booking] = @ + 1]
          /\ \E next \in {"link", "mail"} : DeliveryGoesTo(d, next)
       \/ /\ UNCHANGED pushed
          /\ DeliveryGoesTo(d, "mail")
    /\ UNCHANGED <<requestVars, booking, paymentVars, acked, mailed, failures>>

LinkEvent(d) ==
    /\ delivery[d].pc = "link"
    /\ booking' = [booking EXCEPT ![txn[delivery[d].txn].booking].linked = TRUE]
    /\ DeliveryGoesTo(d, "mail")
    /\ UNCHANGED <<requestVars, paymentVars, acked, outsideVars, failures>>

\* The customer is mailed, or Resend refuses the mail or cannot be reached,
\* which is only logged: the event is answered with 200 either way.
SendConfirmation(d) ==
    /\ delivery[d].pc = "mail"
    /\ \/ mailed' = [mailed EXCEPT ![txn[delivery[d].txn].booking] = @ + 1]
       \/ UNCHANGED mailed
    /\ Acknowledge(d, delivery[d].txn, "success")
    /\ UNCHANGED <<requestVars, booking, paymentVars, pushed, failures>>

\* charge.failed: the payment row, then the booking row, unconditionally.
FailTxn(d) ==
    /\ delivery[d].pc = "failTxn"
    /\ txn' = [txn EXCEPT ![delivery[d].txn].status = "FAILED"]
    /\ DeliveryGoesTo(d, "failBooking")
    /\ UNCHANGED <<requestVars, booking, checkout, charge, acked, outsideVars, failures>>

FailBooking(d) ==
    /\ delivery[d].pc = "failBooking"
    /\ LET k == delivery[d].txn
       IN  /\ booking' = [booking EXCEPT ![txn[k].booking].paymentStatus = "FAILED"]
           /\ Acknowledge(d, k, "failed")
    /\ UNCHANGED <<requestVars, paymentVars, outsideVars, failures>>

-----------------------------------------------------------------------------
(* The professional, the cron job, the clock.                               *)

\* cancel does not look at the booking's status.  The mail it sends is not counted.
Cancel(b) ==
    /\ Made(b)
    /\ booking' = [booking EXCEPT ![b].status = "CANCELLED"]
    /\ UNCHANGED <<requestVars, paymentVars, webhookVars, outsideVars, failures>>

\* Mutant: the sweep looks for holds that expire at this very moment.
SweepAtExpiry ==
    /\ \E b \in Holds : Lapsed(b) /\ booking[b].heldFor = 0
    /\ Expire({b \in Holds : Lapsed(b) /\ booking[b].heldFor = 0})
    /\ UNCHANGED <<requestVars, paymentVars, webhookVars, outsideVars, failures>>

SweepExpiredHolds ==
    /\ \E b \in Holds : Lapsed(b)
    /\ Expire({b \in Holds : Lapsed(b)})
    /\ UNCHANGED <<requestVars, paymentVars, webhookVars, outsideVars, failures>>

Tick ==
    /\ \E b \in Holds : booking[b].heldFor > -1
    /\ booking' = [b \in Holds |-> IF booking[b].heldFor > -1
                                   THEN [booking[b] EXCEPT !.heldFor = @ - 1]
                                   ELSE booking[b]]
    /\ UNCHANGED <<requestVars, paymentVars, webhookVars, outsideVars, failures>>

-----------------------------------------------------------------------------
(* A request is cut short at an await: the process dies, the database or    *)
(* Paystack does not answer.  What it has written stays written.            *)

MayFail == failures < MaxFailures /\ failures' = failures + 1

FailHold(h) ==
    /\ hold[h].pc \in {"checking", "inserting", "reclaiming"}
    /\ MayFail
    /\ hold' = [hold EXCEPT ![h].pc = "failed"]
    /\ UNCHANGED <<service, booking, paymentVars, webhookVars, outsideVars>>

FailCheckout(k) ==
    /\ checkout[k].pc = "initializing"
    /\ MayFail
    /\ checkout' = [checkout EXCEPT ![k].pc = "failed"]
    /\ UNCHANGED <<requestVars, booking, txn, charge, webhookVars, outsideVars>>

FailDelivery(d) ==
    /\ delivery[d].pc # "idle"
    /\ MayFail
    /\ delivery' = [delivery EXCEPT ![d] = Idle]
    /\ UNCHANGED <<requestVars, booking, paymentVars, acked, outsideVars>>

-----------------------------------------------------------------------------
HoldStep(h) ==
    CheckSlot(h) \/ InsertHold(h) \/ SlotConflict(h) \/ ReferenceConflict(h)
    \/ Reclaim(h)

HandlerStep(d) ==
    ReadBooking(d) \/ Abandon(d) \/ Confirm(d) \/ ConfirmConflict(d)
    \/ PushCalendar(d) \/ LinkEvent(d) \/ SendConfirmation(d)
    \/ FailTxn(d) \/ FailBooking(d)

Next ==
    \/ \E s \in Services, config \in ServiceConfigs : UpdateService(s, config)
    \/ \E h \in Holds :
          \/ \E s \in Services, start \in Starts, q \in Quantities :
                CreateHold(h, s, start, q)
          \/ HoldStep(h)
          \/ FailHold(h)
    \/ \E k \in Checkouts :
          \/ \E b \in Holds : InitCheckout(k, b)
          \/ OpenCheckout(k)
          \/ FailCheckout(k)
          \/ \E e \in Events : Charge(k, e)
    \/ \E d \in Deliveries :
          \/ \E k \in Checkouts, e \in Events : ReceiveWebhook(d, k, e)
          \/ HandlerStep(d)
          \/ FailDelivery(d)
    \/ \E b \in Holds : Cancel(b)
    \/ SweepExpiredHolds
    \/ Tick

Spec == Init /\ [][Next]_vars

\* Requests the server has accepted go on, the cron job and the clock never
\* stop, and Paystack delivers an event again and again until it is answered
\* 200.  Customers and the professional owe nothing.
Fairness ==
    /\ \A h \in Holds : WF_vars(HoldStep(h))
    /\ \A k \in Checkouts : WF_vars(OpenCheckout(k))
    /\ \A d \in Deliveries : WF_vars(HandlerStep(d))
    /\ \A k \in Checkouts, e \in Events :
          SF_vars(<<k, e>> \notin acked
                  /\ \E d \in Deliveries : ReceiveWebhook(d, k, e))
    /\ WF_vars(SweepExpiredHolds)
    /\ WF_vars(Tick)

FairSpec == Spec /\ Fairness

-----------------------------------------------------------------------------
(* Invariants.                                                              *)

(* Every variable holds what the schema and the handlers may put there.     *)
TypeOK ==
    /\ service \in [Services -> ServiceConfigs]
    /\ hold \in [Holds -> HoldRequest]
    /\ booking \in [Holds -> BookingRow]
    /\ checkout \in [Checkouts -> CheckoutRequest]
    /\ txn \in [Checkouts -> Payment]
    /\ charge \in [Checkouts -> SUBSET Events]
    /\ delivery \in [Deliveries -> Delivery]
    /\ acked \subseteq Checkouts \X Events
    /\ pushed \in [Holds -> Nat]
    /\ mailed \in [Holds -> Nat]
    /\ failures \in 0 .. MaxFailures

Active(b) == booking[b].status \in Occupying

(* Two bookings in an active status never have the same start time: what    *)
(* createHold, the webhook's confirmation of a booking that has expired     *)
(* meanwhile, and the reclaim keep together.                                *)
OneActivePerSlot ==
    \A b, c \in Holds :
        (b # c /\ Active(b) /\ Active(c)) => booking[b].start # booking[c].start

Overlap(b, c) ==
    booking[b].start < booking[c].end /\ booking[c].start < booking[b].end

\* The bookings that bind the professional: live holds and confirmed bookings.
Binding(b) == Live(b) \/ booking[b].status = "CONFIRMED"

PaidFor(b) ==
    \E k \in Checkouts : txn[k].booking = b /\ "success" \in charge[k]

FailedFor(b) ==
    \E k \in Checkouts : txn[k].booking = b /\ "failed" \in charge[k]

(* A booking is confirmed only if Paystack has charged somebody for it      *)
(* (handleWebhook), whatever was delivered before, again or meanwhile.      *)
ConfirmedIsPaid ==
    \A b \in Holds : booking[b].status = "CONFIRMED" => PaidFor(b)

(* A payment recorded as SUCCESS belongs to a booking that is confirmed, or *)
(* that was cancelled: no sweep and no reclaim takes a paid slot away.      *)
SuccessHoldsItsSlot ==
    \A k \in Checkouts :
        txn[k].status = "SUCCESS"
            => booking[txn[k].booking].status \in {"CONFIRMED", "CANCELLED"}

(* What a payment row, and the payment status of a booking, say did happen  *)
(* at Paystack, though charge.failed writes the two by two updates and a    *)
(* confirmation may come in between.                                        *)
StatusIsBacked ==
    /\ \A k \in Checkouts :
          /\ txn[k].status \in {"SUCCESS", "ABANDONED"} => "success" \in charge[k]
          /\ txn[k].status = "FAILED" => "failed" \in charge[k]
    /\ \A b \in Holds :
          /\ booking[b].paymentStatus = "SUCCESS" => PaidFor(b)
          /\ booking[b].paymentStatus = "FAILED" => FailedFor(b)

(* A customer pays the amount agreed on when the slot was held, whatever    *)
(* the professional has done to the price since.                            *)
AmountIsAgreed ==
    \A k \in Checkouts : \A b \in Holds :
        txn[k].booking = b => txn[k].amount = booking[b].amount

\* The payments recorded as the successful ones of booking b.
Successes(b) == {k \in Checkouts : txn[k].booking = b /\ txn[k].status = "SUCCESS"}

(* However often Paystack delivers, and however many checkouts of a hold    *)
(* are paid, a booking gets no more calendar events, confirmations and      *)
(* successful payments than there are handlers running at once.             *)
ConfirmedOncePerHandler ==
    \A b \in Holds :
        /\ pushed[b] <= Cardinality(Deliveries)
        /\ mailed[b] <= Cardinality(Deliveries)
        /\ Cardinality(Successes(b)) <= Cardinality(Deliveries)

-----------------------------------------------------------------------------
(* What a step may never do.                                                *)

(* Neither the sweep nor a reclaim nor a late payment takes a slot away     *)
(* from a customer whose hold is live or whose booking is confirmed; only   *)
(* the professional does.                                                   *)
HoldsAreHonoured ==
    [][\A b \in Holds :
          /\ Live(b) => booking'[b].status \in {"HELD", "CONFIRMED", "CANCELLED"}
          /\ booking[b].status = "CONFIRMED"
                => booking'[b].status \in {"CONFIRMED", "CANCELLED"}]_vars

PendingConfirm(b) ==
    \E d \in Deliveries :
        delivery[d].pc = "confirm" /\ txn[delivery[d].txn].booking = b

Closed(b) ==
    booking[b].status \in {"CANCELLED", "EXPIRED"} /\ ~PendingConfirm(b)

(* A cancelled or expired booking comes back only through a webhook handler *)
(* that had already read it as held: later ones leave it alone.             *)
ClosedStaysClosed == [][\A b \in Holds : Closed(b) => Closed(b)']_vars

\* A booking that is confirmed or closed, and that no handler is confirming or
\* telling about.
Served(b) ==
    /\ booking[b].status \in {"CONFIRMED", "CANCELLED", "EXPIRED"}
    /\ \A d \in Deliveries :
          delivery[d].pc \in {"confirm", "calendar", "link", "mail"}
              => txn[delivery[d].txn].booking # b

(* Once the handlers that saw the hold alive are done with a booking, it is *)
(* done with for good: no later delivery, and no second payment of the same *)
(* hold, creates an event, mails the customer or is recorded as a success.  *)
ServedIsOver ==
    [][\A b \in Holds : Served(b) =>
          /\ Served(b)'
          /\ pushed'[b] = pushed[b]
          /\ mailed'[b] = mailed[b]
          /\ Successes(b)' \subseteq Successes(b)]_vars

\* A success that is on record, with no handler still acting on an older
\* reading of the payment.
Settled(k) ==
    /\ txn[k].status = "SUCCESS"
    /\ \A d \in Deliveries :
          delivery[d].pc \in {"readBooking", "abandon", "confirm"}
              => delivery[d].txn # k

(* A success on record stays there, however often it is delivered again:    *)
(* afterwards only the charge.failed of an earlier attempt overwrites it.   *)
RecordedStaysRecorded ==
    [][\A k \in Checkouts : Settled(k) =>
          \/ Settled(k)'
          \/ \E d \in Deliveries : delivery[d].pc = "failTxn" /\ delivery[d].txn = k]_vars

(* A charge.success is answered with 200 only once the payment row says     *)
(* when it was paid, or that it is to be refunded: Paystack will not tell   *)
(* it again.  No crash and no P2002 after the charge, no charge.failed and  *)
(* no other handler before or meanwhile, makes handleWebhook forget it.     *)
AckedChargeIsRecorded ==
    [][\A k \in Checkouts :
          <<k, "success">> \in acked' \ acked
              => txn'[k].paidAt \/ txn'[k].status = "ABANDONED"]_vars

-----------------------------------------------------------------------------
(* What must happen in the end.                                             *)

(* A hold does not keep its slot for ever: the customer pays, the           *)
(* professional cancels, or the sweep expires it.                           *)
HoldsAreReleased ==
    \A b \in Holds :
        booking[b].status = "HELD" ~> booking[b].status # "HELD"

(* Every createHold request is answered, retry or not.                      *)
RequestsAreAnswered ==
    \A h \in Holds :
        hold[h].pc = "checking"
            ~> hold[h].pc \in {"held", "notAvailable", "taken", "conflict", "failed"}

(* A payment that cleared ends up recorded, whatever handlers crash and     *)
(* whatever P2002 sends them back.                                          *)
ChargesAreRecorded ==
    \A k \in Checkouts :
        "success" \in charge[k] ~> txn[k].status \in {"SUCCESS", "ABANDONED"}

-----------------------------------------------------------------------------
(* What comments and docs of the repository say, and the code does not do.  *)

(* README.md:59-62: nobody is double-booked.  Two bookings that bind the    *)
(* professional do not overlap in time.                                     *)
NoDoubleBooking ==
    \A b, c \in Holds : b # c /\ Binding(b) /\ Binding(c) => ~Overlap(b, c)

(* bookings.service.ts:279-280: a payment does not confirm a stale slot.    *)
StaleSlotIsNotConfirmed ==
    [][\A b \in Holds :
          Lapsed(b) \/ booking[b].status = "EXPIRED"
              => booking'[b].status # "CONFIRMED"]_vars

(* bookings.service.ts:279-280: ABANDONED is for a payment that cleared     *)
(* after the hold had expired, not for the one that confirmed it.           *)
SuccessIsNotAbandoned ==
    [][\A k \in Checkouts :
          txn[k].status = "SUCCESS" => txn'[k].status # "ABANDONED"]_vars
=============================================================================
