---------------------------- MODULE BookingsProofs ----------------------------
(***************************************************************************)
(* Theorems about Bookings, for any number of requests, handlers, services, *)
(* start times and failures.                                                *)
(***************************************************************************)
EXTENDS Overlaps, TLAPS

-----------------------------------------------------------------------------
(* The inductive invariant.  The safety invariants of Bookings are not      *)
(* inductive: each step of a handler relies on what earlier ones, possibly  *)
(* of other requests, have left in the rows it does not read again.         *)

\* The phases of a handler of charge.success, and of charge.failed.
Clearing == {"readBooking", "abandon", "confirm", "calendar", "link", "mail"}
Failing == {"failTxn", "failBooking"}

\* A row is made by its request, once.
RowsFollow == \A h \in Holds : Made(h) <=> hold[h].pc = "held"

\* A payment row is made by its checkout, for a booking that exists, and
\* nothing is charged before.
PaymentsFollow ==
    \A k \in Checkouts :
        /\ checkout[k].pc \in {"initializing", "open"} =>
              checkout[k].booking \in Holds /\ Made(checkout[k].booking)
        /\ checkout[k].pc = "open" <=> txn[k].status # "NONE"
        /\ checkout[k].pc = "open" => txn[k].booking = checkout[k].booking
        /\ checkout[k].pc # "open" => txn[k].booking = None /\ charge[k] = {}

\* A handler works on an event that Paystack has.
HandlersFollow ==
    \A d \in Deliveries :
        /\ delivery[d].pc # "idle" => delivery[d].txn \in Checkouts
        /\ delivery[d].pc \in Clearing => "success" \in charge[delivery[d].txn]
        /\ delivery[d].pc \in Failing => "failed" \in charge[delivery[d].txn]

Sound ==
    /\ RowsFollow
    /\ PaymentsFollow
    /\ HandlersFollow
    /\ OneActivePerSlot
    /\ ConfirmedIsPaid
    /\ SuccessHoldsItsSlot
    /\ StatusIsBacked

IInv == TypeOK /\ Sound

-----------------------------------------------------------------------------
(* Types.                                                                   *)

(* Initially every variable has its type: there are no rows yet.            *)
LEMMA InitTypeOK == Init => TypeOK
<1> SUFFICES ASSUME Init PROVE TypeOK
  OBVIOUS
<1>1. /\ NewHold \in HoldRequest
      /\ NoBooking \in BookingRow
      /\ NewCheckout \in CheckoutRequest
      /\ NoPayment \in Payment
      /\ Idle \in Delivery
  BY BoundsAssumption
     DEF NewHold, HoldRequest, NoBooking, BookingRow, BookingStatuses,
         PaymentStatuses, NewCheckout, CheckoutRequest, NoPayment, Payment,
         Idle, Delivery
<1>2. failures \in 0 .. MaxFailures
  BY BoundsAssumption DEF Init
<1> QED
  BY <1>1, <1>2 DEF Init, TypeOK

(* Marking rows of the table expired leaves a table of rows.                *)
LEMMA ExpireType ==
    ASSUME booking \in [Holds -> BookingRow], NEW rows, Expire(rows)
    PROVE  booking' \in [Holds -> BookingRow]
BY DEF Expire, BookingRow, BookingStatuses

(* A write of one column leaves a well-typed record.                        *)
LEMMA ColumnsType ==
    /\ \A r \in HoldRequest :
          \A pc \in {"checking", "inserting", "held", "notAvailable", "failed"} :
             [r EXCEPT !.pc = pc] \in HoldRequest
    /\ \A r \in CheckoutRequest : [r EXCEPT !.pc = "failed"] \in CheckoutRequest
    /\ \A r \in Payment :
          /\ \A status \in PaymentStatuses : [r EXCEPT !.status = status] \in Payment
          /\ [r EXCEPT !.status = "SUCCESS", !.paidAt = TRUE] \in Payment
    /\ \A r \in BookingRow :
          /\ [r EXCEPT !.linked = TRUE] \in BookingRow
          /\ [r EXCEPT !.paymentStatus = "FAILED"] \in BookingRow
<1>1. \A r \in HoldRequest :
         \A pc \in {"checking", "inserting", "held", "notAvailable", "failed"} :
            [r EXCEPT !.pc = pc] \in HoldRequest
  BY DEF HoldRequest
<1>2. \A r \in CheckoutRequest : [r EXCEPT !.pc = "failed"] \in CheckoutRequest
  BY DEF CheckoutRequest
<1>3. \A r \in Payment :
         /\ \A status \in PaymentStatuses : [r EXCEPT !.status = status] \in Payment
         /\ [r EXCEPT !.status = "SUCCESS", !.paidAt = TRUE] \in Payment
  BY DEF Payment, PaymentStatuses
<1>4. \A r \in BookingRow : [r EXCEPT !.linked = TRUE] \in BookingRow
  BY DEF BookingRow
<1>5. \A r \in BookingRow : [r EXCEPT !.paymentStatus = "FAILED"] \in BookingRow
  BY DEF BookingRow, PaymentStatuses
<1> QED
  BY <1>1, <1>2, <1>3, <1>4, <1>5

(* A write to one row of a table leaves a table; to a row that is not there, *)
(* the table as it was.                                                     *)
LEMMA RowWritten ==
    ASSUME NEW Rows, NEW Record, NEW table \in [Rows -> Record], NEW row,
           NEW record, row \in Rows => record \in Record
    PROVE  [table EXCEPT ![row] = record] \in [Rows -> Record]
  OBVIOUS

(* The steps of createHold preserve the types.                              *)
LEMMA HoldTypeOK ==
    ASSUME TypeOK, NEW h \in Holds,
           \/ \E s \in Services, start \in Starts, q \in Quantities :
                 CreateHold(h, s, start, q)
           \/ HoldStep(h)
           \/ FailHold(h)
    PROVE  TypeOK'
<1> USE DEF TypeOK, requestVars, paymentVars, webhookVars, outsideVars
<1>1. ASSUME NEW s \in Services, NEW start \in Starts, NEW q \in Quantities,
             CreateHold(h, s, start, q)
      PROVE  TypeOK'
  <2> DEFINE row == service[s]
  <2>1. /\ row.duration \in Nat
        /\ row.price \in Nat
        /\ start \in Nat
        /\ q \in Nat
    BY ConfigsAssumption, DayAssumption
  <2>2. start + row.duration \in Nat /\ row.price * q \in Nat
    BY <2>1
  <2>3. hold' \in [Holds -> HoldRequest]
    BY <1>1, <2>1, <2>2 DEF CreateHold, HoldRequest
  <2> QED
    BY <1>1, <2>3 DEF CreateHold
<1>2. CASE CheckSlot(h)
  <2>1. PICK pc \in {"inserting", "notAvailable"} :
           hold' = [hold EXCEPT ![h] = [hold[h] EXCEPT !.pc = pc]]
    BY <1>2 DEF CheckSlot
  <2>2. [hold[h] EXCEPT !.pc = pc] \in HoldRequest
    BY ColumnsType
  <2>3. hold' \in [Holds -> HoldRequest]
    BY <2>1, <2>2, RowWritten
  <2> QED
    BY <1>2, <2>3 DEF CheckSlot
<1>3. CASE InsertHold(h)
  <2> DEFINE row == [status |-> "HELD", start |-> hold[h].start, end |-> hold[h].end,
                     amount |-> hold[h].amount, heldFor |-> HoldDuration,
                     paymentStatus |-> "PENDING", linked |-> FALSE]
  <2>1. booking' \in [Holds -> BookingRow]
    <3>1. row \in BookingRow
      BY BoundsAssumption
         DEF HoldRequest, BookingRow, BookingStatuses, PaymentStatuses
    <3>2. booking' = [booking EXCEPT ![h] = row]
      BY <1>3 DEF InsertHold
    <3> HIDE DEF row
    <3> QED
      BY <3>1, <3>2, RowWritten
  <2>2. hold' \in [Holds -> HoldRequest]
    <3>1. hold' = [hold EXCEPT ![h] = [hold[h] EXCEPT !.pc = "held"]]
      BY <1>3 DEF InsertHold
    <3>2. [hold[h] EXCEPT !.pc = "held"] \in HoldRequest
      BY ColumnsType
    <3> QED
      BY <3>1, <3>2, RowWritten
  <2> QED
    BY <1>3, <2>1, <2>2 DEF InsertHold
<1>4. ASSUME InsertFails(h)
      PROVE  TypeOK'
  <2> DEFINE next == IF hold[h].allowRetry THEN "reclaiming" ELSE "conflict"
  <2>1. [hold[h] EXCEPT !.pc = next] \in HoldRequest
    BY DEF HoldRequest
  <2>2. hold' \in [Holds -> HoldRequest]
    BY <1>4, <2>1 DEF InsertFails
  <2> QED
    BY <1>4, <2>2 DEF InsertFails
<1>5. CASE SlotConflict(h)
  BY <1>4, <1>5 DEF SlotConflict
<1>6. CASE ReferenceConflict(h)
  BY <1>4, <1>6 DEF ReferenceConflict
<1>7. CASE Reclaim(h)
  <2>1. booking' \in [Holds -> BookingRow]
    BY <1>7, ExpireType DEF Reclaim
  <2> DEFINE r == [hold[h] EXCEPT !.pc = "checking", !.allowRetry = FALSE]
             t == [hold[h] EXCEPT !.pc = "taken"]
  <2>2. r \in HoldRequest /\ t \in HoldRequest
    BY DEF HoldRequest
  <2>3. hold' = [hold EXCEPT ![h] = r] \/ hold' = [hold EXCEPT ![h] = t]
    BY <1>7 DEF Reclaim
  <2> HIDE DEF r, t
  <2>4. hold' \in [Holds -> HoldRequest]
    BY <2>2, <2>3
  <2> QED
    BY <1>7, <2>1, <2>4 DEF Reclaim
<1>8. CASE FailHold(h)
  <2>1. [hold[h] EXCEPT !.pc = "failed"] \in HoldRequest
    BY ColumnsType
  <2>2. hold' \in [Holds -> HoldRequest]
    BY <1>8, <2>1, RowWritten DEF FailHold
  <2>3. failures' \in 0 .. MaxFailures
    BY <1>8, BoundsAssumption DEF FailHold, MayFail
  <2> QED
    BY <1>8, <2>2, <2>3 DEF FailHold
<1> QED
  BY <1>1, <1>2, <1>3, <1>5, <1>6, <1>7, <1>8 DEF HoldStep

(* The steps of initCheckout, and what Paystack reports, preserve the types. *)
LEMMA CheckoutTypeOK ==
    ASSUME TypeOK, NEW k \in Checkouts,
           \/ \E b \in Holds : InitCheckout(k, b)
           \/ OpenCheckout(k)
           \/ FailCheckout(k)
           \/ \E e \in Events : Charge(k, e)
    PROVE  TypeOK'
<1> USE DEF TypeOK, requestVars, paymentVars, webhookVars, outsideVars
<1>1. ASSUME NEW b \in Holds, InitCheckout(k, b)
      PROVE  TypeOK'
  <2>1. booking[b].amount \in Nat
    BY DEF BookingRow
  <2> QED
    BY <1>1, <2>1 DEF InitCheckout, CheckoutRequest
<1>2. CASE OpenCheckout(k)
  <2>1. checkout[k].booking \in Holds \cup {None} /\ checkout[k].amount \in Nat
    BY DEF CheckoutRequest
  <2>2. txn' \in [Checkouts -> Payment]
    BY <1>2, <2>1 DEF OpenCheckout, Payment, PaymentStatuses
  <2> QED
    BY <1>2, <2>2 DEF OpenCheckout, CheckoutRequest
<1>3. CASE FailCheckout(k)
  <2>1. [checkout[k] EXCEPT !.pc = "failed"] \in CheckoutRequest
    BY ColumnsType
  <2>2. checkout' \in [Checkouts -> CheckoutRequest]
    BY <1>3, <2>1, RowWritten DEF FailCheckout
  <2>3. failures' \in 0 .. MaxFailures
    BY <1>3, BoundsAssumption DEF FailCheckout, MayFail
  <2> QED
    BY <1>3, <2>2, <2>3 DEF FailCheckout
<1>4. ASSUME NEW e \in Events, Charge(k, e)
      PROVE  TypeOK'
  BY <1>4 DEF Charge
<1> QED
  BY <1>1, <1>2, <1>3, <1>4

(* The steps of handleWebhook preserve the types.                           *)
LEMMA HandlerTypeOK ==
    ASSUME TypeOK, PaymentsFollow, HandlersFollow, NEW d \in Deliveries,
           \/ \E k \in Checkouts, e \in Events : ReceiveWebhook(d, k, e)
           \/ HandlerStep(d)
           \/ FailDelivery(d)
    PROVE  TypeOK'
<1> USE DEF TypeOK, requestVars, paymentVars, webhookVars, outsideVars
<1> DEFINE k == delivery[d].txn
           b == txn[k].booking
<1>1. Idle \in Delivery
  BY DEF Idle, Delivery
<1>2. ASSUME NEW j \in Checkouts, NEW e \in Events, Acknowledge(d, j, e)
      PROVE  /\ delivery' \in [Deliveries -> Delivery]
             /\ acked' \subseteq Checkouts \X Events
  BY <1>1, <1>2 DEF Acknowledge
<1>3. ASSUME NEW pc \in {"readBooking", "abandon", "confirm", "calendar", "link",
                         "mail", "failTxn", "failBooking"},
             DeliveryGoesTo(d, pc)
      PROVE  delivery' \in [Deliveries -> Delivery]
  BY <1>3 DEF DeliveryGoesTo, Delivery
<1>4. ASSUME delivery[d].pc # "idle"
      PROVE  /\ k \in Checkouts
             /\ b \in Holds
             /\ delivery[d].pc \in Clearing => "success" \in Events
             /\ delivery[d].pc \in Failing => "failed" \in Events
  <2>1. delivery[d].pc \in Clearing \cup Failing
    BY <1>4 DEF Delivery, Clearing, Failing
  <2>2. /\ k \in Checkouts
        /\ delivery[d].pc \in Clearing => "success" \in charge[k]
        /\ delivery[d].pc \in Failing => "failed" \in charge[k]
    BY <1>4 DEF HandlersFollow
  <2>3. checkout[k].pc = "open"
    BY <2>1, <2>2 DEF PaymentsFollow
  <2>4. b \in Holds
    BY <2>2, <2>3 DEF PaymentsFollow
  <2> QED
    BY <2>2, <2>4
<1>5. ASSUME NEW j \in Checkouts, NEW e \in Events, ReceiveWebhook(d, j, e)
      PROVE  TypeOK'
  <2>1. /\ delivery' \in [Deliveries -> Delivery]
        /\ acked' \subseteq Checkouts \X Events
    BY <1>2, <1>5 DEF ReceiveWebhook, Delivery
  <2> QED
    BY <1>5, <2>1 DEF ReceiveWebhook
<1>6. CASE ReadBooking(d)
  BY <1>3, <1>6 DEF ReadBooking
<1>7. CASE Abandon(d)
  <2>1. k \in Checkouts /\ "success" \in Events
    BY <1>4, <1>7 DEF Abandon, Clearing
  <2>2. txn' \in [Checkouts -> Payment]
    <3>1. txn' = [txn EXCEPT ![k] = [txn[k] EXCEPT !.status = "ABANDONED"]]
      BY <1>7 DEF Abandon
    <3>2. [txn[k] EXCEPT !.status = "ABANDONED"] \in Payment
      BY <2>1, ColumnsType DEF PaymentStatuses
    <3> QED
      BY <3>1, <3>2, RowWritten
  <2> QED
    BY <1>2, <1>7, <2>1, <2>2 DEF Abandon
<1>8. CASE Confirm(d)
  <2>1. txn' \in [Checkouts -> Payment]
    <3>1. txn' = [txn EXCEPT ![k] = [txn[k] EXCEPT !.status = "SUCCESS", !.paidAt = TRUE]]
      BY <1>8 DEF Confirm
    <3>2. k \in Checkouts
      BY <1>4, <1>8 DEF Confirm
    <3>3. [txn[k] EXCEPT !.status = "SUCCESS", !.paidAt = TRUE] \in Payment
      BY <3>2, ColumnsType
    <3> QED
      BY <3>1, <3>3, RowWritten
  <2> DEFINE r == [booking[b] EXCEPT !.status = "CONFIRMED",
                                     !.paymentStatus = "SUCCESS"]
  <2>2. booking' = [booking EXCEPT ![b] = r]
    BY <1>8 DEF Confirm
  <2>3. b \in Holds
    BY <1>4, <1>8 DEF Confirm
  <2>4. r \in BookingRow
    <3>1. booking[b] \in BookingRow
      BY <2>3
    <3> HIDE DEF b
    <3> QED
      BY <3>1 DEF BookingRow, BookingStatuses, PaymentStatuses
  <2> HIDE DEF r
  <2>5. booking' \in [Holds -> BookingRow]
    BY <2>2, <2>4
  <2> QED
    BY <1>3, <1>8, <2>1, <2>5 DEF Confirm
<1>9. CASE ConfirmConflict(d)
  BY <1>1, <1>9 DEF ConfirmConflict
<1>10. CASE PushCalendar(d)
  <2>1. pushed' \in [Holds -> Nat]
    BY <1>10 DEF PushCalendar
  <2> QED
    BY <1>3, <1>10, <2>1 DEF PushCalendar
<1>11. CASE LinkEvent(d)
  <2>1. booking' \in [Holds -> BookingRow]
    <3>1. booking' = [booking EXCEPT ![b] = [booking[b] EXCEPT !.linked = TRUE]]
      BY <1>11 DEF LinkEvent
    <3>2. b \in Holds
      BY <1>4, <1>11 DEF LinkEvent
    <3>3. [booking[b] EXCEPT !.linked = TRUE] \in BookingRow
      BY <3>2, ColumnsType
    <3> QED
      BY <3>1, <3>3, RowWritten
  <2> QED
    BY <1>3, <1>11, <2>1 DEF LinkEvent
<1>12. CASE SendConfirmation(d)
  <2>1. k \in Checkouts /\ "success" \in Events
    BY <1>4, <1>12 DEF SendConfirmation, Clearing
  <2>2. delivery' \in [Deliveries -> Delivery]
    BY <1>1, <1>12 DEF SendConfirmation, Acknowledge
  <2>3. mailed' \in [Holds -> Nat]
    <3>1. mailed' = [mailed EXCEPT ![b] = mailed[b] + 1] \/ mailed' = mailed
      BY <1>12 DEF SendConfirmation
    <3>2. b \in Holds
      BY <1>4, <1>12 DEF SendConfirmation
    <3> HIDE DEF b
    <3> QED
      BY <3>1, <3>2
  <2>4. acked' \subseteq Checkouts \X Events
    BY <1>12, <2>1 DEF SendConfirmation, Acknowledge
  <2>5. UNCHANGED <<service, hold, booking, checkout, txn, charge, pushed, failures>>
    BY <1>12 DEF SendConfirmation
  <2> QED
    BY <2>2, <2>3, <2>4, <2>5
<1>13. CASE FailTxn(d)
  <2>1. txn' \in [Checkouts -> Payment]
    <3>1. txn' = [txn EXCEPT ![k] = [txn[k] EXCEPT !.status = "FAILED"]]
      BY <1>13 DEF FailTxn
    <3>2. k \in Checkouts
      BY <1>4, <1>13 DEF FailTxn
    <3>3. [txn[k] EXCEPT !.status = "FAILED"] \in Payment
      BY <3>2, ColumnsType DEF PaymentStatuses
    <3> QED
      BY <3>1, <3>3, RowWritten
  <2> QED
    BY <1>3, <1>13, <2>1 DEF FailTxn
<1>14. CASE FailBooking(d)
  <2>1. k \in Checkouts /\ "failed" \in Events
    BY <1>4, <1>14 DEF FailBooking, Failing
  <2>2. booking' \in [Holds -> BookingRow]
    <3>1. booking' = [booking EXCEPT ![b] = [booking[b] EXCEPT !.paymentStatus = "FAILED"]]
      BY <1>14 DEF FailBooking
    <3>2. b \in Holds
      BY <1>4, <1>14 DEF FailBooking
    <3>3. [booking[b] EXCEPT !.paymentStatus = "FAILED"] \in BookingRow
      BY <3>2, ColumnsType
    <3> QED
      BY <3>1, <3>3, RowWritten
  <2> QED
    BY <1>2, <1>14, <2>1, <2>2 DEF FailBooking
<1>15. CASE FailDelivery(d)
  BY <1>1, <1>15, BoundsAssumption DEF FailDelivery, MayFail
<1> QED
  BY <1>5, <1>6, <1>7, <1>8, <1>9, <1>10, <1>11, <1>12, <1>13, <1>14, <1>15
     DEF HandlerStep

(* The professional, the sweep and the clock preserve the types.            *)
LEMMA OthersTypeOK ==
    ASSUME TypeOK,
           \/ \E s \in Services, config \in ServiceConfigs : UpdateService(s, config)
           \/ \E b \in Holds : Cancel(b)
           \/ SweepExpiredHolds
           \/ Tick
    PROVE  TypeOK'
<1> USE DEF TypeOK, requestVars, paymentVars, webhookVars, outsideVars
<1>1. ASSUME NEW s \in Services, NEW config \in ServiceConfigs,
             UpdateService(s, config)
      PROVE  TypeOK'
  BY <1>1 DEF UpdateService
<1>2. ASSUME NEW b \in Holds, Cancel(b)
      PROVE  TypeOK'
  BY <1>2 DEF Cancel, BookingRow, BookingStatuses
<1>3. CASE SweepExpiredHolds
  BY <1>3, ExpireType DEF SweepExpiredHolds
<1>4. CASE Tick
  <2>1. ASSUME NEW b \in Holds, booking[b].heldFor > -1
        PROVE  [booking[b] EXCEPT !.heldFor = @ - 1] \in BookingRow
    BY <2>1, BoundsAssumption DEF BookingRow
  <2>2. booking' \in [Holds -> BookingRow]
    BY <1>4, <2>1 DEF Tick
  <2> QED
    BY <1>4, <2>2 DEF Tick
<1> QED
  BY <1>1, <1>2, <1>3, <1>4

-----------------------------------------------------------------------------
(* Safety.  Most steps disturb little; two lemmas say how little is enough  *)
(* to keep the invariant.                                                   *)

(* Rows may be cancelled, and held rows may expire, under everybody's feet. *)
LEMMA RowsMayClose ==
    ASSUME TypeOK, Sound,
           UNCHANGED <<checkout, txn, charge, delivery, acked>>,
           \A b \in Holds :
              /\ hold'[b].pc = "held" <=> hold[b].pc = "held"
              /\ booking'[b].start = booking[b].start
              /\ booking'[b].paymentStatus = booking[b].paymentStatus
              /\ \/ booking'[b].status = booking[b].status
                 \/ booking[b].status = "HELD" /\ booking'[b].status = "EXPIRED"
                 \/ Made(b) /\ booking'[b].status = "CANCELLED"
    PROVE  Sound'
<1>1. \A b \in Holds : Made(b)' <=> Made(b)
  BY DEF Made
<1>2. RowsFollow'
  BY <1>1 DEF Sound, RowsFollow
<1>3. PaymentsFollow'
  BY <1>1 DEF Sound, PaymentsFollow
<1>4. HandlersFollow'
  BY DEF Sound, HandlersFollow
<1>5. OneActivePerSlot'
  BY DEF Sound, OneActivePerSlot, Active, Occupying
<1>6. ConfirmedIsPaid'
  BY DEF Sound, ConfirmedIsPaid, PaidFor
<1>7. SuccessHoldsItsSlot'
  <2> SUFFICES ASSUME NEW k \in Checkouts, txn[k].status = "SUCCESS"
               PROVE  booking'[txn[k].booking].status \in {"CONFIRMED", "CANCELLED"}
    BY DEF SuccessHoldsItsSlot
  <2>1. txn[k].booking \in Holds
    BY DEF Sound, PaymentsFollow
  <2> QED
    BY <2>1 DEF Sound, SuccessHoldsItsSlot
<1>8. StatusIsBacked'
  BY DEF Sound, StatusIsBacked, PaidFor, FailedFor
<1> QED
  BY <1>2, <1>3, <1>4, <1>5, <1>6, <1>7, <1>8 DEF Sound

\* What a step of a handler other than the confirmation may do to payment k.
OutcomeAllowed(k) ==
    \/ txn'[k].status = txn[k].status
    \/ /\ "success" \in charge[k]
       /\ txn'[k].status = "ABANDONED"
    \/ /\ "failed" \in charge[k]
       /\ txn'[k].status = "FAILED"

(* A handler may write the outcomes Paystack has reported, and go on.       *)
LEMMA HandlersMayRecord ==
    ASSUME TypeOK, Sound, NEW d \in Deliveries,
           UNCHANGED <<hold, checkout, charge>>,
           \A b \in Holds : /\ booking'[b].start = booking[b].start
                            /\ booking'[b].status = booking[b].status
                            /\ \/ booking'[b].paymentStatus = booking[b].paymentStatus
                               \/ FailedFor(b) /\ booking'[b].paymentStatus = "FAILED",
           \A k \in Checkouts : /\ txn'[k].booking = txn[k].booking
                                /\ OutcomeAllowed(k),
           \A e \in Deliveries \ {d} : delivery'[e] = delivery[e],
           delivery'[d].pc # "idle" => delivery'[d].txn \in Checkouts,
           delivery'[d].pc \in Clearing => "success" \in charge[delivery'[d].txn],
           delivery'[d].pc \in Failing => "failed" \in charge[delivery'[d].txn]
    PROVE  Sound'
<1>1. \A b \in Holds : Made(b)' <=> Made(b)
  BY DEF Made
<1>2. \A b \in Holds : /\ PaidFor(b)' <=> PaidFor(b)
                       /\ FailedFor(b)' <=> FailedFor(b)
  BY DEF PaidFor, FailedFor
<1>3. \A k \in Checkouts :
         txn[k].status # "NONE" <=> txn'[k].status # "NONE"
  BY DEF OutcomeAllowed, Sound, PaymentsFollow
<1>4. RowsFollow'
  BY <1>1 DEF Sound, RowsFollow
<1>5. PaymentsFollow'
  BY <1>1, <1>3 DEF Sound, PaymentsFollow
<1>6. HandlersFollow'
  BY DEF Sound, HandlersFollow, Clearing, Failing
<1>7. OneActivePerSlot'
  BY DEF Sound, OneActivePerSlot, Active
<1>8. ConfirmedIsPaid'
  BY <1>2 DEF Sound, ConfirmedIsPaid
<1>9. SuccessHoldsItsSlot'
  <2> SUFFICES ASSUME NEW k \in Checkouts, txn'[k].status = "SUCCESS"
               PROVE  booking'[txn'[k].booking].status \in {"CONFIRMED", "CANCELLED"}
    BY DEF SuccessHoldsItsSlot
  <2>1. txn[k].status = "SUCCESS"
    BY DEF OutcomeAllowed
  <2>2. txn[k].booking \in Holds
    BY <2>1 DEF Sound, PaymentsFollow
  <2> QED
    BY <2>1, <2>2 DEF Sound, SuccessHoldsItsSlot
<1>10. StatusIsBacked'
  <2>1. \A k \in Checkouts :
           /\ txn'[k].status \in {"SUCCESS", "ABANDONED"} => "success" \in charge'[k]
           /\ txn'[k].status = "FAILED" => "failed" \in charge'[k]
    BY DEF Sound, StatusIsBacked, OutcomeAllowed
  <2> QED
    BY <1>2, <2>1 DEF Sound, StatusIsBacked
<1> QED
  BY <1>4, <1>5, <1>6, <1>7, <1>8, <1>9, <1>10 DEF Sound

(* There is nothing to be wrong about initially.                            *)
LEMMA InitSound == Init => Sound
<1> SUFFICES ASSUME Init PROVE Sound
  OBVIOUS
<1>1. RowsFollow /\ OneActivePerSlot /\ ConfirmedIsPaid
  BY DEF Init, RowsFollow, Made, NoBooking, NewHold, OneActivePerSlot, Active,
         Occupying, ConfirmedIsPaid
<1>2. PaymentsFollow /\ SuccessHoldsItsSlot /\ StatusIsBacked
  BY DEF Init, PaymentsFollow, NewCheckout, NoPayment, SuccessHoldsItsSlot,
         StatusIsBacked, NoBooking
<1>3. HandlersFollow
  BY DEF Init, HandlersFollow, Idle, Clearing, Failing
<1> QED
  BY <1>1, <1>2, <1>3 DEF Sound

(* The steps of createHold.  The insert needs the index, and that the row   *)
(* it writes is new: nobody has paid for it.                                *)
LEMMA HoldSound ==
    ASSUME IInv, NEW h \in Holds,
           \/ \E s \in Services, start \in Starts, q \in Quantities :
                 CreateHold(h, s, start, q)
           \/ HoldStep(h)
           \/ FailHold(h)
    PROVE  Sound'
<1> USE DEF IInv, requestVars, paymentVars, webhookVars, outsideVars
<1>1. ASSUME NEW s \in Services, NEW start \in Starts, NEW q \in Quantities,
             CreateHold(h, s, start, q)
      PROVE  Sound'
  <2>1. \A b \in Holds : hold'[b].pc = "held" <=> hold[b].pc = "held"
    BY <1>1 DEF CreateHold, TypeOK
  <2>2. UNCHANGED <<booking, checkout, txn, charge, delivery, acked>>
    BY <1>1 DEF CreateHold
  <2> QED
    BY <2>1, <2>2, RowsMayClose
<1>2. CASE CheckSlot(h) \/ FailHold(h)
  <2>1. \A b \in Holds : hold'[b].pc = "held" <=> hold[b].pc = "held"
    BY <1>2 DEF CheckSlot, FailHold, TypeOK, HoldRequest
  <2>2. UNCHANGED <<booking, checkout, txn, charge, delivery, acked>>
    BY <1>2 DEF CheckSlot, FailHold
  <2> QED
    BY <2>1, <2>2, RowsMayClose
<1>3. ASSUME hold[h].pc = "inserting", InsertFails(h)
      PROVE  Sound'
  <2>1. \A b \in Holds : hold'[b].pc = "held" <=> hold[b].pc = "held"
    BY <1>3 DEF InsertFails, TypeOK, HoldRequest
  <2>2. UNCHANGED <<booking, checkout, txn, charge, delivery, acked>>
    BY <1>3 DEF InsertFails
  <2> QED
    BY <2>1, <2>2, RowsMayClose
<1>4. CASE SlotConflict(h) \/ ReferenceConflict(h)
  BY <1>3, <1>4 DEF SlotConflict, ReferenceConflict
<1>5. CASE Reclaim(h)
  <2>1. \A b \in Holds : hold'[b].pc = "held" <=> hold[b].pc = "held"
    BY <1>5 DEF Reclaim, TypeOK, HoldRequest
  <2>2. \A b \in Holds :
           /\ booking'[b].start = booking[b].start
           /\ booking'[b].paymentStatus = booking[b].paymentStatus
           /\ \/ booking'[b].status = booking[b].status
              \/ booking[b].status = "HELD" /\ booking'[b].status = "EXPIRED"
    BY <1>5 DEF Reclaim, Expire, Lapsed, TypeOK, BookingRow
  <2>3. UNCHANGED <<checkout, txn, charge, delivery, acked>>
    BY <1>5 DEF Reclaim
  <2> QED
    BY <2>1, <2>2, <2>3, RowsMayClose
<1>6. CASE InsertHold(h)
  <2>1. UNCHANGED <<checkout, txn, charge, delivery, acked>>
    BY <1>6 DEF InsertHold
  <2>2. ~Made(h)
    BY <1>6 DEF InsertHold, Sound, RowsFollow
  <2>3. /\ booking'[h].status = "HELD"
        /\ booking'[h].start = hold[h].start
        /\ booking'[h].paymentStatus = "PENDING"
        /\ \A b \in Holds \ {h} : booking'[b] = booking[b]
        /\ \A b \in Holds \ {h} : hold'[b] = hold[b]
        /\ hold'[h].pc = "held"
    BY <1>6 DEF InsertHold, TypeOK, HoldRequest
  <2>4. \A k \in Checkouts : txn[k].status # "NONE" =>
           txn[k].booking \in Holds \ {h}
    BY <2>2 DEF Sound, PaymentsFollow
  <2>5. RowsFollow'
    BY <2>3 DEF Sound, RowsFollow, Made
  <2>6. PaymentsFollow'
    BY <2>1, <2>2, <2>3 DEF Sound, PaymentsFollow, Made
  <2>7. HandlersFollow' /\ StatusIsBacked'
    BY <2>1, <2>3 DEF Sound, HandlersFollow, StatusIsBacked, PaidFor, FailedFor
  <2>8. OneActivePerSlot'
    <3>1. \A c \in Holds \ {h} : Active(c) => booking[c].start # hold[h].start
      BY <1>6 DEF InsertHold, IndexAllows, Active
    <3> QED
      BY <2>3, <3>1 DEF Sound, OneActivePerSlot, Active
  <2>9. ConfirmedIsPaid'
    BY <2>1, <2>3 DEF Sound, ConfirmedIsPaid, PaidFor
  <2>10. SuccessHoldsItsSlot'
    BY <2>1, <2>3, <2>4 DEF Sound, SuccessHoldsItsSlot
  <2> QED
    BY <2>5, <2>6, <2>7, <2>8, <2>9, <2>10 DEF Sound
<1> QED
  BY <1>1, <1>2, <1>4, <1>5, <1>6 DEF HoldStep

(* The steps of initCheckout and of the customer.  A payment row opens with *)
(* nothing charged, and charges only add to what Paystack has to tell.      *)
LEMMA CheckoutSound ==
    ASSUME IInv, NEW k \in Checkouts,
           \/ \E b \in Holds : InitCheckout(k, b)
           \/ OpenCheckout(k)
           \/ FailCheckout(k)
           \/ \E e \in Events : Charge(k, e)
    PROVE  Sound'
<1> USE DEF IInv, requestVars, paymentVars, webhookVars, outsideVars
<1>1. ASSUME UNCHANGED <<hold, booking, txn, charge, delivery, acked>>,
             PaymentsFollow'
      PROVE  Sound'
  <2>1. RowsFollow' /\ OneActivePerSlot'
    BY <1>1 DEF Sound, RowsFollow, Made, OneActivePerSlot, Active
  <2>2. ConfirmedIsPaid' /\ SuccessHoldsItsSlot' /\ StatusIsBacked'
    BY <1>1 DEF Sound, ConfirmedIsPaid, PaidFor, FailedFor, SuccessHoldsItsSlot,
                StatusIsBacked
  <2>3. HandlersFollow'
    BY <1>1 DEF Sound, HandlersFollow
  <2> QED
    BY <1>1, <2>1, <2>2, <2>3 DEF Sound
<1>2. ASSUME NEW b \in Holds, InitCheckout(k, b)
      PROVE  Sound'
  <2>1. PaymentsFollow'
    BY <1>2 DEF InitCheckout, Sound, PaymentsFollow, Made, TypeOK
  <2> QED
    BY <1>1, <1>2, <2>1 DEF InitCheckout
<1>3. CASE FailCheckout(k)
  <2>1. PaymentsFollow'
    BY <1>3 DEF FailCheckout, Sound, PaymentsFollow, Made, TypeOK, CheckoutRequest
  <2> QED
    BY <1>1, <1>3, <2>1 DEF FailCheckout
<1>4. CASE OpenCheckout(k)
  <2>1. UNCHANGED <<hold, booking, charge, delivery, acked>>
    BY <1>4 DEF OpenCheckout
  <2>2. /\ txn[k].status = "NONE"
        /\ charge[k] = {}
        /\ checkout[k].booking \in Holds /\ Made(checkout[k].booking)
    BY <1>4 DEF OpenCheckout, Sound, PaymentsFollow
  <2>3. /\ txn'[k].status = "PENDING"
        /\ txn'[k].booking = checkout[k].booking
        /\ \A j \in Checkouts \ {k} : txn'[j] = txn[j] /\ checkout'[j] = checkout[j]
        /\ checkout'[k].pc = "open"
        /\ checkout'[k].booking = checkout[k].booking
    BY <1>4 DEF OpenCheckout, TypeOK, CheckoutRequest
  <2>4. RowsFollow' /\ OneActivePerSlot'
    BY <2>1 DEF Sound, RowsFollow, Made, OneActivePerSlot, Active
  <2>5. PaymentsFollow'
    BY <2>1, <2>2, <2>3 DEF Sound, PaymentsFollow, Made
  <2>6. \A j \in Checkouts : "success" \in charge[j] \/ "failed" \in charge[j] =>
            txn'[j] = txn[j]
    BY <2>2, <2>3
  <2>7. HandlersFollow'
    BY <2>1 DEF Sound, HandlersFollow
  <2>8. ConfirmedIsPaid'
    BY <2>1, <2>6 DEF Sound, ConfirmedIsPaid, PaidFor
  <2>9. SuccessHoldsItsSlot'
    BY <2>1, <2>3 DEF Sound, SuccessHoldsItsSlot
  <2>10. StatusIsBacked'
    BY <2>1, <2>3, <2>6 DEF Sound, StatusIsBacked, PaidFor, FailedFor
  <2> QED
    BY <2>4, <2>5, <2>7, <2>8, <2>9, <2>10 DEF Sound
<1>5. ASSUME NEW e \in Events, Charge(k, e)
      PROVE  Sound'
  <2>1. UNCHANGED <<hold, booking, checkout, txn, delivery, acked>>
    BY <1>5 DEF Charge
  <2>2. \A j \in Checkouts : charge[j] \subseteq charge'[j]
    BY <1>5 DEF Charge, TypeOK
  <2>3. \A j \in Checkouts \ {k} : charge'[j] = charge[j]
    BY <1>5 DEF Charge, TypeOK
  <2>4. checkout[k].pc = "open"
    BY <1>5 DEF Charge
  <2>5. RowsFollow' /\ OneActivePerSlot'
    BY <2>1 DEF Sound, RowsFollow, Made, OneActivePerSlot, Active
  <2>6. PaymentsFollow'
    BY <2>1, <2>3, <2>4 DEF Sound, PaymentsFollow, Made
  <2>7. ConfirmedIsPaid' /\ SuccessHoldsItsSlot' /\ StatusIsBacked'
    BY <2>1, <2>2 DEF Sound, ConfirmedIsPaid, PaidFor, FailedFor,
                      SuccessHoldsItsSlot, StatusIsBacked
  <2>8. HandlersFollow'
    BY <2>1, <2>2 DEF Sound, HandlersFollow, Clearing, Failing
  <2> QED
    BY <2>5, <2>6, <2>7, <2>8 DEF Sound
<1> QED
  BY <1>2, <1>3, <1>4, <1>5

(* The professional, the sweep and the clock.                               *)
LEMMA OthersSound ==
    ASSUME IInv,
           \/ \E s \in Services, config \in ServiceConfigs : UpdateService(s, config)
           \/ \E b \in Holds : Cancel(b)
           \/ SweepExpiredHolds
           \/ Tick
    PROVE  Sound'
<1> USE DEF IInv, requestVars, paymentVars, webhookVars, outsideVars
<1>1. UNCHANGED <<hold, checkout, txn, charge, delivery, acked>>
  BY DEF UpdateService, Cancel, SweepExpiredHolds, Tick
<1> DEFINE Closes(b) ==
             /\ booking'[b].start = booking[b].start
             /\ booking'[b].paymentStatus = booking[b].paymentStatus
             /\ \/ booking'[b].status = booking[b].status
                \/ booking[b].status = "HELD" /\ booking'[b].status = "EXPIRED"
                \/ Made(b) /\ booking'[b].status = "CANCELLED"
<1>2. ASSUME NEW b \in Holds
      PROVE  Closes(b)
  <2>1. booking[b] \in BookingRow
    BY DEF TypeOK
  <2>2. ASSUME NEW c \in Holds, Cancel(c)
        PROVE  Closes(b)
    BY <2>1, <2>2 DEF Cancel, TypeOK, BookingRow
  <2>3. CASE SweepExpiredHolds
    BY <2>1, <2>3 DEF SweepExpiredHolds, Expire, Lapsed, BookingRow
  <2>4. CASE Tick
    BY <2>1, <2>4 DEF Tick, BookingRow
  <2>5. ASSUME NEW s \in Services, NEW config \in ServiceConfigs,
               UpdateService(s, config)
        PROVE  Closes(b)
    BY <2>5 DEF UpdateService
  <2> QED
    BY <2>2, <2>3, <2>4, <2>5
<1> QED
  BY <1>1, <1>2, RowsMayClose

(* The steps of handleWebhook.  Abandon and FailTxn write what Paystack has *)
(* reported; Confirm needs the index and that the payment has been charged. *)
LEMMA HandlerSound ==
    ASSUME IInv, NEW d \in Deliveries,
           \/ \E k \in Checkouts, e \in Events : ReceiveWebhook(d, k, e)
           \/ HandlerStep(d)
           \/ FailDelivery(d)
    PROVE  Sound'
<1> USE DEF IInv, requestVars, paymentVars, webhookVars, outsideVars
<1> DEFINE k == delivery[d].txn
           b == txn[k].booking
<1>1. Idle.pc = "idle"
  BY DEF Idle
<1>2. delivery[d] \in Delivery
  BY DEF TypeOK
<1>3. ASSUME delivery[d].pc \in Clearing \cup Failing
      PROVE  /\ k \in Checkouts
             /\ delivery[d].pc \in Clearing => "success" \in charge[k]
             /\ delivery[d].pc \in Failing => "failed" \in charge[k]
             /\ txn[k].status # "NONE"
             /\ b \in Holds
             /\ Made(b)
  <2>1. /\ k \in Checkouts
        /\ delivery[d].pc \in Clearing => "success" \in charge[k]
        /\ delivery[d].pc \in Failing => "failed" \in charge[k]
    BY <1>3 DEF Sound, HandlersFollow, Clearing, Failing
  <2>2. checkout[k].pc = "open"
    BY <1>3, <2>1 DEF Sound, PaymentsFollow
  <2> QED
    BY <2>1, <2>2 DEF Sound, PaymentsFollow
<1>4. ASSUME NEW j \in Checkouts, NEW e \in Events, ReceiveWebhook(d, j, e)
      PROVE  Sound'
  <2>1. UNCHANGED <<hold, booking, checkout, txn, charge>>
    BY <1>4 DEF ReceiveWebhook
  <2>2. CASE e = "success" /\ txn[j].status = "SUCCESS"
    <3>1. delivery' = [delivery EXCEPT ![d] = Idle]
      BY <1>4, <2>2 DEF ReceiveWebhook, Acknowledge
    <3>2. delivery'[d].pc = "idle" /\ \A x \in Deliveries \ {d} : delivery'[x] = delivery[x]
      BY <1>1, <3>1 DEF TypeOK
    <3> QED
      BY <2>1, <3>2, HandlersMayRecord
         DEF OutcomeAllowed, Clearing, Failing
  <2>3. CASE e = "success" /\ txn[j].status # "SUCCESS"
    <3>1. delivery' = [delivery EXCEPT ![d] = [pc |-> "readBooking", txn |-> j]]
      BY <1>4, <2>3 DEF ReceiveWebhook
    <3>2. /\ delivery'[d].pc = "readBooking" /\ delivery'[d].txn = j
          /\ \A x \in Deliveries \ {d} : delivery'[x] = delivery[x]
      BY <3>1 DEF TypeOK
    <3>3. "success" \in charge[j]
      BY <1>4, <2>3 DEF ReceiveWebhook
    <3> QED
      BY <2>1, <3>2, <3>3, HandlersMayRecord DEF OutcomeAllowed, Clearing, Failing
  <2>4. CASE e = "failed"
    <3>1. delivery' = [delivery EXCEPT ![d] = [pc |-> "failTxn", txn |-> j]]
      BY <1>4, <2>4 DEF ReceiveWebhook
    <3>2. /\ delivery'[d].pc = "failTxn" /\ delivery'[d].txn = j
          /\ \A x \in Deliveries \ {d} : delivery'[x] = delivery[x]
      BY <3>1 DEF TypeOK
    <3>3. "failed" \in charge[j]
      BY <1>4, <2>4 DEF ReceiveWebhook
    <3> QED
      BY <2>1, <3>2, <3>3, HandlersMayRecord DEF OutcomeAllowed, Clearing, Failing
  <2> QED
    BY <1>4, <2>2, <2>3, <2>4 DEF ReceiveWebhook
<1>5. ASSUME NEW pc, DeliveryGoesTo(d, pc)
      PROVE  /\ delivery'[d].pc = pc
             /\ delivery'[d].txn = k
             /\ \A x \in Deliveries \ {d} : delivery'[x] = delivery[x]
  BY <1>2, <1>5 DEF DeliveryGoesTo, TypeOK, Delivery
<1>6. ASSUME NEW e, Acknowledge(d, k, e)
      PROVE  /\ delivery'[d].pc = "idle"
             /\ \A x \in Deliveries \ {d} : delivery'[x] = delivery[x]
  BY <1>1, <1>6 DEF Acknowledge, TypeOK
<1>7. CASE ReadBooking(d)
  <2>1. "success" \in charge[k] /\ k \in Checkouts
    BY <1>3, <1>7 DEF ReadBooking, Clearing
  <2>2. /\ delivery'[d].pc \in {"confirm", "abandon"}
        /\ delivery'[d].txn = k
        /\ \A x \in Deliveries \ {d} : delivery'[x] = delivery[x]
    BY <1>5, <1>7 DEF ReadBooking
  <2>3. UNCHANGED <<hold, booking, checkout, txn, charge>>
    BY <1>7 DEF ReadBooking
  <2> QED
    BY <2>1, <2>2, <2>3, HandlersMayRecord DEF OutcomeAllowed, Clearing, Failing
<1>8. CASE Abandon(d)
  <2>1. "success" \in charge[k] /\ k \in Checkouts
    BY <1>3, <1>8 DEF Abandon, Clearing
  <2>2. UNCHANGED <<hold, booking, checkout, charge>>
    BY <1>8 DEF Abandon
  <2>3. /\ \A j \in Checkouts : txn'[j].booking = txn[j].booking
        /\ \A j \in Checkouts \ {k} : txn'[j].status = txn[j].status
        /\ txn'[k].status = "ABANDONED"
    BY <1>8, <2>1 DEF Abandon, TypeOK, Payment
  <2>4. /\ delivery'[d].pc = "idle"
        /\ \A x \in Deliveries \ {d} : delivery'[x] = delivery[x]
    BY <1>6, <1>8 DEF Abandon
  <2>5. \A j \in Checkouts : OutcomeAllowed(j)
    BY <2>1, <2>3 DEF OutcomeAllowed
  <2> QED
    BY <2>2, <2>3, <2>4, <2>5, HandlersMayRecord DEF Clearing, Failing
<1>9. CASE ConfirmConflict(d)
  <2>1. UNCHANGED <<hold, booking, checkout, txn, charge>>
    BY <1>9 DEF ConfirmConflict
  <2>2. /\ delivery'[d].pc = "idle"
        /\ \A x \in Deliveries \ {d} : delivery'[x] = delivery[x]
    BY <1>1, <1>9 DEF ConfirmConflict, TypeOK
  <2> QED
    BY <2>1, <2>2, HandlersMayRecord DEF OutcomeAllowed, Clearing, Failing
<1>10. CASE PushCalendar(d) \/ LinkEvent(d)
  <2>1. k \in Checkouts /\ "success" \in charge[k]
    BY <1>3, <1>10 DEF PushCalendar, LinkEvent, Clearing
  <2>2. /\ delivery'[d].pc \in {"link", "mail"}
        /\ delivery'[d].txn = k
        /\ \A x \in Deliveries \ {d} : delivery'[x] = delivery[x]
    BY <1>5, <1>10 DEF PushCalendar, LinkEvent
  <2>3. UNCHANGED <<hold, checkout, txn, charge>>
    BY <1>10 DEF PushCalendar, LinkEvent
  <2>4. \A c \in Holds : /\ booking'[c].start = booking[c].start
                         /\ booking'[c].status = booking[c].status
                         /\ booking'[c].paymentStatus = booking[c].paymentStatus
    BY <1>10 DEF PushCalendar, LinkEvent, TypeOK, BookingRow
  <2> QED
    BY <2>1, <2>2, <2>3, <2>4, HandlersMayRecord
       DEF OutcomeAllowed, Clearing, Failing
<1>11. CASE SendConfirmation(d)
  <2>1. UNCHANGED <<hold, booking, checkout, txn, charge>>
    BY <1>11 DEF SendConfirmation
  <2>2. /\ delivery'[d].pc = "idle"
        /\ \A x \in Deliveries \ {d} : delivery'[x] = delivery[x]
    BY <1>6, <1>11 DEF SendConfirmation
  <2> QED
    BY <2>1, <2>2, HandlersMayRecord DEF OutcomeAllowed, Clearing, Failing
<1>12. CASE FailTxn(d)
  <2>1. "failed" \in charge[k] /\ k \in Checkouts
    BY <1>3, <1>12 DEF FailTxn, Failing
  <2>2. UNCHANGED <<hold, booking, checkout, charge>>
    BY <1>12 DEF FailTxn
  <2>3. /\ \A j \in Checkouts : txn'[j].booking = txn[j].booking
        /\ \A j \in Checkouts \ {k} : txn'[j].status = txn[j].status
        /\ txn'[k].status = "FAILED"
    BY <1>12, <2>1 DEF FailTxn, TypeOK, Payment
  <2>4. /\ delivery'[d].pc = "failBooking"
        /\ delivery'[d].txn = k
        /\ \A x \in Deliveries \ {d} : delivery'[x] = delivery[x]
    BY <1>5, <1>12 DEF FailTxn
  <2>5. \A j \in Checkouts : OutcomeAllowed(j)
    BY <2>1, <2>3 DEF OutcomeAllowed
  <2> QED
    BY <2>1, <2>2, <2>3, <2>4, <2>5, HandlersMayRecord DEF Clearing, Failing
<1>13. CASE FailBooking(d)
  <2>1. UNCHANGED <<hold, checkout, txn, charge>>
    BY <1>13 DEF FailBooking
  <2>2. /\ delivery'[d].pc = "idle"
        /\ \A x \in Deliveries \ {d} : delivery'[x] = delivery[x]
    BY <1>6, <1>13 DEF FailBooking
  <2>3. FailedFor(b)
    BY <1>3, <1>13 DEF FailBooking, FailedFor, Failing
  <2>4. \A c \in Holds : /\ booking'[c].start = booking[c].start
                         /\ booking'[c].status = booking[c].status
                         /\ \/ booking'[c].paymentStatus = booking[c].paymentStatus
                            \/ c = b /\ booking'[c].paymentStatus = "FAILED"
    BY <1>13 DEF FailBooking, TypeOK, BookingRow
  <2> HIDE DEF b
  <2> QED
    BY <2>1, <2>2, <2>3, <2>4, HandlersMayRecord DEF OutcomeAllowed, Clearing, Failing
<1>14. CASE FailDelivery(d)
  <2>1. UNCHANGED <<hold, booking, checkout, txn, charge>>
    BY <1>14 DEF FailDelivery
  <2>2. /\ delivery'[d].pc = "idle"
        /\ \A x \in Deliveries \ {d} : delivery'[x] = delivery[x]
    BY <1>1, <1>14 DEF FailDelivery, TypeOK
  <2> QED
    BY <2>1, <2>2, HandlersMayRecord DEF OutcomeAllowed, Clearing, Failing
<1>15. CASE Confirm(d)
  <2>1. /\ k \in Checkouts
        /\ "success" \in charge[k]
        /\ txn[k].status # "NONE"
        /\ b \in Holds
        /\ Made(b)
    BY <1>3, <1>15 DEF Confirm, Clearing
  <2>2. UNCHANGED <<hold, checkout, charge>>
    BY <1>15 DEF Confirm
  <2>3. /\ \A j \in Checkouts : txn'[j].booking = txn[j].booking
        /\ \A j \in Checkouts \ {k} : txn'[j].status = txn[j].status
        /\ txn'[k].status = "SUCCESS"
    BY <1>15, <2>1 DEF Confirm, TypeOK, Payment
  <2>4. /\ \A c \in Holds : booking'[c].start = booking[c].start
        /\ \A c \in Holds \ {b} : /\ booking'[c].status = booking[c].status
                                 /\ booking'[c].paymentStatus = booking[c].paymentStatus
        /\ booking'[b].status = "CONFIRMED"
        /\ booking'[b].paymentStatus = "SUCCESS"
    <3>1. booking[b] \in BookingRow
      BY <2>1 DEF TypeOK
    <3>2. booking' = [booking EXCEPT ![b] =
              [booking[b] EXCEPT !.status = "CONFIRMED", !.paymentStatus = "SUCCESS"]]
      BY <1>15 DEF Confirm
    <3> HIDE DEF b
    <3> QED
      BY <2>1, <3>1, <3>2 DEF TypeOK, BookingRow
  <2>5. /\ delivery'[d].pc = "calendar"
        /\ delivery'[d].txn = k
        /\ \A x \in Deliveries \ {d} : delivery'[x] = delivery[x]
    BY <1>5, <1>15 DEF Confirm
  <2>6. IndexAllows(b, booking[b].start)
    BY <1>15 DEF Confirm
  <2> HIDE DEF b
  <2>7. \A c \in Holds : Made(c)' <=> Made(c)
    BY <2>1, <2>4 DEF Made
  <2>8. RowsFollow'
    BY <2>2, <2>7 DEF Sound, RowsFollow
  <2>9. PaymentsFollow'
    BY <2>1, <2>2, <2>3, <2>7 DEF Sound, PaymentsFollow
  <2>10. txn'[k].booking = b /\ "success" \in charge'[k] /\ k \in Checkouts
    BY <1>3, <1>15, <2>1, <2>2, <2>3 DEF b, Clearing
  <2>11. HandlersFollow'
    BY <2>1, <2>2, <2>5 DEF Sound, HandlersFollow, Clearing, Failing
  <2>12. OneActivePerSlot'
    <3>1. \A c \in Holds \ {b} : Active(c) => booking[c].start # booking[b].start
      BY <2>6 DEF IndexAllows, Active
    <3>2. \A c \in Holds \ {b} : Active(c)' => Active(c)
      BY <2>4 DEF Active
    <3> QED
      BY <2>1, <2>4, <3>1, <3>2 DEF Sound, OneActivePerSlot
  <2>13. ConfirmedIsPaid'
    BY <2>2, <2>3, <2>4, <2>10 DEF Sound, ConfirmedIsPaid, PaidFor
  <2>14. SuccessHoldsItsSlot'
    <3> SUFFICES ASSUME NEW j \in Checkouts, txn'[j].status = "SUCCESS"
                 PROVE  booking'[txn'[j].booking].status \in {"CONFIRMED", "CANCELLED"}
      BY DEF SuccessHoldsItsSlot
    <3>1. CASE txn[j].booking = b
      BY <2>3, <2>4, <3>1
    <3>2. CASE txn[j].booking # b
      <4>1. j # k /\ txn[j].status = "SUCCESS"
        BY <2>3, <3>2 DEF b
      <4>2. txn[j].booking \in Holds
        BY <4>1 DEF Sound, PaymentsFollow
      <4> QED
        BY <2>3, <2>4, <3>2, <4>1, <4>2 DEF Sound, SuccessHoldsItsSlot
    <3> QED
      BY <3>1, <3>2
  <2>15. StatusIsBacked'
    <3>1. \A j \in Checkouts :
             /\ txn'[j].status \in {"SUCCESS", "ABANDONED"} => "success" \in charge'[j]
             /\ txn'[j].status = "FAILED" => "failed" \in charge'[j]
      BY <2>1, <2>2, <2>3 DEF Sound, StatusIsBacked
    <3>2. \A c \in Holds :
             /\ booking'[c].paymentStatus = "SUCCESS" => PaidFor(c)'
             /\ booking'[c].paymentStatus = "FAILED" => FailedFor(c)'
      BY <2>2, <2>3, <2>4, <2>10 DEF Sound, StatusIsBacked, PaidFor, FailedFor
    <3> QED
      BY <3>1, <3>2 DEF StatusIsBacked
  <2> QED
    BY <2>8, <2>9, <2>11, <2>12, <2>13, <2>14, <2>15 DEF Sound
<1> QED
  BY <1>4, <1>7, <1>8, <1>9, <1>10, <1>11, <1>12, <1>13, <1>14, <1>15
     DEF HandlerStep

-----------------------------------------------------------------------------
(* The theorems.                                                            *)

(* Every step preserves the invariant.                                      *)
LEMMA NextKeepsIInv == IInv /\ [Next]_vars => IInv'
<1> SUFFICES ASSUME IInv, [Next]_vars PROVE IInv'
  OBVIOUS
<1> USE DEF IInv
<1>1. ASSUME NEW h \in Holds,
             \/ \E s \in Services, start \in Starts, q \in Quantities :
                   CreateHold(h, s, start, q)
             \/ HoldStep(h)
             \/ FailHold(h)
      PROVE  IInv'
  BY <1>1, HoldTypeOK, HoldSound
<1>2. ASSUME NEW k \in Checkouts,
             \/ \E b \in Holds : InitCheckout(k, b)
             \/ OpenCheckout(k)
             \/ FailCheckout(k)
             \/ \E e \in Events : Charge(k, e)
      PROVE  IInv'
  BY <1>2, CheckoutTypeOK, CheckoutSound
<1>3. ASSUME NEW d \in Deliveries,
             \/ \E k \in Checkouts, e \in Events : ReceiveWebhook(d, k, e)
             \/ HandlerStep(d)
             \/ FailDelivery(d)
      PROVE  IInv'
  BY <1>3, HandlerTypeOK, HandlerSound DEF Sound
<1>4. ASSUME \/ \E s \in Services, config \in ServiceConfigs : UpdateService(s, config)
             \/ \E b \in Holds : Cancel(b)
             \/ SweepExpiredHolds
             \/ Tick
      PROVE  IInv'
  BY <1>4, OthersTypeOK, OthersSound
<1>5. CASE UNCHANGED vars
  <2>1. TypeOK'
    BY <1>5 DEF vars, TypeOK, requestVars, paymentVars, webhookVars, outsideVars
  <2>2. UNCHANGED <<hold, booking, checkout, txn, charge, delivery, acked>>
    BY <1>5 DEF vars, requestVars, paymentVars, webhookVars, outsideVars
  <2>3. Sound'
    BY <2>2, RowsMayClose
  <2> QED
    BY <2>1, <2>3
<1> QED
  BY <1>1, <1>2, <1>3, <1>4, <1>5 DEF Next

(* The strengthened invariant holds always.                                 *)
THEOREM Invariance == Spec => []IInv
<1>1. Init => IInv
  BY InitTypeOK, InitSound DEF IInv
<1> QED
  BY <1>1, NextKeepsIInv, PTL DEF Spec

(* Type correctness, for any number of requests and any services.           *)
THEOREM TypeCorrect == Spec => []TypeOK
BY Invariance, PTL DEF IInv

(* Two active bookings never have the same start time: the index suffices,  *)
(* though confirmations are written without looking at the booking again.   *)
THEOREM SlotsAreExclusive == Spec => []OneActivePerSlot
<1>1. IInv => OneActivePerSlot
  BY DEF IInv, Sound
<1> QED
  BY <1>1, Invariance, PTL

(* No confirmation without a charge, whatever the number of checkouts,      *)
(* deliveries, retries and crashes.                                         *)
THEOREM ConfirmationsArePaid == Spec => []ConfirmedIsPaid
<1>1. IInv => ConfirmedIsPaid
  BY DEF IInv, Sound
<1> QED
  BY <1>1, Invariance, PTL

(* No paid slot is taken away but by the professional.                      *)
THEOREM PaidSlotsAreKept == Spec => []SuccessHoldsItsSlot
<1>1. IInv => SuccessHoldsItsSlot
  BY DEF IInv, Sound
<1> QED
  BY <1>1, Invariance, PTL

(* Neither a payment row nor a booking says what Paystack has not reported. *)
THEOREM StatusesAreBacked == Spec => []StatusIsBacked
<1>1. IInv => StatusIsBacked
  BY DEF IInv, Sound
<1> QED
  BY <1>1, Invariance, PTL

-----------------------------------------------------------------------------
(* What one step may do to one row.  The lemma spares later proofs the      *)
(* walk through the actions.                                                *)

SameTerms(b) ==
    /\ booking'[b].start = booking[b].start
    /\ booking'[b].end = booking[b].end
    /\ booking'[b].amount = booking[b].amount

\* The request of b makes the row.
RowIsMade(b) ==
    /\ ~Made(b)
    /\ hold[b].pc = "inserting"
    /\ booking'[b].status = "HELD"
    /\ booking'[b].start = hold[b].start
    /\ booking'[b].end = hold[b].end

\* A handler confirms the row and its payment in this step.
ConfirmedNow(b) ==
    \E d \in Deliveries :
        /\ delivery[d].pc = "confirm"
        /\ txn[delivery[d].txn].booking = b
        /\ txn'[delivery[d].txn].booking = b
        /\ txn'[delivery[d].txn].status = "SUCCESS"

\* The row is moved on: by whom, its status tells.
RowIsMoved(b) ==
    /\ SameTerms(b)
    /\ booking'[b].heldFor <= booking[b].heldFor
    /\ \/ booking'[b].status = booking[b].status
       \/ Lapsed(b) /\ booking'[b].status = "EXPIRED"
       \/ Made(b) /\ booking'[b].status = "CANCELLED"
       \/ Made(b) /\ ConfirmedNow(b) /\ booking'[b].status = "CONFIRMED"

RowMoves(b) == RowIsMade(b) \/ RowIsMoved(b)

(* Marking lapsed rows expired moves every row as it may be moved.          *)
LEMMA ExpireMovesRow ==
    ASSUME TypeOK, NEW rows, Expire(rows), \A c \in rows : Lapsed(c), NEW b \in Holds
    PROVE  RowMoves(b)
<1>1. booking[b] \in BookingRow
  BY DEF TypeOK
<1>2. booking'[b] = booking[b] \/ (Lapsed(b) /\ booking'[b] =
                                       [booking[b] EXCEPT !.status = "EXPIRED"])
  BY DEF Expire
<1> QED
  BY <1>1, <1>2 DEF RowMoves, RowIsMoved, SameTerms, BookingRow

(* A handler that is past its first reading works for a booking that was    *)
(* made.                                                                    *)
LEMMA HandlerServesRow ==
    ASSUME TypeOK, Sound, NEW d \in Deliveries, delivery[d].pc # "idle"
    PROVE  /\ delivery[d].txn \in Checkouts
           /\ checkout[delivery[d].txn].pc = "open"
           /\ txn[delivery[d].txn].booking \in Holds
           /\ Made(txn[delivery[d].txn].booking)
<1>1. delivery[d].pc \in Clearing \cup Failing
  BY DEF TypeOK, Delivery, Clearing, Failing
<1>2. /\ delivery[d].txn \in Checkouts
      /\ charge[delivery[d].txn] # {}
  BY <1>1 DEF Sound, HandlersFollow
<1>3. checkout[delivery[d].txn].pc = "open"
  BY <1>2 DEF Sound, PaymentsFollow
<1> QED
  BY <1>2, <1>3 DEF Sound, PaymentsFollow

(* Every step makes a row, or moves it, or leaves it alone.                 *)
LEMMA NextMovesRows == IInv /\ [Next]_vars => \A b \in Holds : RowMoves(b)
<1> SUFFICES ASSUME IInv, [Next]_vars, NEW b \in Holds
             PROVE  RowMoves(b)
  OBVIOUS
<1> USE DEF IInv
<1>1. booking[b] \in BookingRow
  BY DEF TypeOK
<1>2. ASSUME booking'[b] = booking[b]
      PROVE  RowMoves(b)
  BY <1>1, <1>2 DEF RowMoves, RowIsMoved, SameTerms, BookingRow
<1>3. ASSUME NEW h \in Holds,
             \/ \E s \in Services, start \in Starts, q \in Quantities :
                   CreateHold(h, s, start, q)
             \/ HoldStep(h)
             \/ FailHold(h)
      PROVE  RowMoves(b)
  <2>1. CASE InsertHold(h)
    <3>1. CASE b = h
      <4>1. ~Made(b)
        BY <2>1, <3>1 DEF InsertHold, Sound, RowsFollow
      <4>2. /\ booking'[b].status = "HELD"
            /\ booking'[b].start = hold[b].start
            /\ booking'[b].end = hold[b].end
        BY <2>1, <3>1 DEF InsertHold, TypeOK
      <4> QED
        BY <2>1, <3>1, <4>1, <4>2 DEF InsertHold, RowMoves, RowIsMade
    <3>2. CASE b # h
      BY <1>2, <2>1, <3>2 DEF InsertHold, TypeOK
    <3> QED
      BY <3>1, <3>2
  <2>2. CASE Reclaim(h)
    BY <2>2, ExpireMovesRow DEF Reclaim
  <2>3. CASE UNCHANGED booking
    BY <1>2, <2>3
  <2> QED
    BY <1>3, <2>1, <2>2, <2>3
       DEF CreateHold, HoldStep, CheckSlot, SlotConflict, ReferenceConflict,
           InsertFails, FailHold
<1>4. ASSUME NEW k \in Checkouts,
             \/ \E c \in Holds : InitCheckout(k, c)
             \/ OpenCheckout(k)
             \/ FailCheckout(k)
             \/ \E e \in Events : Charge(k, e)
      PROVE  RowMoves(b)
  BY <1>2, <1>4 DEF InitCheckout, OpenCheckout, FailCheckout, Charge
<1>5. ASSUME NEW d \in Deliveries,
             \/ \E k \in Checkouts, e \in Events : ReceiveWebhook(d, k, e)
             \/ HandlerStep(d)
             \/ FailDelivery(d)
      PROVE  RowMoves(b)
  <2>1. CASE Confirm(d)
    <3> DEFINE c == txn[delivery[d].txn].booking
    <3>1. booking' = [booking EXCEPT ![c] =
              [booking[c] EXCEPT !.status = "CONFIRMED", !.paymentStatus = "SUCCESS"]]
      BY <2>1 DEF Confirm
    <3>2. Made(c) /\ delivery[d].txn \in Checkouts
      BY <2>1, HandlerServesRow DEF Confirm
    <3>3. ConfirmedNow(c)
      BY <2>1, <3>2 DEF Confirm, ConfirmedNow, TypeOK, Payment
    <3> HIDE DEF c
    <3>4. CASE c = b
      <4>1. booking'[b] =
               [booking[b] EXCEPT !.status = "CONFIRMED", !.paymentStatus = "SUCCESS"]
        BY <3>1, <3>4 DEF TypeOK
      <4> QED
        BY <1>1, <3>2, <3>3, <3>4, <4>1
           DEF RowMoves, RowIsMoved, SameTerms, BookingRow
    <3>5. CASE c # b
      BY <1>2, <3>1, <3>5 DEF TypeOK
    <3> QED
      BY <3>4, <3>5
  <2>2. CASE LinkEvent(d)
    <3>1. \/ booking'[b] = booking[b]
          \/ booking'[b] = [booking[b] EXCEPT !.linked = TRUE]
      BY <2>2 DEF LinkEvent, TypeOK
    <3> QED
      BY <1>1, <1>2, <3>1 DEF RowMoves, RowIsMoved, SameTerms, BookingRow
  <2>3. CASE FailBooking(d)
    <3>1. \/ booking'[b] = booking[b]
          \/ booking'[b] = [booking[b] EXCEPT !.paymentStatus = "FAILED"]
      BY <2>3 DEF FailBooking, TypeOK
    <3> QED
      BY <1>1, <1>2, <3>1 DEF RowMoves, RowIsMoved, SameTerms, BookingRow
  <2>4. CASE UNCHANGED booking
    BY <1>2, <2>4
  <2> QED
    BY <1>5, <2>1, <2>2, <2>3, <2>4
       DEF ReceiveWebhook, HandlerStep, ReadBooking, Abandon, ConfirmConflict,
           PushCalendar, SendConfirmation, FailTxn, FailDelivery
<1>6. ASSUME NEW c \in Holds, Cancel(c)
      PROVE  RowMoves(b)
  <2>1. /\ SameTerms(b)
        /\ booking'[b].heldFor = booking[b].heldFor
        /\ \/ booking'[b].status = booking[b].status
           \/ Made(b) /\ booking'[b].status = "CANCELLED"
    BY <1>1, <1>6 DEF Cancel, TypeOK, BookingRow, SameTerms
  <2> QED
    BY <1>1, <2>1 DEF RowMoves, RowIsMoved, BookingRow
<1>7. CASE SweepExpiredHolds
  BY <1>7, ExpireMovesRow DEF SweepExpiredHolds
<1>8. CASE Tick
  <2>1. \/ booking'[b] = booking[b]
        \/ booking'[b] = [booking[b] EXCEPT !.heldFor = booking[b].heldFor - 1]
    BY <1>8 DEF Tick
  <2> QED
    BY <1>1, <2>1 DEF RowMoves, RowIsMoved, SameTerms, BookingRow
<1>9. ASSUME NEW s \in Services, NEW config \in ServiceConfigs,
             UpdateService(s, config)
      PROVE  RowMoves(b)
  BY <1>2, <1>9 DEF UpdateService
<1>10. CASE UNCHANGED vars
  BY <1>2, <1>10 DEF vars
<1> QED
  BY <1>3, <1>4, <1>5, <1>6, <1>7, <1>8, <1>9, <1>10 DEF Next

\* What one step may do to one createHold request: it is read, or goes on with
\* the terms it was given.
RequestIsRead(h) ==
    /\ hold[h].pc = "new"
    /\ hold'[h].pc \in {"checking", "rejected"}
    /\ hold'[h].service \in Services

\* The check, which changes nothing but the request.
RequestIsChecked(h) ==
    /\ hold[h].pc = "checking"
    /\ SlotIsFree(h)
    /\ booking' = booking
    /\ \A g \in Holds \ {h} : hold'[g] = hold[g]

RequestGoesOn(h) ==
    /\ hold[h].pc # "new"
    /\ hold'[h].service = hold[h].service
    /\ hold'[h].start = hold[h].start
    /\ hold'[h].end = hold[h].end
    /\ hold'[h].pc = "inserting" => RequestIsChecked(h)

RequestMoves(h) == hold'[h] = hold[h] \/ RequestIsRead(h) \/ RequestGoesOn(h)

(* A request goes on to the insert only by the check, with a slot that was  *)
(* free.                                                                    *)
LEMMA HoldMovesRequest ==
    ASSUME TypeOK, NEW h \in Holds,
           \/ \E s \in Services, start \in Starts, q \in Quantities :
                 CreateHold(h, s, start, q)
           \/ HoldStep(h)
           \/ FailHold(h)
    PROVE  /\ RequestMoves(h)
           /\ \A g \in Holds \ {h} : hold'[g] = hold[g]
<1> DEFINE Moved == /\ RequestMoves(h)
                    /\ \A g \in Holds \ {h} : hold'[g] = hold[g]
           GoesTo(pc) == hold' = [hold EXCEPT ![h].pc = pc]
<1>1. hold \in [Holds -> HoldRequest] /\ hold[h] \in HoldRequest
  BY DEF TypeOK
<1>2. ASSUME NEW s \in Services, NEW start \in Starts, NEW q \in Quantities,
             CreateHold(h, s, start, q)
      PROVE  Moved
  BY <1>1, <1>2 DEF CreateHold, RequestMoves, RequestIsRead
<1>3. ASSUME NEW pc, GoesTo(pc), hold[h].pc # "new",
             pc = "inserting" =>
                hold[h].pc = "checking" /\ SlotIsFree(h) /\ booking' = booking
      PROVE  Moved
  <2>1. hold'[h] = [hold[h] EXCEPT !.pc = pc]
    BY <1>1, <1>3
  <2>2. \A g \in Holds \ {h} : hold'[g] = hold[g]
    BY <1>1, <1>3
  <2>3. hold'[h].pc = pc
    BY <1>1, <2>1 DEF HoldRequest
  <2>4. hold'[h].pc = "inserting" => RequestIsChecked(h)
    BY <1>3, <2>2, <2>3 DEF RequestIsChecked
  <2>5. RequestGoesOn(h)
    BY <1>1, <1>3, <2>1, <2>4 DEF RequestGoesOn, HoldRequest
  <2> QED
    BY <2>2, <2>5 DEF RequestMoves
<1>4. CASE CheckSlot(h)
  <2>1. hold[h].pc = "checking" /\ booking' = booking
    BY <1>4 DEF CheckSlot
  <2>2. CASE SlotIsFree(h)
    <3>1. GoesTo("inserting") /\ hold[h].pc # "new"
      BY <1>4, <2>2 DEF CheckSlot
    <3> HIDE DEF GoesTo
    <3> QED
      BY <1>3, <2>1, <2>2, <3>1
  <2>3. CASE ~SlotIsFree(h)
    <3>1. GoesTo("notAvailable") /\ hold[h].pc # "new"
      BY <1>4, <2>3 DEF CheckSlot
    <3> HIDE DEF GoesTo
    <3> QED
      BY <1>3, <3>1
  <2> QED
    BY <2>2, <2>3
<1>5. CASE InsertHold(h)
  <2>1. GoesTo("held") /\ hold[h].pc # "new"
    BY <1>5 DEF InsertHold
  <2> HIDE DEF GoesTo
  <2> QED
    BY <1>3, <2>1
<1>6. CASE SlotConflict(h) \/ ReferenceConflict(h)
  <2> DEFINE next == IF hold[h].allowRetry THEN "reclaiming" ELSE "conflict"
  <2>1. GoesTo(next) /\ hold[h].pc # "new"
    BY <1>6 DEF SlotConflict, ReferenceConflict, InsertFails
  <2>2. next # "inserting"
    OBVIOUS
  <2> HIDE DEF next, GoesTo
  <2> QED
    BY <1>3, <2>1, <2>2
<1>7. CASE FailHold(h)
  <2>1. GoesTo("failed") /\ hold[h].pc # "new"
    BY <1>7 DEF FailHold
  <2> HIDE DEF GoesTo
  <2> QED
    BY <1>3, <2>1
<1>8. CASE Reclaim(h)
  <2> DEFINE r == [hold[h] EXCEPT !.pc = "checking", !.allowRetry = FALSE]
             t == [hold[h] EXCEPT !.pc = "taken"]
  <2>1. /\ r.service = hold[h].service /\ r.start = hold[h].start
        /\ r.end = hold[h].end /\ r.pc = "checking"
        /\ t.service = hold[h].service /\ t.start = hold[h].start
        /\ t.end = hold[h].end /\ t.pc = "taken"
    BY <1>1 DEF HoldRequest
  <2>2. /\ hold[h].pc # "new"
        /\ \/ hold' = [hold EXCEPT ![h] = r]
           \/ hold' = [hold EXCEPT ![h] = t]
    BY <1>8 DEF Reclaim
  <2> HIDE DEF r, t
  <2>3. RequestGoesOn(h)
    BY <1>1, <2>1, <2>2 DEF RequestGoesOn
  <2> QED
    BY <1>1, <2>2, <2>3 DEF RequestMoves
<1> QED
  BY <1>2, <1>4, <1>5, <1>6, <1>7, <1>8 DEF HoldStep

\* All requests but those of createHold leave the holds alone.
LEMMA NextMovesRequests == IInv /\ [Next]_vars => \A h \in Holds : RequestMoves(h)
<1> SUFFICES ASSUME IInv, [Next]_vars, NEW h \in Holds
             PROVE  RequestMoves(h)
  OBVIOUS
<1>1. ASSUME NEW g \in Holds,
             \/ \E s \in Services, start \in Starts, q \in Quantities :
                   CreateHold(g, s, start, q)
             \/ HoldStep(g)
             \/ FailHold(g)
      PROVE  RequestMoves(h)
  BY <1>1, HoldMovesRequest DEF IInv, RequestMoves
<1>2. ASSUME UNCHANGED hold
      PROVE  RequestMoves(h)
  BY <1>2 DEF RequestMoves
<1>3. ASSUME NEW k \in Checkouts,
             \/ \E b \in Holds : InitCheckout(k, b)
             \/ OpenCheckout(k)
             \/ FailCheckout(k)
             \/ \E e \in Events : Charge(k, e)
      PROVE  UNCHANGED hold
  BY <1>3 DEF InitCheckout, OpenCheckout, FailCheckout, Charge, requestVars
<1>4. ASSUME NEW d \in Deliveries,
             \/ \E k \in Checkouts, e \in Events : ReceiveWebhook(d, k, e)
             \/ HandlerStep(d)
             \/ FailDelivery(d)
      PROVE  UNCHANGED hold
  BY <1>4 DEF ReceiveWebhook, HandlerStep, ReadBooking, Abandon, Confirm,
              ConfirmConflict, PushCalendar, LinkEvent, SendConfirmation,
              FailTxn, FailBooking, FailDelivery, requestVars
<1>5. ASSUME \/ \E s \in Services, config \in ServiceConfigs : UpdateService(s, config)
             \/ \E b \in Holds : Cancel(b)
             \/ SweepExpiredHolds
             \/ Tick
             \/ UNCHANGED vars
      PROVE  UNCHANGED hold
  BY <1>5 DEF UpdateService, Cancel, SweepExpiredHolds, Tick, vars, requestVars
<1> QED
  BY <1>1, <1>2, <1>3, <1>4, <1>5 DEF Next

-----------------------------------------------------------------------------
(* What a step may never do.                                                *)

\* What HoldsAreHonoured says of one booking and one step.
Honoured(b) ==
    /\ Live(b) => booking'[b].status \in {"HELD", "CONFIRMED", "CANCELLED"}
    /\ booking[b].status = "CONFIRMED"
          => booking'[b].status \in {"CONFIRMED", "CANCELLED"}

(* No step takes a slot away from a live hold or a confirmed booking, but   *)
(* the professional's.                                                      *)
LEMMA NextHonours == IInv /\ [Next]_vars => \A b \in Holds : Honoured(b)
<1> SUFFICES ASSUME IInv, NEW b \in Holds, RowMoves(b)
             PROVE  Honoured(b)
  BY NextMovesRows
<1>1. booking[b].heldFor \in Int
  BY DEF IInv, TypeOK, BookingRow
<1> QED
  BY <1>1 DEF RowMoves, RowIsMade, RowIsMoved, Honoured, Live, Lapsed, Made

(* Neither the sweep, nor a reclaim, nor a late payment expires or frees a  *)
(* slot that is held or confirmed.                                          *)
THEOREM HoldsHonoured == Spec => HoldsAreHonoured
<1>1. (\A b \in Holds : Honoured(b)) =>
          [\A b \in Holds :
              /\ Live(b) => booking'[b].status \in {"HELD", "CONFIRMED", "CANCELLED"}
              /\ booking[b].status = "CONFIRMED"
                    => booking'[b].status \in {"CONFIRMED", "CANCELLED"}]_vars
  BY DEF Honoured
<1> QED
  BY <1>1, Invariance, NextHonours, PTL DEF Spec, HoldsAreHonoured
-----------------------------------------------------------------------------
(* Overlaps.  The invariant speaks of requests rather than of rows: what    *)
(* the check has found holds from then on, before the row is there and      *)
(* after, as long as the row binds.                                         *)

\* A request has read its service, and a row has the times of its request.
RowsAsAsked ==
    \A h \in Holds :
        /\ hold[h].pc # "new" => hold[h].service \in Services
        /\ Made(h) => booking[h].start = hold[h].start /\ booking[h].end = hold[h].end

\* A request that has passed the check and whose slot still is what it was.
KeepsSlot(h) == hold[h].pc = "inserting" \/ (Binding(h) /\ h \notin revived)

Apart(g, h) == hold[g].end <= hold[h].start \/ hold[h].end <= hold[g].start

Excused(g, h) == Raced(g, h) \/ g \in stretched \/ h \in stretched

KeptApart(g, h) == KeepsSlot(g) /\ KeepsSlot(h) => Excused(g, h) \/ Apart(g, h)

\* The slot of the request is one of the day's.
Fits(h) ==
    \E range \in DayRanges :
        /\ range.start <= hold[h].start
        /\ hold[h].start < range.end
        /\ (hold[h].start - range.start) % SLOT_INTERVAL_MINUTES = 0
        /\ h \notin stretched => hold[h].end <= range.end

OverlapInv ==
    /\ RowsAsAsked
    /\ \A g, h \in Holds : g # h => KeptApart(g, h)
    /\ \A h \in Holds : hold[h].pc = "inserting" \/ Made(h) => Fits(h)

(* Requests keep their service and rows their times.                        *)
LEMMA NextKeepsTimes ==
    ASSUME IInv, RowsAsAsked,
           \A h \in Holds : RowMoves(h) /\ RequestMoves(h)
    PROVE  RowsAsAsked'
<1> SUFFICES ASSUME NEW h \in Holds
             PROVE  /\ hold'[h].pc # "new" => hold'[h].service \in Services
                    /\ Made(h)' => /\ booking'[h].start = hold'[h].start
                                   /\ booking'[h].end = hold'[h].end
  BY DEF RowsAsAsked
<1>1. RowMoves(h) /\ RequestMoves(h)
  OBVIOUS
<1>2. hold'[h].pc # "new" => hold'[h].service \in Services
  BY <1>1 DEF RowsAsAsked, RequestMoves, RequestIsRead, RequestGoesOn
<1>3. ASSUME Made(h)'
      PROVE  booking'[h].start = hold'[h].start /\ booking'[h].end = hold'[h].end
  <2>1. Made(h) <=> hold[h].pc = "held"
    BY DEF IInv, Sound, RowsFollow
  <2>2. hold[h].pc # "new" /\
           \/ /\ booking'[h].start = hold[h].start
              /\ booking'[h].end = hold[h].end
           \/ SameTerms(h) /\ Made(h)
    BY <1>1, <1>3, <2>1 DEF RowMoves, RowIsMade, RowIsMoved, Lapsed, Made
  <2>3. hold'[h].start = hold[h].start /\ hold'[h].end = hold[h].end
    BY <1>1, <2>2 DEF RequestMoves, RequestIsRead, RequestGoesOn
  <2> QED
    BY <2>2, <2>3 DEF RowsAsAsked, SameTerms
<1> QED
  BY <1>2, <1>3

(* What the check of h has found when it lets h on: the day has room for    *)
(* the slot, and no row that binds the professional is in it.               *)
LEMMA CheckFinds ==
    ASSUME IInv, RowsAsAsked, NEW h \in Holds, RequestMoves(h), Checks(h)
    PROVE  /\ RequestIsChecked(h)
           /\ hold'[h].start = hold[h].start /\ hold'[h].end = hold[h].end
           /\ \E range \in DayRanges :
                 /\ range.start <= hold[h].start
                 /\ hold[h].start < range.end
                 /\ (hold[h].start - range.start) % SLOT_INTERVAL_MINUTES = 0
                 /\ ~EndsAfterSlot(h) => hold[h].end <= range.end
           /\ \A g \in Holds \ {h} :
                 Binding(g) /\ ~EndsAfterSlot(h) => Apart(g, h)
<1> DEFINE row == service[hold[h].service]
<1>1. RequestIsChecked(h) /\ hold'[h].start = hold[h].start /\ hold'[h].end = hold[h].end
  BY DEF Checks, RequestMoves, RequestIsRead, RequestGoesOn
<1>2. /\ row \in ServiceConfigs
      /\ row.duration \in Nat \ {0} /\ row.buffer \in Nat
  <2>1. row \in ServiceConfigs
    BY DEF RowsAsAsked, Checks, IInv, TypeOK
  <2> QED
    BY <2>1, ConfigsAssumption
<1>3. hold[h].start \in Nat /\ hold[h].end \in Nat
  BY DEF IInv, TypeOK, HoldRequest
<1>4. ~EndsAfterSlot(h) => hold[h].end <= hold[h].start + row.duration
  BY <1>2, <1>3 DEF EndsAfterSlot
<1>5. /\ hold[h].start \in CandidateStarts(DayRanges, row.duration)
      /\ IsAvailable(hold[h].start, row, DateBookings)
  BY <1>1 DEF RequestIsChecked, SlotIsFree, AvailableStarts
<1> HIDE DEF row
<1>6. \E range \in DayRanges :
         /\ range.start <= hold[h].start
         /\ hold[h].start < range.end
         /\ (hold[h].start - range.start) % SLOT_INTERVAL_MINUTES = 0
         /\ ~EndsAfterSlot(h) => hold[h].end <= range.end
  <2>1. PICK range \in DayRanges : hold[h].start \in StartsInRange(range, row.duration)
    BY <1>5 DEF CandidateStarts
  <2>2. range.start \in Nat /\ range.end \in Nat
    BY DayAssumption
  <2>3. /\ range.start <= hold[h].start
        /\ (hold[h].start - range.start) % SLOT_INTERVAL_MINUTES = 0
        /\ hold[h].start + row.duration <= range.end
    BY <2>1, <2>2 DEF StartsInRange
  <2>4. hold[h].start < range.end /\ (~EndsAfterSlot(h) => hold[h].end <= range.end)
    BY <1>2, <1>3, <1>4, <2>2, <2>3
  <2> QED
    BY <2>3, <2>4
<1>7. ASSUME NEW g \in Holds \ {h}, Binding(g), ~EndsAfterSlot(h)
      PROVE  Apart(g, h)
  <2>1. Made(g) /\ booking[g] \in DateBookings /\ Blocking(booking[g])
    BY <1>7 DEF Binding, Live, Made, DateBookings, Blocking
  <2>2. booking[g].start = hold[g].start /\ booking[g].end = hold[g].end
    BY <2>1 DEF RowsAsAsked
  <2>3. hold[g].start \in Nat /\ hold[g].end \in Nat
    BY DEF IInv, TypeOK, HoldRequest
  <2>4. ~Collides(hold[h].start, hold[h].start + row.duration, booking[g], row.buffer)
    BY <1>5, <2>1 DEF IsAvailable
  <2>5. \/ booking[g].end + row.buffer <= hold[h].start
        \/ hold[h].start + row.duration <= booking[g].start
    BY <1>2, <1>3, <2>2, <2>3, <2>4 DEF Collides
  <2> QED
    BY <1>2, <1>3, <1>4, <1>7, <2>2, <2>3, <2>5 DEF Apart
<1> QED
  BY <1>1, <1>6, <1>7

(* The request that passes the check in this step: whom it could not see is *)
(* recorded, and it stays clear of all others.                              *)
LEMMA CheckKeepsApart ==
    ASSUME IInv, RowsAsAsked, RecordOverlaps,
           NEW g \in Holds, NEW h \in Holds, g # h, RequestMoves(h), Checks(h)
    PROVE  KeptApart(g, h)' /\ Fits(h)'
<1>1. /\ RequestIsChecked(h)
      /\ hold'[h].start = hold[h].start /\ hold'[h].end = hold[h].end
      /\ \E range \in DayRanges :
            /\ range.start <= hold[h].start
            /\ hold[h].start < range.end
            /\ (hold[h].start - range.start) % SLOT_INTERVAL_MINUTES = 0
            /\ ~EndsAfterSlot(h) => hold[h].end <= range.end
      /\ Binding(g) /\ ~EndsAfterSlot(h) => Apart(g, h)
  BY CheckFinds
<1>2. hold'[g] = hold[g] /\ booking'[g] = booking[g]
  BY <1>1 DEF RequestIsChecked
<1>3. /\ h \in stretched' <=> EndsAfterSlot(h)
      /\ hold[g].pc = "inserting" => g \in beside'[h]
  BY DEF RecordOverlaps
<1>4. Fits(h)'
  BY <1>1, <1>3 DEF Fits
<1>5. ASSUME KeepsSlot(g)', ~(hold[g].pc = "inserting"), ~EndsAfterSlot(h)
      PROVE  Apart(g, h)'
  <2>1. Binding(g)
    BY <1>2, <1>5 DEF KeepsSlot, Binding, Live
  <2> QED
    BY <1>1, <1>2, <1>5, <2>1 DEF Apart
<1> QED
  BY <1>3, <1>4, <1>5 DEF KeptApart, Excused, Raced

(* A request that does not pass the check in this step keeps its slot only  *)
(* if it had it before.                                                     *)
LEMMA KeptWasKept ==
    ASSUME IInv, TypeOK', RecordOverlaps, NEW h \in Holds, RowMoves(h), RequestMoves(h),
           ~Checks(h)
    PROVE  /\ KeepsSlot(h)' => KeepsSlot(h)
           /\ KeepsSlot(h) => /\ hold'[h].start = hold[h].start
                              /\ hold'[h].end = hold[h].end
           /\ h \in stretched' <=> h \in stretched
           /\ hold'[h].pc = "inserting" \/ Made(h)' =>
                 /\ hold[h].pc = "inserting" \/ Made(h)
                 /\ hold'[h].start = hold[h].start
                 /\ hold'[h].end = hold[h].end
<1>1. hold'[h].pc = "inserting" => hold[h].pc = "inserting"
  BY DEF RequestMoves, RequestIsRead, RequestGoesOn, RequestIsChecked, Checks
<1>2. Made(h) <=> hold[h].pc = "held"
  BY DEF IInv, Sound, RowsFollow
<1>3. hold[h].pc # "new" => /\ hold'[h].start = hold[h].start
                            /\ hold'[h].end = hold[h].end
  BY DEF RequestMoves, RequestIsRead, RequestGoesOn
<1>4. h \in stretched' <=> h \in stretched
  BY DEF RecordOverlaps
<1>5. Binding(h) => Made(h)
  BY DEF Binding, Live, Made
<1>6. ASSUME Binding(h)', h \notin revived'
      PROVE  KeepsSlot(h)
  <2>1. h \notin revived /\ (booking'[h].status = "CONFIRMED" => Binding(h))
    BY <1>6 DEF RecordOverlaps
  <2>2. CASE RowIsMade(h)
    BY <2>2 DEF RowIsMade, KeepsSlot
  <2>3. CASE RowIsMoved(h) /\ booking'[h].status = "HELD"
    <3>1. booking[h].heldFor \in Int /\ booking[h].status = "HELD"
      BY <2>3 DEF RowIsMoved, IInv, TypeOK, BookingRow
    <3>2. booking'[h].heldFor > 0 /\ booking'[h].heldFor <= booking[h].heldFor
      BY <1>6, <2>3 DEF Binding, Live, RowIsMoved
    <3>3. booking'[h].heldFor \in Int
      BY DEF TypeOK, BookingRow
    <3> QED
      BY <2>1, <3>1, <3>2, <3>3 DEF KeepsSlot, Binding, Live
  <2> QED
    BY <1>6, <2>1, <2>2, <2>3 DEF RowMoves, Binding, Live, KeepsSlot
<1>7. Made(h)' => hold[h].pc = "inserting" \/ Made(h)
  BY DEF RowMoves, RowIsMade, RowIsMoved, Lapsed, Made
<1> QED
  BY <1>1, <1>2, <1>3, <1>4, <1>5, <1>6, <1>7 DEF KeepsSlot

(* Every recorded step keeps requests apart.                                *)
LEMMA NextKeepsApart == IInv /\ OverlapInv /\ [OverlapNext]_overlapVars => OverlapInv'
<1> SUFFICES ASSUME IInv, OverlapInv, [OverlapNext]_overlapVars
             PROVE  OverlapInv'
  OBVIOUS
<1>1. CASE UNCHANGED overlapVars
  <2>1. UNCHANGED <<service, hold, booking, beside, stretched, revived>>
    BY <1>1 DEF overlapVars, vars, requestVars
  <2> QED
    BY <2>1 DEF OverlapInv, RowsAsAsked, KeptApart, KeepsSlot, Binding, Live, Made,
                Excused, Raced, Apart, Fits
<1>2. CASE OverlapNext
  <2>1. /\ TypeOK'
        /\ \A h \in Holds : RowMoves(h) /\ RequestMoves(h)
    BY <1>2, NextKeepsIInv, NextMovesRows, NextMovesRequests DEF OverlapNext, IInv
  <2>2. RecordOverlaps /\ RowsAsAsked
    BY <1>2 DEF OverlapNext, OverlapInv
  <2>3. RowsAsAsked'
    BY <2>1, <2>2, NextKeepsTimes
  <2>4. ASSUME NEW g \in Holds, NEW h \in Holds, g # h
        PROVE  KeptApart(g, h)'
    <3>1. CASE Checks(h)
      BY <2>1, <2>2, <2>4, <3>1, CheckKeepsApart
    <3>2. CASE Checks(g)
      <4>1. KeptApart(h, g)'
        BY <2>1, <2>2, <2>4, <3>2, CheckKeepsApart
      <4> QED
        BY <4>1 DEF KeptApart, Excused, Raced, Apart
    <3>3. CASE ~Checks(g) /\ ~Checks(h)
      <4>1. \A x \in {g, h} :
               /\ KeepsSlot(x)' => KeepsSlot(x)
               /\ KeepsSlot(x) => /\ hold'[x].start = hold[x].start
                                  /\ hold'[x].end = hold[x].end
               /\ x \in stretched' <=> x \in stretched
        BY <2>1, <2>2, <3>3, KeptWasKept
      <4>2. Raced(g, h) => Raced(g, h)'
        BY <2>2, <3>3 DEF Raced, RecordOverlaps
      <4>3. KeptApart(g, h)
        BY <2>4 DEF OverlapInv
      <4> QED
        BY <4>1, <4>2, <4>3 DEF KeptApart, Excused, Apart
    <3> QED
      BY <3>1, <3>2, <3>3
  <2>5. ASSUME NEW h \in Holds, hold'[h].pc = "inserting" \/ Made(h)'
        PROVE  Fits(h)'
    <3>1. CASE Checks(h)
      <4>1. /\ hold'[h].start = hold[h].start /\ hold'[h].end = hold[h].end
            /\ \E range \in DayRanges :
                  /\ range.start <= hold[h].start
                  /\ hold[h].start < range.end
                  /\ (hold[h].start - range.start) % SLOT_INTERVAL_MINUTES = 0
                  /\ ~EndsAfterSlot(h) => hold[h].end <= range.end
        BY <2>1, <2>2, <3>1, CheckFinds
      <4>2. h \in stretched' <=> EndsAfterSlot(h)
        BY <2>2, <3>1 DEF RecordOverlaps
      <4> QED
        BY <4>1, <4>2 DEF Fits
    <3>2. CASE ~Checks(h)
      <4>1. /\ Fits(h)
            /\ hold'[h].start = hold[h].start /\ hold'[h].end = hold[h].end
            /\ h \in stretched' <=> h \in stretched
        BY <2>1, <2>2, <2>5, <3>2, KeptWasKept DEF OverlapInv
      <4> QED
        BY <4>1 DEF Fits
    <3> QED
      BY <3>1, <3>2
  <2> QED
    BY <2>3, <2>4, <2>5 DEF OverlapInv
<1> QED
  BY <1>1, <1>2

(* The recorded steps are those of Bookings.                                *)
LEMMA OverlapInvariance == OverlapSpec => [](IInv /\ OverlapInv)
<1>1. OverlapInit => IInv /\ OverlapInv
  <2> SUFFICES ASSUME OverlapInit PROVE IInv /\ OverlapInv
    OBVIOUS
  <2>1. IInv
    BY InitTypeOK, InitSound DEF OverlapInit, IInv
  <2>2. \A h \in Holds : hold[h].pc = "new" /\ ~Made(h)
    BY DEF OverlapInit, Init, NewHold, Made, NoBooking
  <2>3. \A h \in Holds : ~KeepsSlot(h)
    BY <2>2 DEF KeepsSlot, Binding, Live, Made
  <2>4. RowsAsAsked
    BY <2>2 DEF RowsAsAsked
  <2>5. \A g, h \in Holds : KeptApart(g, h)
    BY <2>3 DEF KeptApart
  <2>6. \A h \in Holds : ~(hold[h].pc = "inserting" \/ Made(h))
    BY <2>2
  <2> QED
    BY <2>1, <2>4, <2>5, <2>6 DEF OverlapInv
<1>2. [OverlapNext]_overlapVars => [Next]_vars
  BY DEF OverlapNext, overlapVars
<1> QED
  BY <1>1, <1>2, NextKeepsIInv, NextKeepsApart, PTL DEF OverlapSpec

(* Whatever durations and buffers the services have and however they are    *)
(* edited, two bookings that bind the professional overlap only by one of   *)
(* the three ways that the check of attemptHold cannot see.                 *)
THEOREM OverlapsNeedARace == OverlapSpec => []OverlapsAreRaces
<1>1. IInv /\ OverlapInv => OverlapsAreRaces
  <2> SUFFICES ASSUME IInv, OverlapInv, NEW b \in Holds, NEW c \in Holds, b # c,
                      Binding(b), Binding(c), Overlap(b, c),
                      b \notin revived, c \notin revived
               PROVE  Raced(b, c) \/ b \in stretched \/ c \in stretched
    BY DEF OverlapsAreRaces
  <2>1. Excused(b, c) \/ Apart(b, c)
    BY DEF OverlapInv, KeptApart, KeepsSlot
  <2>2. Made(b) /\ Made(c)
    BY DEF Binding, Live, Made
  <2>3. /\ booking[b].start = hold[b].start /\ booking[b].end = hold[b].end
        /\ booking[c].start = hold[c].start /\ booking[c].end = hold[c].end
    BY <2>2 DEF OverlapInv, RowsAsAsked
  <2>4. /\ hold[b].start \in Nat /\ hold[b].end \in Nat
        /\ hold[c].start \in Nat /\ hold[c].end \in Nat
    BY DEF IInv, TypeOK, HoldRequest
  <2> QED
    BY <2>1, <2>3, <2>4 DEF Excused, Apart, Overlap
<1> QED
  BY <1>1, OverlapInvariance, PTL

(* No booking ends after the day does, unless its service was shortened     *)
(* between the two readings of its own request.                             *)
THEOREM BookingsFitTheDay == OverlapSpec => []FitsTheDay
<1>1. OverlapInv => FitsTheDay
  <2> SUFFICES ASSUME OverlapInv, NEW b \in Holds, Made(b)
               PROVE  \E range \in DayRanges :
                         /\ range.start <= booking[b].start
                         /\ booking[b].start < range.end
                         /\ (booking[b].start - range.start) % SLOT_INTERVAL_MINUTES = 0
                         /\ b \notin stretched => booking[b].end <= range.end
    BY DEF FitsTheDay
  <2>1. /\ Fits(b)
        /\ booking[b].start = hold[b].start /\ booking[b].end = hold[b].end
    BY DEF OverlapInv, RowsAsAsked
  <2> QED
    BY <2>1 DEF Fits
<1> QED
  BY <1>1, OverlapInvariance, PTL
=============================================================================
