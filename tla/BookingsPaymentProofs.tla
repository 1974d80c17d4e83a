------------------------ MODULE BookingsPaymentProofs ------------------------
(***************************************************************************)
(* What deliveries that race, repeat and crash can do to payments: how      *)
(* often a booking is confirmed, what it costs, and what becomes of a       *)
(* booking that is closed.                                                  *)
(***************************************************************************)
EXTENDS BookingsProofs, FiniteSetTheorems

-----------------------------------------------------------------------------
(* What one step may do to one handler, one payment and one checkout.       *)

HandlerStarts(d) ==
    /\ delivery[d].pc = "idle"
    /\ delivery'[d].pc \in {"readBooking", "failTxn"}
    /\ delivery'[d].txn \in Checkouts
    /\ delivery'[d].pc = "readBooking" => txn[delivery'[d].txn].status # "SUCCESS"

HandlerGoesOn(d) ==
    /\ delivery[d].pc # "idle"
    /\ delivery'[d].txn = delivery[d].txn
    /\ delivery'[d].pc \notin {"readBooking", "failTxn"}
    /\ delivery'[d].pc \in {"abandon", "confirm"} => delivery[d].pc = "readBooking"
    /\ delivery'[d].pc = "confirm" => Live(txn[delivery[d].txn].booking)
    /\ delivery'[d].pc = "calendar" =>
          /\ delivery[d].pc = "confirm"
          /\ txn'[delivery[d].txn].status = "SUCCESS"
          /\ txn'[delivery[d].txn].paidAt
    /\ delivery'[d].pc \in {"link", "mail"} => delivery[d].pc \in {"calendar", "link"}

HandlerMoves(d) ==
    \/ delivery'[d] = delivery[d]
    \/ delivery'[d].pc = "idle"
    \/ HandlerStarts(d)
    \/ HandlerGoesOn(d)

\* initCheckout creates the payment row.
PaymentOpens(k) ==
    /\ checkout[k].pc = "initializing"
    /\ checkout'[k] = [checkout[k] EXCEPT !.pc = "open"]
    /\ txn'[k].status = "PENDING"
    /\ txn'[k].booking = checkout[k].booking
    /\ txn'[k].amount = checkout[k].amount
    /\ ~txn'[k].paidAt

\* A handler that works on the payment writes its outcome; only one that
\* confirms sets paidAt.
OutcomeIsWritten(k) ==
    \E d \in Deliveries :
        /\ delivery[d].txn = k
        /\ \/ /\ \/ delivery[d].pc = "abandon" /\ txn'[k].status = "ABANDONED"
                 \/ delivery[d].pc = "failTxn" /\ txn'[k].status = "FAILED"
              /\ txn'[k].paidAt = txn[k].paidAt
           \/ /\ delivery[d].pc = "confirm"
              /\ delivery'[d].pc = "calendar"
              /\ txn'[k].status = "SUCCESS"
              /\ txn'[k].paidAt

PaymentMoves(k) ==
    \/ txn'[k] = txn[k]
    \/ PaymentOpens(k)
    \/ /\ OutcomeIsWritten(k)
       /\ txn'[k].booking = txn[k].booking
       /\ txn'[k].amount = txn[k].amount

\* A checkout picks a booking that exists, and its amount.
CheckoutBegins(k) ==
    /\ checkout[k].pc = "new"
    /\ checkout'[k].pc \in {"initializing", "gone"}
    /\ \E b \in Holds : /\ Made(b)
                        /\ checkout'[k].booking = b
                        /\ checkout'[k].amount = booking[b].amount

CheckoutGoesOn(k) ==
    /\ checkout[k].pc = "initializing"
    /\ checkout'[k].booking = checkout[k].booking
    /\ checkout'[k].amount = checkout[k].amount
    /\ checkout'[k].pc = "failed" \/ PaymentOpens(k)

CheckoutMoves(k) ==
    checkout'[k] = checkout[k] \/ CheckoutBegins(k) \/ CheckoutGoesOn(k)

(* A step of a handler moves the handler, and the payment it works on.      *)
LEMMA HandlerMovesPayments ==
    ASSUME TypeOK, Sound, NEW d \in Deliveries,
           \/ \E k \in Checkouts, e \in Events : ReceiveWebhook(d, k, e)
           \/ HandlerStep(d)
           \/ FailDelivery(d)
    PROVE  /\ HandlerMoves(d)
           /\ \A x \in Deliveries \ {d} : delivery'[x] = delivery[x]
           /\ \A k \in Checkouts : PaymentMoves(k)
           /\ UNCHANGED <<checkout, charge>>
<1> USE DEF requestVars, paymentVars, webhookVars, outsideVars
<1> DEFINE GoesTo(pc) == DeliveryGoesTo(d, pc)
           Others == \A x \in Deliveries \ {d} : delivery'[x] = delivery[x]
           Kept == UNCHANGED <<checkout, txn, charge>>
           k == delivery[d].txn
<1>1. /\ delivery \in [Deliveries -> Delivery]
      /\ delivery[d] \in Delivery
  BY DEF TypeOK
<1>2. ASSUME NEW pc, DeliveryGoesTo(d, pc)
      PROVE  /\ delivery'[d].pc = pc
             /\ delivery'[d].txn = delivery[d].txn
             /\ Others
  BY <1>1, <1>2 DEF DeliveryGoesTo, Delivery
<1>3. ASSUME delivery' = [delivery EXCEPT ![d] = Idle]
      PROVE  HandlerMoves(d) /\ Others
  BY <1>1, <1>3 DEF HandlerMoves, Idle
<1>4. ASSUME Kept
      PROVE  \A j \in Checkouts : PaymentMoves(j)
  BY <1>4 DEF PaymentMoves
<1>5. ASSUME NEW status \in PaymentStatuses, NEW paidAt \in BOOLEAN, k \in Checkouts,
             txn' = [txn EXCEPT ![k] = [txn[k] EXCEPT !.status = status,
                                                      !.paidAt = paidAt]],
             \/ /\ \/ delivery[d].pc = "abandon" /\ status = "ABANDONED"
                   \/ delivery[d].pc = "failTxn" /\ status = "FAILED"
                /\ paidAt = txn[k].paidAt
             \/ /\ delivery[d].pc = "confirm" /\ status = "SUCCESS" /\ paidAt
                /\ delivery'[d].pc = "calendar"
      PROVE  \A j \in Checkouts : PaymentMoves(j)
  <2> SUFFICES ASSUME NEW j \in Checkouts PROVE PaymentMoves(j)
    OBVIOUS
  <2>1. CASE j # k
    BY <1>5, <2>1 DEF PaymentMoves, TypeOK
  <2>2. CASE j = k
    <3>1. /\ txn'[k].status = status
          /\ txn'[k].paidAt = paidAt
          /\ txn'[k].booking = txn[k].booking
          /\ txn'[k].amount = txn[k].amount
      BY <1>5 DEF TypeOK, Payment
    <3>2. OutcomeIsWritten(k)
      BY <1>5, <3>1 DEF OutcomeIsWritten
    <3> QED
      BY <2>2, <3>1, <3>2 DEF PaymentMoves
  <2> QED
    BY <2>1, <2>2
<1>6. /\ delivery[d].pc # "idle" => k \in Checkouts
      /\ \A j \in Checkouts : \A status \in PaymentStatuses :
            /\ txn[j].paidAt \in BOOLEAN
            /\ [txn[j] EXCEPT !.status = status]
                  = [txn[j] EXCEPT !.status = status, !.paidAt = txn[j].paidAt]
  <2>1. delivery[d].pc # "idle" => k \in Checkouts
    BY DEF Sound, HandlersFollow
  <2>2. \A j \in Checkouts : txn[j] \in Payment
    BY DEF TypeOK
  <2>3. \A row \in Payment : \A status \in PaymentStatuses :
           /\ row.paidAt \in BOOLEAN
           /\ [row EXCEPT !.status = status]
                 = [row EXCEPT !.status = status, !.paidAt = row.paidAt]
    BY DEF Payment
  <2> QED
    BY <2>1, <2>2, <2>3
<1>7. ASSUME NEW j \in Checkouts, NEW e \in Events, ReceiveWebhook(d, j, e)
      PROVE  HandlerMoves(d) /\ Others /\ Kept
  <2>1. Kept /\ delivery[d].pc = "idle"
    BY <1>7 DEF ReceiveWebhook
  <2>2. CASE delivery' = [delivery EXCEPT ![d] = Idle]
    BY <1>3, <2>1, <2>2
  <2>3. CASE /\ delivery' = [delivery EXCEPT ![d] = [pc |-> "readBooking", txn |-> j]]
             /\ txn[j].status # "SUCCESS"
    BY <1>1, <2>1, <2>3 DEF HandlerMoves, HandlerStarts
  <2>4. CASE delivery' = [delivery EXCEPT ![d] = [pc |-> "failTxn", txn |-> j]]
    BY <1>1, <2>1, <2>4 DEF HandlerMoves, HandlerStarts
  <2> QED
    BY <1>7, <2>1, <2>2, <2>3, <2>4 DEF ReceiveWebhook, Acknowledge
<1>8. CASE ReadBooking(d)
  <2>1. Kept /\ delivery[d].pc = "readBooking"
    BY <1>8 DEF ReadBooking
  <2>2. CASE Live(txn[k].booking) /\ DeliveryGoesTo(d, "confirm")
    <3>1. /\ delivery'[d].pc = "confirm" /\ delivery'[d].txn = k /\ Others
      BY <1>2, <2>2
    <3> QED
      BY <1>4, <2>1, <2>2, <3>1 DEF HandlerMoves, HandlerGoesOn
  <2>3. CASE DeliveryGoesTo(d, "abandon")
    <3>1. /\ delivery'[d].pc = "abandon" /\ delivery'[d].txn = k /\ Others
      BY <1>2, <2>3
    <3> QED
      BY <1>4, <2>1, <3>1 DEF HandlerMoves, HandlerGoesOn
  <2> QED
    BY <1>8, <2>2, <2>3 DEF ReadBooking
<1>9. CASE Abandon(d)
  <2>1. /\ delivery[d].pc = "abandon"
        /\ txn' = [txn EXCEPT ![k] = [txn[k] EXCEPT !.status = "ABANDONED",
                                                    !.paidAt = txn[k].paidAt]]
        /\ delivery' = [delivery EXCEPT ![d] = Idle]
        /\ UNCHANGED <<checkout, charge>>
    BY <1>6, <1>9 DEF Abandon, Acknowledge, PaymentStatuses
  <2> QED
    BY <1>3, <1>5, <1>6, <2>1 DEF PaymentStatuses
<1>10. CASE Confirm(d)
  <2>1. /\ delivery[d].pc = "confirm"
        /\ txn' = [txn EXCEPT ![k] = [txn[k] EXCEPT !.status = "SUCCESS",
                                                    !.paidAt = TRUE]]
        /\ DeliveryGoesTo(d, "calendar")
        /\ UNCHANGED <<checkout, charge>>
    BY <1>10 DEF Confirm
  <2>2. delivery'[d].pc = "calendar" /\ delivery'[d].txn = k /\ Others
    BY <1>2, <2>1
  <2>3. HandlerMoves(d)
    <3>1. txn'[k].status = "SUCCESS" /\ txn'[k].paidAt
      BY <1>6, <2>1 DEF TypeOK, Payment
    <3> QED
      BY <2>1, <2>2, <3>1 DEF HandlerMoves, HandlerGoesOn
  <2> QED
    BY <1>5, <1>6, <2>1, <2>2, <2>3 DEF PaymentStatuses
<1>11. CASE ConfirmConflict(d) \/ SendConfirmation(d) \/ FailBooking(d) \/ FailDelivery(d)
  <2>1. Kept /\ delivery' = [delivery EXCEPT ![d] = Idle]
    BY <1>11 DEF ConfirmConflict, SendConfirmation, FailBooking, FailDelivery, Acknowledge
  <2> QED
    BY <1>3, <1>4, <2>1
<1>12. ASSUME NEW pc \in {"link", "mail"}, DeliveryGoesTo(d, pc), Kept,
              delivery[d].pc \in {"calendar", "link"}
       PROVE  HandlerMoves(d) /\ Others /\ Kept
  <2>1. delivery'[d].pc = pc /\ delivery'[d].txn = k /\ Others
    BY <1>2, <1>12
  <2> QED
    BY <1>12, <2>1 DEF HandlerMoves, HandlerGoesOn
<1>13. CASE PushCalendar(d)
  BY <1>4, <1>12, <1>13 DEF PushCalendar
<1>14. CASE LinkEvent(d)
  BY <1>4, <1>12, <1>14 DEF LinkEvent
<1>15. CASE FailTxn(d)
  <2>1. /\ delivery[d].pc = "failTxn"
        /\ txn' = [txn EXCEPT ![k] = [txn[k] EXCEPT !.status = "FAILED",
                                                    !.paidAt = txn[k].paidAt]]
        /\ DeliveryGoesTo(d, "failBooking")
        /\ UNCHANGED <<checkout, charge>>
    BY <1>6, <1>15 DEF FailTxn, PaymentStatuses
  <2>2. delivery'[d].pc = "failBooking" /\ delivery'[d].txn = k /\ Others
    BY <1>2, <2>1
  <2>3. HandlerMoves(d)
    BY <2>1, <2>2 DEF HandlerMoves, HandlerGoesOn
  <2> QED
    BY <1>5, <1>6, <2>1, <2>2, <2>3 DEF PaymentStatuses
<1> QED
  BY <1>4, <1>7, <1>8, <1>9, <1>10, <1>11, <1>13, <1>14, <1>15 DEF HandlerStep

(* A step of initCheckout, or of Paystack, moves one checkout.              *)
LEMMA CheckoutMovesPayments ==
    ASSUME TypeOK, NEW k \in Checkouts,
           \/ \E b \in Holds : InitCheckout(k, b)
           \/ OpenCheckout(k)
           \/ FailCheckout(k)
           \/ \E e \in Events : Charge(k, e)
    PROVE  /\ UNCHANGED delivery
           /\ \A j \in Checkouts : /\ CheckoutMoves(j)
                                   /\ PaymentMoves(j)
                                   /\ charge[j] \subseteq charge'[j]
<1> USE DEF webhookVars
<1> DEFINE Moved == \A j \in Checkouts : /\ CheckoutMoves(j)
                                         /\ PaymentMoves(j)
                                         /\ charge[j] \subseteq charge'[j]
<1>1. ASSUME NEW b \in Holds, InitCheckout(k, b)
      PROVE  UNCHANGED delivery /\ Moved
  <2>1. /\ checkout[k].pc = "new" /\ Made(b)
        /\ checkout'[k].pc \in {"initializing", "gone"}
        /\ checkout'[k].booking = b
        /\ checkout'[k].amount = booking[b].amount
        /\ \A j \in Checkouts \ {k} : checkout'[j] = checkout[j]
        /\ UNCHANGED <<txn, charge, delivery>>
    BY <1>1 DEF InitCheckout, TypeOK
  <2> QED
    BY <2>1 DEF CheckoutMoves, CheckoutBegins, PaymentMoves
<1>2. CASE OpenCheckout(k)
  <2>1. checkout[k] \in CheckoutRequest
    BY DEF TypeOK
  <2>2. /\ checkout[k].pc = "initializing"
        /\ checkout'[k] = [checkout[k] EXCEPT !.pc = "open"]
        /\ txn'[k].status = "PENDING"
        /\ txn'[k].booking = checkout[k].booking
        /\ txn'[k].amount = checkout[k].amount
        /\ ~txn'[k].paidAt
        /\ \A j \in Checkouts \ {k} : checkout'[j] = checkout[j] /\ txn'[j] = txn[j]
        /\ UNCHANGED <<charge, delivery>>
    BY <1>2 DEF OpenCheckout, TypeOK
  <2>3. /\ checkout'[k].booking = checkout[k].booking
        /\ checkout'[k].amount = checkout[k].amount
    BY <2>1, <2>2 DEF CheckoutRequest
  <2>4. PaymentOpens(k)
    BY <2>2 DEF PaymentOpens
  <2>5. CheckoutMoves(k) /\ PaymentMoves(k)
    BY <2>2, <2>3, <2>4 DEF CheckoutMoves, CheckoutGoesOn, PaymentMoves
  <2> QED
    BY <2>2, <2>5 DEF CheckoutMoves, PaymentMoves
<1>3. CASE FailCheckout(k)
  <2>1. /\ checkout[k].pc = "initializing"
        /\ checkout'[k].pc = "failed"
        /\ checkout'[k].booking = checkout[k].booking
        /\ checkout'[k].amount = checkout[k].amount
        /\ \A j \in Checkouts \ {k} : checkout'[j] = checkout[j]
        /\ UNCHANGED <<txn, charge, delivery>>
    BY <1>3 DEF FailCheckout, TypeOK, CheckoutRequest
  <2> QED
    BY <2>1 DEF CheckoutMoves, CheckoutGoesOn, PaymentMoves
<1>4. ASSUME NEW e \in Events, Charge(k, e)
      PROVE  UNCHANGED delivery /\ Moved
  BY <1>4 DEF Charge, TypeOK, CheckoutMoves, PaymentMoves
<1> QED
  BY <1>1, <1>2, <1>3, <1>4

(* Every step moves handlers, payments and checkouts like that, and no      *)
(* report of Paystack is ever taken back.                                   *)
LEMMA NextMovesPayments ==
    IInv /\ [Next]_vars =>
        /\ \A d \in Deliveries : HandlerMoves(d)
        /\ \A k \in Checkouts : /\ PaymentMoves(k)
                                /\ CheckoutMoves(k)
                                /\ charge[k] \subseteq charge'[k]
<1> SUFFICES ASSUME IInv, [Next]_vars
             PROVE  /\ \A d \in Deliveries : HandlerMoves(d)
                    /\ \A k \in Checkouts : /\ PaymentMoves(k)
                                            /\ CheckoutMoves(k)
                                            /\ charge[k] \subseteq charge'[k]
  OBVIOUS
<1> USE DEF IInv
<1>1. ASSUME NEW k \in Checkouts,
             \/ \E b \in Holds : InitCheckout(k, b)
             \/ OpenCheckout(k)
             \/ FailCheckout(k)
             \/ \E e \in Events : Charge(k, e)
      PROVE  /\ \A d \in Deliveries : HandlerMoves(d)
             /\ \A j \in Checkouts : /\ PaymentMoves(j)
                                     /\ CheckoutMoves(j)
                                     /\ charge[j] \subseteq charge'[j]
  BY <1>1, CheckoutMovesPayments DEF HandlerMoves
<1>2. ASSUME NEW d \in Deliveries,
             \/ \E k \in Checkouts, e \in Events : ReceiveWebhook(d, k, e)
             \/ HandlerStep(d)
             \/ FailDelivery(d)
      PROVE  /\ \A x \in Deliveries : HandlerMoves(x)
             /\ \A k \in Checkouts : /\ PaymentMoves(k)
                                     /\ CheckoutMoves(k)
                                     /\ charge[k] \subseteq charge'[k]
  BY <1>2, HandlerMovesPayments DEF HandlerMoves, CheckoutMoves
<1>3. ASSUME UNCHANGED <<checkout, txn, charge, delivery>>
      PROVE  /\ \A d \in Deliveries : HandlerMoves(d)
             /\ \A k \in Checkouts : /\ PaymentMoves(k)
                                     /\ CheckoutMoves(k)
                                     /\ charge[k] \subseteq charge'[k]
  BY <1>3 DEF HandlerMoves, PaymentMoves, CheckoutMoves
<1>4. ASSUME NEW h \in Holds,
             \/ \E s \in Services, start \in Starts, q \in Quantities :
                   CreateHold(h, s, start, q)
             \/ HoldStep(h)
             \/ FailHold(h)
      PROVE  UNCHANGED <<checkout, txn, charge, delivery>>
  BY <1>4 DEF CreateHold, HoldStep, CheckSlot, InsertHold, SlotConflict,
              ReferenceConflict, InsertFails, Reclaim, FailHold, paymentVars,
              webhookVars
<1>5. ASSUME \/ \E s \in Services, config \in ServiceConfigs : UpdateService(s, config)
             \/ \E b \in Holds : Cancel(b)
             \/ SweepExpiredHolds
             \/ Tick
             \/ UNCHANGED vars
      PROVE  UNCHANGED <<checkout, txn, charge, delivery>>
  BY <1>5 DEF UpdateService, Cancel, SweepExpiredHolds, Tick, vars,
              paymentVars, webhookVars
<1> QED
  BY <1>1, <1>2, <1>3, <1>4, <1>5 DEF Next

(* A payment row never changes the booking or the amount it was created     *)
(* with.                                                                    *)
LEMMA OpenKeepsTerms ==
    ASSUME Sound, NEW k \in Checkouts, PaymentMoves(k), checkout[k].pc = "open"
    PROVE  txn'[k].booking = txn[k].booking /\ txn'[k].amount = txn[k].amount
BY DEF PaymentMoves, PaymentOpens

-----------------------------------------------------------------------------
(* Closed bookings.                                                         *)

\* What ClosedStaysClosed says of one booking and one step.
StaysClosed(b) == Closed(b) => Closed(b)'

(* Only a live hold lets a handler on to the confirmation, and only such a  *)
(* handler confirms a row.                                                  *)
LEMMA NextStaysClosed == IInv /\ [Next]_vars => \A b \in Holds : StaysClosed(b)
<1> SUFFICES ASSUME IInv, [Next]_vars, NEW b \in Holds, Closed(b)
             PROVE  Closed(b)'
  BY DEF StaysClosed
<1> USE DEF IInv
<1>1. ASSUME NEW d \in Deliveries, delivery'[d].pc = "confirm",
             txn'[delivery'[d].txn].booking = b
      PROVE  FALSE
  <2>1. HandlerMoves(d) /\ \A k \in Checkouts : PaymentMoves(k)
    BY NextMovesPayments
  <2>2. /\ delivery[d].pc # "idle"
        /\ delivery'[d].txn = delivery[d].txn
        /\ delivery[d].pc = "confirm" \/ Live(txn[delivery[d].txn].booking)
    BY <1>1, <2>1 DEF HandlerMoves, HandlerStarts, HandlerGoesOn
  <2>3. /\ delivery[d].txn \in Checkouts
        /\ checkout[delivery[d].txn].pc = "open"
    BY <2>2, HandlerServesRow
  <2>4. txn[delivery[d].txn].booking = b
    BY <1>1, <2>1, <2>2, <2>3, OpenKeepsTerms
  <2> QED
    BY <2>2, <2>4 DEF Closed, PendingConfirm, Live
<1>2. ~PendingConfirm(b)'
  BY <1>1 DEF PendingConfirm
<1>3. booking'[b].status \in {"CANCELLED", "EXPIRED"}
  <2>1. RowMoves(b) /\ Made(b)
    BY NextMovesRows DEF Closed, Made
  <2>2. ~ConfirmedNow(b)
    BY DEF Closed, PendingConfirm, ConfirmedNow
  <2> QED
    BY <2>1, <2>2 DEF RowMoves, RowIsMade, RowIsMoved, Closed
<1> QED
  BY <1>2, <1>3 DEF Closed

(* A cancelled or expired booking that no handler is about to confirm stays *)
(* closed for ever, however many payments clear for it later.               *)
THEOREM ClosedForGood == Spec => ClosedStaysClosed
<1>1. (\A b \in Holds : StaysClosed(b)) => [\A b \in Holds : Closed(b) => Closed(b)']_vars
  BY DEF StaysClosed
<1> QED
  BY <1>1, Invariance, NextStaysClosed, PTL DEF Spec, ClosedStaysClosed

-----------------------------------------------------------------------------
(* Amounts.                                                                 *)

\* The amount is carried from the booking to the checkout, and on to the payment.
AmountsFollow ==
    \A k \in Checkouts :
        /\ checkout[k].pc \in {"initializing", "open"} =>
              checkout[k].amount = booking[checkout[k].booking].amount
        /\ checkout[k].pc = "open" => txn[k].amount = checkout[k].amount

(* No row that was made changes its amount, and no checkout what it was     *)
(* asked to charge.                                                         *)
LEMMA NextKeepsAmounts == IInv /\ AmountsFollow /\ [Next]_vars => AmountsFollow'
<1> SUFFICES ASSUME IInv, AmountsFollow,
                    \A b \in Holds : RowMoves(b),
                    NEW k \in Checkouts, CheckoutMoves(k), PaymentMoves(k)
             PROVE  /\ checkout'[k].pc \in {"initializing", "open"} =>
                          checkout'[k].amount = booking'[checkout'[k].booking].amount
                    /\ checkout'[k].pc = "open" => txn'[k].amount = checkout'[k].amount
  BY NextMovesRows, NextMovesPayments DEF AmountsFollow
<1> USE DEF IInv
<1>1. ASSUME NEW b \in Holds, Made(b)
      PROVE  booking'[b].amount = booking[b].amount
  BY <1>1 DEF RowMoves, RowIsMade, RowIsMoved, SameTerms
<1>2. checkout[k].pc \in {"initializing", "open"} =>
         /\ checkout[k].booking \in Holds
         /\ Made(checkout[k].booking)
         /\ checkout[k].amount = booking[checkout[k].booking].amount
  BY DEF Sound, PaymentsFollow, AmountsFollow
<1>3. CASE checkout'[k] = checkout[k]
  <2>1. checkout[k].pc = "open" => txn'[k].amount = checkout[k].amount
    BY OpenKeepsTerms DEF AmountsFollow
  <2> QED
    BY <1>1, <1>2, <1>3, <2>1
<1>4. CASE CheckoutBegins(k)
  <2>1. checkout'[k].amount = booking'[checkout'[k].booking].amount
    BY <1>1, <1>4 DEF CheckoutBegins
  <2> QED
    BY <1>4, <2>1 DEF CheckoutBegins
<1>5. CASE CheckoutGoesOn(k)
  BY <1>1, <1>2, <1>5 DEF CheckoutGoesOn, PaymentOpens
<1> QED
  BY <1>3, <1>4, <1>5 DEF CheckoutMoves

(* Every payment is over the amount its booking was held for, whatever the  *)
(* professional does to prices and quantities meanwhile.                    *)
THEOREM AmountsAgreed == Spec => []AmountIsAgreed
<1>1. Init => AmountsFollow
  BY DEF Init, AmountsFollow, NewCheckout
<1>2. IInv /\ AmountsFollow => AmountIsAgreed
  <2> SUFFICES ASSUME IInv, AmountsFollow, NEW k \in Checkouts, NEW b \in Holds,
                      txn[k].booking = b
               PROVE  txn[k].amount = booking[b].amount
    BY DEF AmountIsAgreed
  <2>1. checkout[k].pc = "open"
    BY NoneAssumption DEF IInv, Sound, PaymentsFollow
  <2> QED
    BY <2>1 DEF IInv, Sound, PaymentsFollow, AmountsFollow
<1> QED
  BY <1>1, <1>2, Invariance, NextKeepsAmounts, PTL DEF Spec

-----------------------------------------------------------------------------
(* What is over.                                                            *)

\* Only a handler that creates an event or sends a mail is counted as having
\* done so, and only a recorded or confirmed payment is answered with 200.
Tells(b) ==
    /\ \/ pushed'[b] = pushed[b]
       \/ \E d \in Deliveries :
             delivery[d].pc = "calendar" /\ txn[delivery[d].txn].booking = b
    /\ \/ mailed'[b] = mailed[b]
       \/ \E d \in Deliveries :
             delivery[d].pc = "mail" /\ txn[delivery[d].txn].booking = b

Answers(k) ==
    <<k, "success">> \in acked' =>
        \/ <<k, "success">> \in acked
        \/ txn[k].status = "SUCCESS"
        \/ txn'[k].status = "ABANDONED"
        \/ \E d \in Deliveries : delivery[d].pc = "mail" /\ delivery[d].txn = k

(* A step of a handler tells of its own booking, and answers its own event. *)
LEMMA HandlerTells ==
    ASSUME TypeOK, Sound, NEW d \in Deliveries,
           \/ \E k \in Checkouts, e \in Events : ReceiveWebhook(d, k, e)
           \/ HandlerStep(d)
           \/ FailDelivery(d)
    PROVE  /\ \A b \in Holds : Tells(b)
           /\ \A k \in Checkouts : Answers(k)
<1> USE DEF requestVars, paymentVars, webhookVars, outsideVars
<1> DEFINE k == delivery[d].txn
           Silent == \A b \in Holds : Tells(b)
           Answered == \A j \in Checkouts : Answers(j)
<1>1. ASSUME UNCHANGED <<pushed, mailed>>
      PROVE  Silent
  BY <1>1 DEF Tells
<1>2. ASSUME UNCHANGED acked
      PROVE  Answered
  BY <1>2 DEF Answers
<1>3. delivery[d].pc # "idle" => k \in Checkouts
  BY DEF Sound, HandlersFollow
<1>4. ASSUME NEW j \in Checkouts, NEW e \in Events, ReceiveWebhook(d, j, e)
      PROVE  Silent /\ Answered
  <2>1. UNCHANGED <<pushed, mailed>>
    BY <1>4 DEF ReceiveWebhook
  <2>2. \/ UNCHANGED acked
        \/ txn[j].status = "SUCCESS" /\ acked' = acked \cup {<<j, "success">>}
    BY <1>4 DEF ReceiveWebhook, Acknowledge
  <2>3. Answered
    BY <2>2 DEF Answers
  <2> QED
    BY <1>1, <2>1, <2>3
<1>5. CASE ReadBooking(d) \/ Confirm(d) \/ ConfirmConflict(d) \/ LinkEvent(d)
           \/ FailTxn(d) \/ FailDelivery(d)
  <2>1. UNCHANGED <<pushed, mailed, acked>>
    BY <1>5 DEF ReadBooking, Confirm, ConfirmConflict, LinkEvent, FailTxn,
                FailDelivery
  <2> QED
    BY <1>1, <1>2, <2>1
<1>6. CASE Abandon(d)
  <2>1. /\ k \in Checkouts
        /\ txn' = [txn EXCEPT ![k].status = "ABANDONED"]
        /\ acked' = acked \cup {<<k, "success">>}
        /\ UNCHANGED <<pushed, mailed>>
    BY <1>3, <1>6 DEF Abandon, Acknowledge
  <2>2. txn'[k].status = "ABANDONED"
    BY <2>1 DEF TypeOK, Payment
  <2> HIDE DEF k
  <2>3. Answered
    BY <2>1, <2>2 DEF Answers
  <2> QED
    BY <1>1, <2>1, <2>3
<1>7. CASE PushCalendar(d)
  <2>1. /\ delivery[d].pc = "calendar"
        /\ UNCHANGED <<mailed, acked>>
        /\ \/ pushed' = [pushed EXCEPT ![txn[k].booking] = @ + 1]
           \/ UNCHANGED pushed
    BY <1>7 DEF PushCalendar
  <2>2. Silent
    BY <2>1 DEF Tells, TypeOK
  <2> QED
    BY <1>2, <2>1, <2>2
<1>8. CASE SendConfirmation(d)
  <2>1. /\ delivery[d].pc = "mail"
        /\ acked' = acked \cup {<<k, "success">>}
        /\ UNCHANGED pushed
        /\ \/ mailed' = [mailed EXCEPT ![txn[k].booking] = @ + 1]
           \/ UNCHANGED mailed
    BY <1>8 DEF SendConfirmation, Acknowledge
  <2>2. Silent
    BY <2>1 DEF Tells, TypeOK
  <2>3. Answered
    BY <2>1 DEF Answers
  <2> QED
    BY <2>2, <2>3
<1>9. CASE FailBooking(d)
  <2>1. /\ acked' = acked \cup {<<k, "failed">>}
        /\ UNCHANGED <<pushed, mailed>>
    BY <1>9 DEF FailBooking, Acknowledge
  <2>2. Answered
    BY <2>1 DEF Answers
  <2> QED
    BY <1>1, <2>1, <2>2
<1> QED
  BY <1>4, <1>5, <1>6, <1>7, <1>8, <1>9 DEF HandlerStep

(* No other step tells anybody or answers anything.                         *)
LEMMA NextTells ==
    IInv /\ [Next]_vars =>
        /\ \A b \in Holds : Tells(b)
        /\ \A k \in Checkouts : Answers(k)
<1> SUFFICES ASSUME IInv, [Next]_vars
             PROVE  /\ \A b \in Holds : Tells(b)
                    /\ \A k \in Checkouts : Answers(k)
  OBVIOUS
<1>1. ASSUME UNCHANGED <<pushed, mailed, acked>>
      PROVE  /\ \A b \in Holds : Tells(b)
             /\ \A k \in Checkouts : Answers(k)
  BY <1>1 DEF Tells, Answers
<1>2. ASSUME NEW d \in Deliveries,
             \/ \E k \in Checkouts, e \in Events : ReceiveWebhook(d, k, e)
             \/ HandlerStep(d)
             \/ FailDelivery(d)
      PROVE  /\ \A b \in Holds : Tells(b)
             /\ \A k \in Checkouts : Answers(k)
  BY <1>2, HandlerTells DEF IInv
<1>3. ASSUME NEW h \in Holds,
             \/ \E s \in Services, start \in Starts, q \in Quantities :
                   CreateHold(h, s, start, q)
             \/ HoldStep(h)
             \/ FailHold(h)
      PROVE  UNCHANGED <<pushed, mailed, acked>>
  BY <1>3 DEF CreateHold, HoldStep, CheckSlot, InsertHold, SlotConflict,
              ReferenceConflict, InsertFails, Reclaim, FailHold, webhookVars,
              outsideVars
<1>4. ASSUME NEW k \in Checkouts,
             \/ \E b \in Holds : InitCheckout(k, b)
             \/ OpenCheckout(k)
             \/ FailCheckout(k)
             \/ \E e \in Events : Charge(k, e)
      PROVE  UNCHANGED <<pushed, mailed, acked>>
  BY <1>4 DEF InitCheckout, OpenCheckout, FailCheckout, Charge, webhookVars,
              outsideVars
<1>5. ASSUME \/ \E s \in Services, config \in ServiceConfigs : UpdateService(s, config)
             \/ \E b \in Holds : Cancel(b)
             \/ SweepExpiredHolds
             \/ Tick
             \/ UNCHANGED vars
      PROVE  UNCHANGED <<pushed, mailed, acked>>
  BY <1>5 DEF UpdateService, Cancel, SweepExpiredHolds, Tick, vars, webhookVars,
              outsideVars
<1> QED
  BY <1>1, <1>2, <1>3, <1>4, <1>5 DEF Next

\* What ServedIsOver and RecordedStaysRecorded say of one step.
StaysOver(b) ==
    Served(b) =>
        /\ Served(b)'
        /\ pushed'[b] = pushed[b]
        /\ mailed'[b] = mailed[b]
        /\ Successes(b)' \subseteq Successes(b)

StaysSettled(k) ==
    Settled(k) =>
        \/ Settled(k)'
        \/ \E d \in Deliveries : delivery[d].pc = "failTxn" /\ delivery[d].txn = k

(* A booking nobody is confirming or telling about is not live, so that no  *)
(* handler that reads it goes on to the confirmation.                       *)
LEMMA NextStaysOver == IInv /\ [Next]_vars => \A b \in Holds : StaysOver(b)
<1> SUFFICES ASSUME IInv, [Next]_vars, NEW b \in Holds, Served(b)
             PROVE  /\ Served(b)'
                    /\ pushed'[b] = pushed[b]
                    /\ mailed'[b] = mailed[b]
                    /\ Successes(b)' \subseteq Successes(b)
  BY DEF StaysOver
<1>1. /\ RowMoves(b)
      /\ \A d \in Deliveries : HandlerMoves(d)
      /\ \A k \in Checkouts : PaymentMoves(k)
      /\ Tells(b)
  BY NextMovesRows, NextMovesPayments, NextTells
<1>2. booking'[b].status \in {"CONFIRMED", "CANCELLED", "EXPIRED"}
  BY <1>1 DEF Served, RowMoves, RowIsMade, RowIsMoved, Made
<1>3. ASSUME NEW d \in Deliveries,
             delivery'[d].pc \in {"confirm", "calendar", "link", "mail"},
             txn'[delivery'[d].txn].booking = b
      PROVE  FALSE
  <2>1. /\ delivery'[d].txn = delivery[d].txn
        /\ \/ delivery[d].pc \in {"confirm", "calendar", "link", "mail"}
           \/ delivery[d].pc # "idle" /\ Live(txn[delivery[d].txn].booking)
    BY <1>1, <1>3 DEF HandlerMoves, HandlerStarts, HandlerGoesOn
  <2>2. /\ delivery[d].txn \in Checkouts
        /\ checkout[delivery[d].txn].pc = "open"
    BY <2>1, HandlerServesRow DEF IInv
  <2>3. txn[delivery[d].txn].booking = b
    BY <1>1, <1>3, <2>1, <2>2, OpenKeepsTerms DEF IInv
  <2> QED
    BY <2>1, <2>3 DEF Served, Live
<1>4. Successes(b)' \subseteq Successes(b)
  <2> SUFFICES ASSUME NEW k \in Checkouts, txn'[k].booking = b, txn'[k].status = "SUCCESS"
               PROVE  txn[k].booking = b /\ txn[k].status = "SUCCESS"
    BY DEF Successes
  <2>1. ~PaymentOpens(k)
    BY DEF PaymentOpens
  <2>2. ~(OutcomeIsWritten(k) /\ txn'[k].booking = txn[k].booking)
    BY DEF OutcomeIsWritten, Served
  <2> QED
    BY <1>1, <2>1, <2>2 DEF PaymentMoves
<1>5. pushed'[b] = pushed[b] /\ mailed'[b] = mailed[b]
  BY <1>1 DEF Tells, Served
<1> QED
  BY <1>2, <1>3, <1>4, <1>5 DEF Served

(* No handler that starts once a success is on record goes past its first   *)
(* reading of the payment.                                                  *)
LEMMA NextStaysSettled == IInv /\ [Next]_vars => \A k \in Checkouts : StaysSettled(k)
<1> SUFFICES ASSUME IInv, [Next]_vars, NEW k \in Checkouts, Settled(k),
                    \A d \in Deliveries :
                        ~(delivery[d].pc = "failTxn" /\ delivery[d].txn = k)
             PROVE  Settled(k)'
  BY DEF StaysSettled
<1>1. PaymentMoves(k) /\ \A d \in Deliveries : HandlerMoves(d)
  BY NextMovesPayments
<1>2. ~OutcomeIsWritten(k)
  BY DEF OutcomeIsWritten, Settled
<1>3. ~PaymentOpens(k)
  BY DEF PaymentOpens, Settled, IInv, Sound, PaymentsFollow
<1>4. txn'[k].status = "SUCCESS"
  BY <1>1, <1>2, <1>3 DEF PaymentMoves, Settled
<1>5. ASSUME NEW d \in Deliveries,
             delivery'[d].pc \in {"readBooking", "abandon", "confirm"},
             delivery'[d].txn = k
      PROVE  FALSE
  BY <1>1, <1>5 DEF HandlerMoves, HandlerStarts, HandlerGoesOn, Settled
<1> QED
  BY <1>4, <1>5 DEF Settled

(* A booking that is confirmed or closed, and that no handler still has in  *)
(* hand, stays as it is told of: events, mails and recorded payments do not *)
(* grow any more, whatever is delivered or paid later.                      *)
THEOREM ServedForGood == Spec => ServedIsOver
<1>1. (\A b \in Holds : StaysOver(b)) =>
          [\A b \in Holds : Served(b) =>
              /\ Served(b)'
              /\ pushed'[b] = pushed[b]
              /\ mailed'[b] = mailed[b]
              /\ Successes(b)' \subseteq Successes(b)]_vars
  BY DEF StaysOver
<1> QED
  BY <1>1, Invariance, NextStaysOver, PTL DEF Spec, ServedIsOver

(* A success on record is overwritten by the charge.failed of an earlier    *)
(* attempt only, once the handlers that had read the payment before are     *)
(* done with it.                                                            *)
THEOREM RecordedForGood == Spec => RecordedStaysRecorded
<1>1. (\A k \in Checkouts : StaysSettled(k)) =>
          [\A k \in Checkouts : Settled(k) =>
              \/ Settled(k)'
              \/ \E d \in Deliveries :
                    delivery[d].pc = "failTxn" /\ delivery[d].txn = k]_vars
  BY DEF StaysSettled
<1> QED
  BY <1>1, Invariance, NextStaysSettled, PTL DEF Spec, RecordedStaysRecorded

-----------------------------------------------------------------------------
(* What an answer is worth.                                                 *)

\* A handler past the confirmation works on a payment that has its paidAt,
\* though another handler may have overwritten the status since.
ReceiptInv ==
    /\ \A k \in Checkouts : txn[k].status = "SUCCESS" => txn[k].paidAt
    /\ \A d \in Deliveries :
          delivery[d].pc \in {"calendar", "link", "mail"} => txn[delivery[d].txn].paidAt

(* A payment row that exists never loses its paidAt.                        *)
LEMMA NextKeepsPaidAt ==
    IInv /\ [Next]_vars =>
        \A k \in Checkouts : checkout[k].pc = "open" /\ txn[k].paidAt => txn'[k].paidAt
<1> SUFFICES ASSUME IInv, [Next]_vars, NEW k \in Checkouts, checkout[k].pc = "open",
                    txn[k].paidAt
             PROVE  txn'[k].paidAt
  OBVIOUS
<1>1. PaymentMoves(k)
  BY NextMovesPayments
<1>2. ~PaymentOpens(k)
  BY DEF PaymentOpens
<1> QED
  BY <1>1, <1>2 DEF PaymentMoves, OutcomeIsWritten

(* Every step keeps the receipts of all handlers.                           *)
LEMMA NextKeepsReceipts == IInv /\ ReceiptInv /\ [Next]_vars => ReceiptInv'
<1> SUFFICES ASSUME IInv, ReceiptInv, [Next]_vars
             PROVE  ReceiptInv'
  OBVIOUS
<1>1. /\ \A d \in Deliveries : HandlerMoves(d)
      /\ \A k \in Checkouts : PaymentMoves(k)
  BY NextMovesPayments
<1>2. ASSUME NEW k \in Checkouts, txn'[k].status = "SUCCESS"
      PROVE  txn'[k].paidAt
  <2>1. CASE txn'[k] = txn[k]
    BY <1>2, <2>1, Zenon DEF ReceiptInv
  <2>2. ~PaymentOpens(k)
    BY <1>2 DEF PaymentOpens
  <2>3. CASE OutcomeIsWritten(k)
    BY <1>2, <2>3, Zenon DEF OutcomeIsWritten
  <2> QED
    BY <1>1, <2>1, <2>2, <2>3 DEF PaymentMoves
<1>3. ASSUME NEW d \in Deliveries, delivery'[d].pc \in {"calendar", "link", "mail"}
      PROVE  txn'[delivery'[d].txn].paidAt
  <2>1. /\ delivery'[d].txn = delivery[d].txn
        /\ \/ delivery[d].pc \in {"calendar", "link", "mail"}
           \/ delivery[d].pc = "confirm" /\ txn'[delivery[d].txn].paidAt
    BY <1>1, <1>3 DEF HandlerMoves, HandlerStarts, HandlerGoesOn
  <2>2. /\ delivery[d].txn \in Checkouts
        /\ checkout[delivery[d].txn].pc = "open"
    BY <2>1, HandlerServesRow DEF IInv
  <2> QED
    BY <2>1, <2>2, NextKeepsPaidAt DEF ReceiptInv
<1> QED
  BY <1>2, <1>3 DEF ReceiptInv

\* What AckedChargeIsRecorded says of one step.
AnswersForGood(k) ==
    <<k, "success">> \in acked' \ acked
        => txn'[k].paidAt \/ txn'[k].status = "ABANDONED"

(* Who answers a success has it on record, or is putting it there.          *)
LEMMA NextAnswersForGood ==
    IInv /\ ReceiptInv /\ [Next]_vars => \A k \in Checkouts : AnswersForGood(k)
<1> SUFFICES ASSUME IInv, ReceiptInv, [Next]_vars, NEW k \in Checkouts,
                    <<k, "success">> \in acked' \ acked, txn'[k].status # "ABANDONED"
             PROVE  txn'[k].paidAt
  BY DEF AnswersForGood
<1>1. \/ txn[k].status = "SUCCESS"
      \/ \E d \in Deliveries : delivery[d].pc = "mail" /\ delivery[d].txn = k
  BY NextTells DEF Answers
<1>2. txn[k].paidAt
  BY <1>1 DEF ReceiptInv
<1>3. checkout[k].pc = "open"
  <2>1. CASE txn[k].status = "SUCCESS"
    BY <2>1 DEF IInv, Sound, PaymentsFollow
  <2>2. CASE \E d \in Deliveries : delivery[d].pc = "mail" /\ delivery[d].txn = k
    BY <2>2, HandlerServesRow DEF IInv
  <2> QED
    BY <1>1, <2>1, <2>2
<1> QED
  BY <1>2, <1>3, NextKeepsPaidAt

(* No charge.success is answered with 200 before the payment has been       *)
(* recorded as paid or flagged for a refund: neither a crash nor a P2002    *)
(* nor another delivery between the two loses money.                        *)
THEOREM NoChargeIsLost == Spec => AckedChargeIsRecorded
<1>1. Init => ReceiptInv
  BY DEF Init, NoPayment, Idle, ReceiptInv
<1>2. (\A k \in Checkouts : AnswersForGood(k)) =>
          [\A k \in Checkouts :
              <<k, "success">> \in acked' \ acked
                  => txn'[k].paidAt \/ txn'[k].status = "ABANDONED"]_vars
  BY DEF AnswersForGood
<1> QED
  BY <1>1, <1>2, Invariance, NextKeepsReceipts, NextAnswersForGood, PTL
     DEF Spec, AckedChargeIsRecorded

-----------------------------------------------------------------------------
(* How often a booking is confirmed.                                        *)

\* The handlers that work for booking b and are in one of the phases.
At(b, phases) ==
    {d \in Deliveries :
        delivery[d].pc \in phases /\ txn[delivery[d].txn].booking = b}

\* The handlers that may still record a success, create a calendar event, and
\* mail a confirmation.
ToConfirm == {"confirm"}
ToPush == {"confirm", "calendar"}
ToMail == {"confirm", "calendar", "link", "mail"}

\* As long as the row is held nobody is past the confirmation.  Afterwards no
\* handler gets to the confirmation any more: what those that are there, or
\* past it, may still do is counted in advance.
CountedFor(b) ==
    /\ booking[b].status \in {"NONE", "HELD"} =>
          /\ pushed[b] = 0
          /\ mailed[b] = 0
          /\ At(b, ToMail \ ToConfirm) = {}
    /\ pushed[b] + Cardinality(At(b, ToPush)) <= Cardinality(Deliveries)
    /\ mailed[b] + Cardinality(At(b, ToMail)) <= Cardinality(Deliveries)
    /\ IsFiniteSet(Successes(b))
    /\ Cardinality(Successes(b)) + Cardinality(At(b, ToConfirm))
          <= Cardinality(Deliveries)

Counted == \A b \in Holds : CountedFor(b)

(* There are no more handlers for a booking than there are handlers.        *)
LEMMA AtIsFinite ==
    ASSUME NEW b, NEW phases
    PROVE  /\ IsFiniteSet(At(b, phases))
           /\ Cardinality(At(b, phases)) \in Nat
           /\ Cardinality(Deliveries) \in Nat
           /\ Cardinality(At(b, phases)) <= Cardinality(Deliveries)
<1>1. At(b, phases) \in SUBSET Deliveries
  BY DEF At
<1> QED
  BY <1>1, DeliveriesAssumption, FS_Subset, FS_CardinalityType

(* A set that has lost an element is smaller by one.                        *)
LEMMA Shrinks ==
    ASSUME NEW S, NEW T, IsFiniteSet(S), T \subseteq S
    PROVE  /\ IsFiniteSet(T)
           /\ Cardinality(S) \in Nat
           /\ Cardinality(T) \in Nat
           /\ Cardinality(T) <= Cardinality(S)
           /\ \A x \in S \ T : Cardinality(T) + 1 <= Cardinality(S)
<1>1. /\ IsFiniteSet(T) /\ Cardinality(T) <= Cardinality(S)
      /\ Cardinality(S) \in Nat /\ Cardinality(T) \in Nat
  BY FS_Subset, FS_CardinalityType
<1>2. ASSUME NEW x \in S \ T
      PROVE  Cardinality(T) + 1 <= Cardinality(S)
  <2>1. T \subseteq S \ {x}
    OBVIOUS
  <2>2. IsFiniteSet(S \ {x}) /\ Cardinality(S \ {x}) = Cardinality(S) - 1
    BY FS_RemoveElement
  <2>3. Cardinality(T) <= Cardinality(S \ {x})
    BY <2>1, <2>2, FS_Subset
  <2> QED
    BY <1>1, <2>2, <2>3
<1> QED
  BY <1>1, <1>2

(* A set that has grown by at most one element is larger by at most one.    *)
LEMMA GrowsByOne ==
    ASSUME NEW S, NEW T, NEW x, IsFiniteSet(S), T \subseteq S \cup {x}
    PROVE  /\ IsFiniteSet(T)
           /\ Cardinality(S) \in Nat
           /\ Cardinality(T) \in Nat
           /\ Cardinality(T) <= Cardinality(S) + 1
<1> DEFINE U == S \cup {x}
<1>1. Cardinality(S) \in Nat
  BY FS_CardinalityType
<1>2. /\ IsFiniteSet(U)
      /\ Cardinality(U) = IF x \in S THEN Cardinality(S) ELSE Cardinality(S) + 1
  BY FS_AddElement
<1>3. T \in SUBSET U
  OBVIOUS
<1> HIDE DEF U
<1>4. IsFiniteSet(T) /\ Cardinality(T) <= Cardinality(U)
  BY <1>2, <1>3, FS_Subset
<1>5. Cardinality(T) \in Nat
  BY <1>4, FS_CardinalityType
<1> QED
  BY <1>1, <1>2, <1>4, <1>5

(* A step that lets no handler on to where it may do more, and counts what  *)
(* a handler has done as that handler moves out of the way, keeps count.    *)
LEMMA KeepsCount ==
    ASSUME IInv, NEW b \in Holds, CountedFor(b), RowMoves(b),
           pushed' \in [Holds -> Nat], mailed' \in [Holds -> Nat],
           At(b, ToConfirm)' \subseteq At(b, ToConfirm),
           At(b, ToPush)' \subseteq At(b, ToPush),
           At(b, ToMail)' \subseteq At(b, ToMail),
           booking'[b].status \in {"NONE", "HELD"} =>
              /\ pushed'[b] = pushed[b]
              /\ mailed'[b] = mailed[b]
              /\ At(b, ToMail \ ToConfirm)' \subseteq At(b, ToMail \ ToConfirm),
           \/ pushed'[b] = pushed[b]
           \/ /\ pushed'[b] = pushed[b] + 1
              /\ \E d \in At(b, ToPush) : d \notin At(b, ToPush)',
           \/ mailed'[b] = mailed[b]
           \/ /\ mailed'[b] = mailed[b] + 1
              /\ \E d \in At(b, ToMail) : d \notin At(b, ToMail)',
           \/ Successes(b)' \subseteq Successes(b)
           \/ /\ \E k \in Checkouts : Successes(b)' \subseteq Successes(b) \cup {k}
              /\ \E d \in At(b, ToConfirm) : d \notin At(b, ToConfirm)'
    PROVE  CountedFor(b)'
<1> DEFINE N == Cardinality(Deliveries)
           C == At(b, ToConfirm)
           P == At(b, ToPush)
           M == At(b, ToMail)
           S == Successes(b)
<1>1. /\ N \in Nat
      /\ pushed[b] \in Nat /\ mailed[b] \in Nat
      /\ pushed'[b] \in Nat /\ mailed'[b] \in Nat
  BY AtIsFinite DEF IInv, TypeOK
<1>2. IsFiniteSet(C) /\ IsFiniteSet(P) /\ IsFiniteSet(M) /\ IsFiniteSet(S)
  BY AtIsFinite DEF CountedFor
<1>3. /\ Cardinality(C) \in Nat /\ Cardinality(C') \in Nat
      /\ Cardinality(C') <= Cardinality(C)
      /\ \A d \in C \ C' : Cardinality(C') + 1 <= Cardinality(C)
  BY <1>2, Shrinks
<1>4. /\ Cardinality(P) \in Nat /\ Cardinality(P') \in Nat
      /\ Cardinality(P') <= Cardinality(P)
      /\ \A d \in P \ P' : Cardinality(P') + 1 <= Cardinality(P)
  BY <1>2, Shrinks
<1>5. /\ Cardinality(M) \in Nat /\ Cardinality(M') \in Nat
      /\ Cardinality(M') <= Cardinality(M)
      /\ \A d \in M \ M' : Cardinality(M') + 1 <= Cardinality(M)
  BY <1>2, Shrinks
<1>6. /\ pushed[b] + Cardinality(P) <= N
      /\ mailed[b] + Cardinality(M) <= N
      /\ Cardinality(S) + Cardinality(C) <= N
  BY DEF CountedFor
<1>7. booking'[b].status \in {"NONE", "HELD"} =>
         /\ pushed'[b] = 0
         /\ mailed'[b] = 0
         /\ At(b, ToMail \ ToConfirm)' = {}
  <2>1. booking'[b].status \in {"NONE", "HELD"}
            => booking[b].status \in {"NONE", "HELD"}
    BY DEF RowMoves, RowIsMade, RowIsMoved, Made
  <2> QED
    BY <2>1 DEF CountedFor
<1>8. pushed'[b] + Cardinality(P') <= N
  <2>1. CASE pushed'[b] = pushed[b]
    BY <1>1, <1>4, <1>6, <2>1
  <2>2. CASE pushed'[b] = pushed[b] + 1 /\ Cardinality(P') + 1 <= Cardinality(P)
    BY <1>1, <1>4, <1>6, <2>2
  <2> QED
    BY <1>4, <2>1, <2>2
<1>9. mailed'[b] + Cardinality(M') <= N
  <2>1. CASE mailed'[b] = mailed[b]
    BY <1>1, <1>5, <1>6, <2>1
  <2>2. CASE mailed'[b] = mailed[b] + 1 /\ Cardinality(M') + 1 <= Cardinality(M)
    BY <1>1, <1>5, <1>6, <2>2
  <2> QED
    BY <1>5, <2>1, <2>2
<1>10. IsFiniteSet(S') /\ Cardinality(S') + Cardinality(C') <= N
  <2>1. CASE S' \subseteq S
    <3>1. /\ IsFiniteSet(S') /\ Cardinality(S') <= Cardinality(S)
          /\ Cardinality(S) \in Nat /\ Cardinality(S') \in Nat
      BY <1>2, <2>1, Shrinks
    <3> QED
      BY <1>1, <1>3, <1>6, <3>1
  <2>2. ASSUME NEW k \in Checkouts, S' \subseteq S \cup {k},
               Cardinality(C') + 1 <= Cardinality(C)
        PROVE  IsFiniteSet(S') /\ Cardinality(S') + Cardinality(C') <= N
    <3>1. /\ IsFiniteSet(S') /\ Cardinality(S') <= Cardinality(S) + 1
          /\ Cardinality(S) \in Nat /\ Cardinality(S') \in Nat
      BY <1>2, <2>2, GrowsByOne
    <3> QED
      BY <1>1, <1>3, <1>6, <2>2, <3>1
  <2> QED
    BY <1>3, <2>1, <2>2
<1> QED
  BY <1>7, <1>8, <1>9, <1>10 DEF CountedFor

(* A held row has neither events nor mails nor recorded payments: whoever   *)
(* is let on to the confirmation is counted from zero.                      *)
LEMMA HeldCountsFromZero ==
    ASSUME IInv, NEW b \in Holds, CountedFor(b), booking[b].status = "HELD",
           UNCHANGED <<booking, txn, pushed, mailed>>,
           At(b, ToMail \ ToConfirm)' \subseteq At(b, ToMail \ ToConfirm)
    PROVE  CountedFor(b)'
<1>1. pushed[b] = 0 /\ mailed[b] = 0 /\ At(b, ToMail \ ToConfirm)' = {}
  BY DEF CountedFor
<1>2. Successes(b) = {}
  BY DEF Successes, IInv, Sound, SuccessHoldsItsSlot
<1>3. Successes(b)' = {}
  BY <1>2 DEF Successes
<1>4. IsFiniteSet(Successes(b)') /\ Cardinality(Successes(b)') = 0
  BY <1>3, FS_EmptySet
<1>5. ASSUME NEW phases
      PROVE  /\ Cardinality(At(b, phases)') \in Nat
             /\ Cardinality(At(b, phases)') <= Cardinality(Deliveries)
  <2>1. At(b, phases)' \in SUBSET Deliveries
    BY DEF At
  <2> QED
    BY <2>1, DeliveriesAssumption, FS_Subset, FS_CardinalityType
<1>6. Cardinality(Deliveries) \in Nat
  BY DeliveriesAssumption, FS_CardinalityType
<1>7. pushed'[b] + Cardinality(At(b, ToPush)') <= Cardinality(Deliveries)
  <2>1. Cardinality(At(b, ToPush)') <= Cardinality(Deliveries)
        /\ Cardinality(At(b, ToPush)') \in Nat
    BY <1>5
  <2> QED
    BY <1>1, <2>1
<1>8. mailed'[b] + Cardinality(At(b, ToMail)') <= Cardinality(Deliveries)
  <2>1. Cardinality(At(b, ToMail)') <= Cardinality(Deliveries)
        /\ Cardinality(At(b, ToMail)') \in Nat
    BY <1>5
  <2> QED
    BY <1>1, <2>1
<1>9. Cardinality(Successes(b)') + Cardinality(At(b, ToConfirm)')
         <= Cardinality(Deliveries)
  <2>1. Cardinality(At(b, ToConfirm)') <= Cardinality(Deliveries)
        /\ Cardinality(At(b, ToConfirm)') \in Nat
    BY <1>5
  <2> QED
    BY <1>4, <2>1
<1> QED
  BY <1>1, <1>4, <1>7, <1>8, <1>9 DEF CountedFor

(* Only handlers change the counts.                                         *)
LEMMA RestKeepsCount ==
    ASSUME IInv, Counted, NEW b \in Holds, RowMoves(b),
           \A k \in Checkouts : PaymentMoves(k),
           UNCHANGED <<delivery, pushed, mailed>>
    PROVE  CountedFor(b)'
<1> USE DEF IInv
<1>1. ASSUME NEW phases, "idle" \notin phases
      PROVE  At(b, phases)' \subseteq At(b, phases)
  <2> SUFFICES ASSUME NEW d \in Deliveries, delivery[d].pc \in phases,
                      txn'[delivery[d].txn].booking = b
               PROVE  txn[delivery[d].txn].booking = b
    BY DEF At
  <2>1. /\ delivery[d].txn \in Checkouts
        /\ checkout[delivery[d].txn].pc = "open"
    BY <1>1, HandlerServesRow
  <2> QED
    BY <2>1, OpenKeepsTerms
<1>2. /\ At(b, ToConfirm)' \subseteq At(b, ToConfirm)
      /\ At(b, ToPush)' \subseteq At(b, ToPush)
      /\ At(b, ToMail)' \subseteq At(b, ToMail)
      /\ At(b, ToMail \ ToConfirm)' \subseteq At(b, ToMail \ ToConfirm)
  BY <1>1 DEF ToConfirm, ToPush, ToMail
<1>3. Successes(b)' \subseteq Successes(b)
  <2> SUFFICES ASSUME NEW k \in Checkouts, txn'[k].booking = b, txn'[k].status = "SUCCESS"
               PROVE  txn[k].booking = b /\ txn[k].status = "SUCCESS"
    BY DEF Successes
  <2>1. ~PaymentOpens(k)
    BY DEF PaymentOpens
  <2>2. ~OutcomeIsWritten(k)
    BY DEF OutcomeIsWritten
  <2> QED
    BY <2>1, <2>2 DEF PaymentMoves
<1>4. pushed' \in [Holds -> Nat] /\ mailed' \in [Holds -> Nat]
  BY DEF TypeOK
<1> QED
  BY <1>2, <1>3, <1>4, KeepsCount DEF Counted

(* What a handler does is counted as the handler leaves the phase in which  *)
(* it may do so.                                                            *)
LEMMA HandlerKeepsCount ==
    ASSUME IInv, TypeOK', Counted, NEW b \in Holds, RowMoves(b), NEW d \in Deliveries,
           \/ \E k \in Checkouts, e \in Events : ReceiveWebhook(d, k, e)
           \/ HandlerStep(d)
           \/ FailDelivery(d)
    PROVE  CountedFor(b)'
<1> USE DEF IInv, requestVars, paymentVars, webhookVars, outsideVars
<1> DEFINE k == delivery[d].txn
           c == txn[k].booking
<1>1. /\ HandlerMoves(d)
      /\ \A x \in Deliveries \ {d} : delivery'[x] = delivery[x]
      /\ \A j \in Checkouts : PaymentMoves(j)
      /\ UNCHANGED checkout
  BY HandlerMovesPayments
<1>2. ASSUME NEW x \in Deliveries, delivery[x].pc # "idle"
      PROVE  txn'[delivery[x].txn].booking = txn[delivery[x].txn].booking
  BY <1>1, <1>2, HandlerServesRow, OpenKeepsTerms
<1>3. delivery'[d].pc \in ToMail => delivery'[d].txn = k /\ delivery[d].pc # "idle"
  BY <1>1 DEF HandlerMoves, HandlerStarts, HandlerGoesOn, ToMail
<1>4. ASSUME NEW phases \in SUBSET ToMail,
             delivery'[d].pc \in phases => delivery[d].pc \in phases \/ b # c
      PROVE  At(b, phases)' \subseteq At(b, phases)
  <2> SUFFICES ASSUME NEW x \in Deliveries, delivery'[x].pc \in phases,
                      txn'[delivery'[x].txn].booking = b
               PROVE  delivery[x].pc \in phases /\ txn[delivery[x].txn].booking = b
    BY DEF At
  <2>1. "idle" \notin phases
    BY DEF ToMail
  <2>2. CASE x # d
    <3>1. delivery'[x] = delivery[x]
      BY <1>1, <2>2
    <3>2. delivery[x].pc # "idle"
      BY <2>1, <3>1
    <3> QED
      BY <1>2, <3>1, <3>2
  <2>3. CASE x = d
    <3>1. delivery'[d].txn = k /\ delivery[d].pc # "idle"
      BY <1>3, <2>3
    <3>2. c = b
      BY <1>2, <2>3, <3>1
    <3> QED
      BY <1>4, <2>3, <3>2
  <2> QED
    BY <2>2, <2>3
<1>5. /\ ToConfirm \in SUBSET ToMail
      /\ ToPush \in SUBSET ToMail
      /\ ToMail \in SUBSET ToMail
      /\ ToMail \ ToConfirm \in SUBSET ToMail
  BY DEF ToConfirm, ToPush, ToMail
<1>6. /\ Successes(b)' \subseteq Successes(b) \cup {k}
      /\ delivery'[d].pc # "calendar" => Successes(b)' \subseteq Successes(b)
      /\ delivery[d].pc # "confirm" => Successes(b)' \subseteq Successes(b)
      /\ b # c => Successes(b)' \subseteq Successes(b)
  <2> SUFFICES ASSUME NEW j \in Checkouts, txn'[j].booking = b, txn'[j].status = "SUCCESS",
                      ~(txn[j].booking = b /\ txn[j].status = "SUCCESS")
               PROVE  /\ j = k /\ b = c
                      /\ delivery[d].pc = "confirm" /\ delivery'[d].pc = "calendar"
    BY DEF Successes
  <2>1. OutcomeIsWritten(j) /\ txn'[j].booking = txn[j].booking
    BY <1>1 DEF PaymentMoves, PaymentOpens
  <2>2. PICK x \in Deliveries : /\ delivery[x].txn = j
                                /\ delivery[x].pc = "confirm"
                                /\ delivery'[x].pc = "calendar"
    BY <2>1 DEF OutcomeIsWritten
  <2>3. x = d
    BY <1>1, <2>2
  <2> QED
    BY <2>1, <2>2, <2>3
<1>7. pushed' \in [Holds -> Nat] /\ mailed' \in [Holds -> Nat]
  BY DEF TypeOK
\* Nothing is done for b, and d does not come nearer to doing it.
<1>8. ASSUME \/ b # c
             \/ delivery'[d].pc \notin ToMail
             \/ /\ delivery[d].pc \in {"calendar", "link"}
                /\ delivery'[d].pc \in {"link", "mail"},
             pushed'[b] = pushed[b], mailed'[b] = mailed[b]
      PROVE  CountedFor(b)'
  <2>1. \A phases \in {ToConfirm, ToPush, ToMail, ToMail \ ToConfirm} :
           delivery'[d].pc \in phases => delivery[d].pc \in phases \/ b # c
    BY <1>8 DEF ToConfirm, ToPush, ToMail
  <2>2. /\ At(b, ToConfirm)' \subseteq At(b, ToConfirm)
        /\ At(b, ToPush)' \subseteq At(b, ToPush)
        /\ At(b, ToMail)' \subseteq At(b, ToMail)
        /\ At(b, ToMail \ ToConfirm)' \subseteq At(b, ToMail \ ToConfirm)
    BY <1>4, <1>5, <2>1
  <2>3. Successes(b)' \subseteq Successes(b)
    BY <1>6, <1>8 DEF ToMail
  <2> QED
    BY <1>7, <1>8, <2>2, <2>3, KeepsCount DEF Counted
\* Something is done for b, which is not held any more.
<1>9. ASSUME b = c, delivery[d].pc \in ToMail,
             delivery'[d].pc \in {"idle", "calendar", "link", "mail"},
             delivery[d].pc = "confirm" => booking'[b].status = "CONFIRMED",
             delivery[d].pc # "confirm" =>
                 delivery'[d].pc # "calendar" /\ UNCHANGED booking,
             \/ pushed'[b] = pushed[b]
             \/ pushed'[b] = pushed[b] + 1 /\ delivery[d].pc = "calendar",
             \/ mailed'[b] = mailed[b]
             \/ /\ mailed'[b] = mailed[b] + 1
                /\ delivery[d].pc = "mail" /\ delivery'[d].pc = "idle"
      PROVE  CountedFor(b)'
  <2>1. /\ delivery'[d].pc \in ToConfirm => delivery[d].pc \in ToConfirm
        /\ delivery'[d].pc \in ToPush => delivery[d].pc \in ToPush
        /\ delivery'[d].pc \in ToMail => delivery[d].pc \in ToMail
    BY <1>9 DEF ToConfirm, ToPush, ToMail
  <2>2. /\ At(b, ToConfirm)' \subseteq At(b, ToConfirm)
        /\ At(b, ToPush)' \subseteq At(b, ToPush)
        /\ At(b, ToMail)' \subseteq At(b, ToMail)
    BY <1>4, <1>5, <2>1
  <2>3. ASSUME NEW phases, delivery[d].pc \in phases, delivery'[d].pc \notin phases
        PROVE  \E x \in At(b, phases) : x \notin At(b, phases)'
    BY <1>9, <2>3 DEF At
  <2>4. booking'[b].status \notin {"NONE", "HELD"}
    <3>1. CASE delivery[d].pc = "confirm"
      BY <1>9, <3>1
    <3>2. CASE delivery[d].pc # "confirm"
      <4>1. d \in At(b, ToMail \ ToConfirm)
        BY <1>9, <3>2 DEF At, ToConfirm
      <4> QED
        BY <1>9, <3>2, <4>1 DEF Counted, CountedFor
    <3> QED
      BY <3>1, <3>2
  <2>5. \/ pushed'[b] = pushed[b]
        \/ /\ pushed'[b] = pushed[b] + 1
           /\ \E x \in At(b, ToPush) : x \notin At(b, ToPush)'
    BY <1>9, <2>3 DEF ToPush
  <2>6. \/ mailed'[b] = mailed[b]
        \/ /\ mailed'[b] = mailed[b] + 1
           /\ \E x \in At(b, ToMail) : x \notin At(b, ToMail)'
    BY <1>9, <2>3 DEF ToMail
  <2>7. \/ Successes(b)' \subseteq Successes(b)
        \/ /\ \E j \in Checkouts : Successes(b)' \subseteq Successes(b) \cup {j}
           /\ \E x \in At(b, ToConfirm) : x \notin At(b, ToConfirm)'
    <3>1. CASE delivery[d].pc = "confirm"
      <4>1. k \in Checkouts
        BY <3>1, HandlerServesRow
      <4>2. delivery'[d].pc \notin ToConfirm /\ delivery[d].pc \in ToConfirm
        BY <1>9, <3>1 DEF ToConfirm
      <4> QED
        BY <1>6, <2>3, <4>1, <4>2
    <3>2. CASE delivery[d].pc # "confirm"
      BY <1>6, <3>2
    <3> QED
      BY <3>1, <3>2
  <2> QED
    BY <1>7, <2>2, <2>4, <2>5, <2>6, <2>7, KeepsCount DEF Counted
<1>10. ASSUME NEW j \in Checkouts, NEW e \in Events, ReceiveWebhook(d, j, e)
       PROVE  CountedFor(b)'
  <2>1. /\ delivery'[d].pc \in {"idle", "readBooking", "failTxn"}
        /\ UNCHANGED <<pushed, mailed>>
    BY <1>10 DEF ReceiveWebhook, Acknowledge, TypeOK, Idle
  <2> QED
    BY <1>8, <2>1 DEF ToMail
<1>11. CASE ReadBooking(d)
  <2>1. /\ delivery'[d].pc = IF Live(c) THEN "confirm" ELSE "abandon"
        /\ UNCHANGED <<booking, txn, pushed, mailed>>
    BY <1>11 DEF ReadBooking, DeliveryGoesTo, TypeOK, Delivery
  <2>2. CASE Live(c) /\ b = c
    <3>1. At(b, ToMail \ ToConfirm)' \subseteq At(b, ToMail \ ToConfirm)
      BY <1>4, <1>5, <2>1, <2>2 DEF ToConfirm
    <3> QED
      BY <2>1, <2>2, <3>1, HeldCountsFromZero DEF Live, Counted
  <2>3. CASE ~(Live(c) /\ b = c)
    BY <1>8, <2>1, <2>3 DEF ToMail
  <2> QED
    BY <2>2, <2>3
<1>12. CASE Abandon(d) \/ ConfirmConflict(d) \/ FailBooking(d) \/ FailDelivery(d)
  <2>1. delivery' = [delivery EXCEPT ![d] = Idle] /\ UNCHANGED <<pushed, mailed>>
    BY <1>12 DEF Abandon, ConfirmConflict, FailBooking, FailDelivery, Acknowledge
  <2>2. delivery'[d].pc = "idle"
    BY <2>1 DEF TypeOK, Idle
  <2> QED
    BY <1>8, <2>1, <2>2 DEF ToMail
<1>13. CASE Confirm(d)
  <2>1. /\ delivery[d].pc = "confirm" /\ delivery'[d].pc = "calendar"
        /\ UNCHANGED <<pushed, mailed>>
    BY <1>13 DEF Confirm, DeliveryGoesTo, TypeOK, Delivery
  <2>2. ASSUME b = c
        PROVE  booking'[b].status = "CONFIRMED"
    <3>1. booking' = [booking EXCEPT ![b] =
              [booking[b] EXCEPT !.status = "CONFIRMED", !.paymentStatus = "SUCCESS"]]
      BY <1>13, <2>2 DEF Confirm
    <3> QED
      BY <3>1 DEF TypeOK, BookingRow
  <2> QED
    BY <1>8, <1>9, <2>1, <2>2 DEF ToMail
<1>14. CASE PushCalendar(d)
  <2>1. delivery[d].pc = "calendar" /\ UNCHANGED <<booking, mailed>>
    BY <1>14 DEF PushCalendar
  <2>2. /\ delivery'[d].pc \in {"link", "mail"}
        /\ \/ pushed' = [pushed EXCEPT ![c] = pushed[c] + 1]
           \/ UNCHANGED pushed
    BY <1>14 DEF PushCalendar, DeliveryGoesTo, TypeOK, Delivery
  <2>3. CASE b # c
    <3>1. pushed'[b] = pushed[b]
      BY <2>2, <2>3 DEF TypeOK
    <3> QED
      BY <1>8, <2>1, <2>2, <2>3, <3>1
  <2>4. CASE b = c
    <3>1. pushed'[b] = pushed[b] \/ pushed'[b] = pushed[b] + 1
      BY <2>2, <2>4 DEF TypeOK
    <3>2. delivery'[d].pc \in {"link", "mail"}
      BY <2>2
    <3> QED
      BY <1>9, <2>1, <2>4, <3>1, <3>2 DEF ToMail
  <2> QED
    BY <2>3, <2>4
<1>15. CASE LinkEvent(d)
  <2>1. /\ delivery[d].pc = "link" /\ delivery'[d].pc = "mail"
        /\ UNCHANGED <<pushed, mailed>>
    BY <1>15 DEF LinkEvent, DeliveryGoesTo, TypeOK, Delivery
  <2> QED
    BY <1>8, <2>1
<1>16. CASE SendConfirmation(d)
  <2>1. /\ delivery[d].pc = "mail" /\ delivery'[d].pc = "idle"
        /\ \/ mailed' = [mailed EXCEPT ![c] = mailed[c] + 1]
           \/ UNCHANGED mailed
        /\ UNCHANGED <<booking, pushed>>
    BY <1>16 DEF SendConfirmation, Acknowledge, TypeOK, Idle
  <2>2. CASE b # c
    <3>1. mailed'[b] = mailed[b]
      BY <2>1, <2>2 DEF TypeOK
    <3> QED
      BY <1>8, <2>1, <2>2, <3>1
  <2>3. CASE b = c
    <3>1. mailed'[b] = mailed[b] \/ mailed'[b] = mailed[b] + 1
      BY <2>1, <2>3 DEF TypeOK
    <3> QED
      BY <1>9, <2>1, <2>3, <3>1 DEF ToMail
  <2> QED
    BY <2>2, <2>3
<1>17. CASE FailTxn(d)
  <2>1. delivery'[d].pc = "failBooking" /\ UNCHANGED <<pushed, mailed>>
    BY <1>17 DEF FailTxn, DeliveryGoesTo, TypeOK, Delivery
  <2> QED
    BY <1>8, <2>1 DEF ToMail
<1> QED
  BY <1>10, <1>11, <1>12, <1>13, <1>14, <1>15, <1>16, <1>17 DEF HandlerStep

(* Every step keeps count.                                                  *)
LEMMA NextKeepsCounted == IInv /\ Counted /\ [Next]_vars => Counted'
<1> SUFFICES ASSUME IInv, Counted, [Next]_vars, NEW b \in Holds
             PROVE  CountedFor(b)'
  BY DEF Counted
<1>1. /\ RowMoves(b)
      /\ \A k \in Checkouts : PaymentMoves(k)
      /\ TypeOK'
  BY NextMovesRows, NextMovesPayments, NextKeepsIInv DEF IInv
<1>2. ASSUME NEW d \in Deliveries,
             \/ \E k \in Checkouts, e \in Events : ReceiveWebhook(d, k, e)
             \/ HandlerStep(d)
             \/ FailDelivery(d)
      PROVE  CountedFor(b)'
  BY <1>1, <1>2, HandlerKeepsCount
<1>3. ASSUME NEW h \in Holds,
             \/ \E s \in Services, start \in Starts, q \in Quantities :
                   CreateHold(h, s, start, q)
             \/ HoldStep(h)
             \/ FailHold(h)
      PROVE  UNCHANGED <<delivery, pushed, mailed>>
  BY <1>3 DEF CreateHold, HoldStep, CheckSlot, InsertHold, SlotConflict,
              ReferenceConflict, InsertFails, Reclaim, FailHold, webhookVars,
              outsideVars
<1>4. ASSUME NEW k \in Checkouts,
             \/ \E c \in Holds : InitCheckout(k, c)
             \/ OpenCheckout(k)
             \/ FailCheckout(k)
             \/ \E e \in Events : Charge(k, e)
      PROVE  UNCHANGED <<delivery, pushed, mailed>>
  BY <1>4 DEF InitCheckout, OpenCheckout, FailCheckout, Charge, webhookVars,
              outsideVars
<1>5. ASSUME \/ \E s \in Services, config \in ServiceConfigs : UpdateService(s, config)
             \/ \E c \in Holds : Cancel(c)
             \/ SweepExpiredHolds
             \/ Tick
             \/ UNCHANGED vars
      PROVE  UNCHANGED <<delivery, pushed, mailed>>
  BY <1>5 DEF UpdateService, Cancel, SweepExpiredHolds, Tick, vars, webhookVars,
              outsideVars
<1>6. ASSUME UNCHANGED <<delivery, pushed, mailed>>
      PROVE  CountedFor(b)'
  BY <1>1, <1>6, RestKeepsCount
<1> QED
  BY <1>2, <1>3, <1>4, <1>5, <1>6 DEF Next

(* Initially nothing has happened to any booking.                           *)
LEMMA InitCounted == Init => Counted
<1> SUFFICES ASSUME Init, NEW b \in Holds PROVE CountedFor(b)
  BY DEF Counted
<1>1. pushed[b] = 0 /\ mailed[b] = 0 /\ Successes(b) = {}
  BY DEF Init, Successes, NoPayment
<1>2. IsFiniteSet(Successes(b)) /\ Cardinality(Successes(b)) = 0
  BY <1>1, FS_EmptySet
<1>3. At(b, ToMail \ ToConfirm) = {}
  BY DEF Init, At, Idle, ToMail
<1>4. ASSUME NEW phases
      PROVE  0 + Cardinality(At(b, phases)) <= Cardinality(Deliveries)
  <2> HIDE DEF At
  <2> QED
    BY AtIsFinite
<1> QED
  BY <1>1, <1>2, <1>3, <1>4 DEF CountedFor

(* However often Paystack delivers and however many handlers race and       *)
(* crash, a booking gets no more calendar events, confirmations and         *)
(* recorded payments than there are handlers.                               *)
THEOREM ConfirmedOnce == Spec => []ConfirmedOncePerHandler
<1>1. IInv /\ Counted => ConfirmedOncePerHandler
  <2> SUFFICES ASSUME IInv, Counted, NEW b \in Holds
               PROVE  /\ pushed[b] <= Cardinality(Deliveries)
                      /\ mailed[b] <= Cardinality(Deliveries)
                      /\ Cardinality(Successes(b)) <= Cardinality(Deliveries)
    BY DEF ConfirmedOncePerHandler, Successes
  <2>1. /\ Cardinality(At(b, ToPush)) \in Nat
        /\ Cardinality(At(b, ToMail)) \in Nat
        /\ Cardinality(At(b, ToConfirm)) \in Nat
        /\ Cardinality(Deliveries) \in Nat
    BY AtIsFinite
  <2>2. pushed[b] \in Nat /\ mailed[b] \in Nat
    BY DEF IInv, TypeOK
  <2>3. CountedFor(b)
    BY DEF Counted
  <2>4. Cardinality(Successes(b)) \in Nat
    BY <2>3, FS_CardinalityType DEF CountedFor
  <2> QED
    BY <2>1, <2>2, <2>3, <2>4 DEF CountedFor
<1> QED
  BY <1>1, InitCounted, Invariance, NextKeepsCounted, PTL DEF Spec
=============================================================================
