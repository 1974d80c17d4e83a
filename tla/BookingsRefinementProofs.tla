----------------------- MODULE BookingsRefinementProofs -----------------------
(***************************************************************************)
(* Bookings implements BookingLedger, for any number of requests, handlers, *)
(* services and start times.                                                *)
(***************************************************************************)
EXTENDS BookingsRefinement, BookingsProofs

\* A row's start is one that somebody asked for.
StartsAreAsked == \A h \in Holds : hold[h].pc # "new" => hold[h].start \in Starts

(* Only CreateHold gives a request its start.                               *)
LEMMA NextKeepsStarts ==
    ASSUME TypeOK, StartsAreAsked, [Next]_vars
    PROVE  StartsAreAsked'
<1> USE DEF StartsAreAsked, TypeOK, requestVars, paymentVars, webhookVars, outsideVars
<1>1. ASSUME hold' = hold
      PROVE  StartsAreAsked'
  BY <1>1
<1>2. ASSUME NEW h \in Holds, HoldStep(h) \/ FailHold(h)
      PROVE  StartsAreAsked'
  <2>1. hold[h].pc # "new" /\ hold[h] \in HoldRequest
    BY <1>2 DEF HoldStep, CheckSlot, InsertHold, SlotConflict, ReferenceConflict,
                Reclaim, FailHold
  <2>2. \A g \in Holds \ {h} : hold'[g] = hold[g]
    BY <1>2 DEF HoldStep, CheckSlot, InsertHold, SlotConflict, ReferenceConflict,
                InsertFails, Reclaim, FailHold
  <2>3. hold'[h].start = hold[h].start
    <3>1. ASSUME NEW pc, hold' = [hold EXCEPT ![h].pc = pc]
          PROVE  hold'[h].start = hold[h].start
      BY <2>1, <3>1 DEF HoldRequest
    <3>2. CASE CheckSlot(h)
      BY <3>1, <3>2 DEF CheckSlot
    <3>3. CASE InsertHold(h)
      BY <3>1, <3>3 DEF InsertHold
    <3>4. CASE SlotConflict(h) \/ ReferenceConflict(h)
      BY <3>1, <3>4 DEF SlotConflict, ReferenceConflict, InsertFails
    <3>5. CASE Reclaim(h)
      <4>1. CASE hold' = [hold EXCEPT ![h] = [@ EXCEPT
                             !.pc = "checking", !.allowRetry = FALSE]]
        BY <2>1, <4>1 DEF HoldRequest
      <4>2. CASE hold' = [hold EXCEPT ![h].pc = "taken"]
        BY <3>1, <4>2
      <4> QED BY <3>5, <4>1, <4>2 DEF Reclaim
    <3>6. CASE FailHold(h)
      BY <3>1, <3>6 DEF FailHold
    <3> QED
      BY <1>2, <3>2, <3>3, <3>4, <3>5, <3>6 DEF HoldStep
  <2> QED
    BY <2>1, <2>2, <2>3
<1>3. ASSUME NEW h \in Holds, NEW s \in Services, NEW start \in Starts,
             NEW q \in Quantities, CreateHold(h, s, start, q)
      PROVE  StartsAreAsked'
  BY <1>3 DEF CreateHold
<1>4. ASSUME NEW d \in Deliveries,
             \/ \E k \in Checkouts, e \in Events : ReceiveWebhook(d, k, e)
             \/ HandlerStep(d)
             \/ FailDelivery(d)
      PROVE  hold' = hold
  BY <1>4 DEF ReceiveWebhook, HandlerStep, ReadBooking, Abandon, Confirm,
              ConfirmConflict, PushCalendar, LinkEvent, SendConfirmation,
              FailTxn, FailBooking, FailDelivery
<1>5. ASSUME NEW k \in Checkouts,
             \/ \E b \in Holds : InitCheckout(k, b)
             \/ OpenCheckout(k) \/ FailCheckout(k)
             \/ \E e \in Events : Charge(k, e)
      PROVE  hold' = hold
  BY <1>5 DEF InitCheckout, OpenCheckout, FailCheckout, Charge
<1>6. ASSUME \/ \E s \in Services, config \in ServiceConfigs : UpdateService(s, config)
             \/ \E b \in Holds : Cancel(b)
             \/ SweepExpiredHolds
             \/ Tick
             \/ UNCHANGED vars
      PROVE  hold' = hold
  BY <1>6 DEF UpdateService, Cancel, SweepExpiredHolds, Tick, vars
<1> QED
  BY <1>1, <1>2, <1>3, <1>4, <1>5, <1>6 DEF Next

-----------------------------------------------------------------------------
(* Initially the ledger is empty.                                           *)
LEMMA InitRefines == Init => Ledger!Init
<1> SUFFICES ASSUME Init PROVE Ledger!Init
  OBVIOUS
<1>1. \A b \in Holds : booking[b] = NoBooking /\ ~Made(b) /\ ~PaidFor(b)
  BY DEF Init, Made, PaidFor, NoBooking
<1>2. LedgerStatus = [b \in Holds |-> "NONE"]
  BY <1>1 DEF LedgerStatus, NoBooking
<1>3. LedgerSlot = [b \in Holds |-> NoStart]
  BY <1>1 DEF LedgerSlot
<1>4. LedgerLapsed = {} /\ LedgerPaid = {}
  BY <1>1 DEF LedgerLapsed, LedgerPaid
<1> QED
  BY <1>2, <1>3, <1>4 DEF Ledger!Init

\* What the ledger shows of a booking stays as it is.
SameEntry(b) ==
    /\ booking'[b].status = booking[b].status
    /\ booking'[b].start = booking[b].start
    /\ booking'[b].heldFor = booking[b].heldFor

SamePaid == \A b \in Holds : PaidFor(b)' <=> PaidFor(b)

(* A step that leaves the entries alone leaves their part of the ledger     *)
(* alone, and one that charges nobody the other part.                       *)
LEMMA EntriesFrame ==
    ASSUME \A b \in Holds : SameEntry(b)
    PROVE  UNCHANGED <<LedgerStatus, LedgerSlot, LedgerLapsed>>
BY DEF SameEntry, LedgerStatus, LedgerSlot, LedgerLapsed, Made

LEMMA PaidFrame ==
    ASSUME SamePaid
    PROVE  UNCHANGED LedgerPaid
BY DEF SamePaid, LedgerPaid

(* Payment rows keep their bookings, so only a charge changes who has paid. *)
LEMMA PaidKept ==
    ASSUME charge' = charge, \A k \in Checkouts : txn'[k].booking = txn[k].booking
    PROVE  SamePaid
BY DEF SamePaid, PaidFor

\* The steps of the ledger, or none.
LedgerStep == Ledger!Next \/ UNCHANGED Ledger!vars

(* A step that changes neither is none of the ledger's.                     *)
LEMMA Stutter ==
    ASSUME \A b \in Holds : SameEntry(b), SamePaid
    PROVE  LedgerStep
BY EntriesFrame, PaidFrame DEF LedgerStep, Ledger!vars

(* Expiring rows that have lapsed is a step of the ledger.                  *)
LEMMA ExpireRefines ==
    ASSUME TypeOK, NEW rows \in SUBSET Holds, \A b \in rows : Lapsed(b), Expire(rows),
           SamePaid
    PROVE  LedgerStep
<1>1. \A b \in Holds : /\ booking[b] \in BookingRow
                       /\ Made(b)' <=> Made(b)
                       /\ booking'[b].start = booking[b].start
                       /\ booking'[b].heldFor = booking[b].heldFor
                       /\ booking'[b].status =
                             IF b \in rows THEN "EXPIRED" ELSE booking[b].status
  BY DEF TypeOK, Expire, BookingRow, Made, Lapsed
<1>2. rows \subseteq {b \in LedgerLapsed : LedgerStatus[b] = "HELD"}
  BY DEF Lapsed, LedgerLapsed, LedgerStatus, Made
<1>3. LedgerStatus' = [b \in Holds |-> IF b \in rows THEN "EXPIRED" ELSE LedgerStatus[b]]
  BY <1>1 DEF LedgerStatus
<1>4. UNCHANGED <<LedgerSlot, LedgerLapsed>>
  BY <1>1 DEF LedgerSlot, LedgerLapsed
<1>5. UNCHANGED LedgerPaid
  BY PaidFrame
<1>6. Ledger!Expire(rows)
  BY <1>2, <1>3, <1>4, <1>5 DEF Ledger!Expire
<1> QED
  BY <1>6 DEF LedgerStep, Ledger!Next

(* If the index admits b, nobody in the ledger has its slot.                *)
LEMMA FreeInLedger ==
    ASSUME NEW b \in Holds, NEW s \in Nat, IndexAllows(b, s)
    PROVE  Ledger!FreeFor(b, s)
BY DEF IndexAllows, Occupying, Ledger!FreeFor, Ledger!Occupying, LedgerStatus,
       LedgerSlot, Made

-----------------------------------------------------------------------------
(* The steps of createHold: a granted hold takes a slot, a reclaim expires  *)
(* what has lapsed, the rest is none of the ledger's.                       *)
LEMMA HoldRefines ==
    ASSUME IInv, StartsAreAsked, NEW h \in Holds,
           \/ \E s \in Services, start \in Starts, q \in Quantities :
                 CreateHold(h, s, start, q)
           \/ HoldStep(h)
           \/ FailHold(h)
    PROVE  LedgerStep
<1> USE DEF IInv, requestVars, paymentVars, webhookVars, outsideVars
<1>1. ASSUME booking' = booking, UNCHANGED paymentVars
      PROVE  LedgerStep
  <2>1. SamePaid
    BY <1>1, PaidKept
  <2>2. \A b \in Holds : SameEntry(b)
    BY <1>1 DEF SameEntry
  <2> QED
    BY <2>1, <2>2, Stutter
<1>2. ASSUME InsertHold(h)
      PROVE  LedgerStep
  <2> DEFINE s == hold[h].start
  <2>1. s \in Starts /\ s \in Nat
    BY <1>2, DayAssumption DEF InsertHold, StartsAreAsked
  <2>2. ~Made(h)
    BY <1>2 DEF InsertHold, Sound, RowsFollow
  <2>3. \A b \in Holds \ {h} : booking'[b] = booking[b]
    BY <1>2 DEF InsertHold, TypeOK
  <2>4. /\ booking'[h].status = "HELD"
        /\ booking'[h].start = s
        /\ booking'[h].heldFor = HoldDuration
    BY <1>2 DEF InsertHold, TypeOK
  <2>5. ~(booking'[h].heldFor <= 0)
    BY <2>4, BoundsAssumption
  <2>6. LedgerStatus[h] = "NONE"
    BY <2>2 DEF LedgerStatus, Made
  <2>7. LedgerStatus' = [LedgerStatus EXCEPT ![h] = "HELD"]
    BY <2>3, <2>4 DEF LedgerStatus
  <2>8. LedgerSlot' = [LedgerSlot EXCEPT ![h] = s]
    BY <2>3, <2>4 DEF LedgerSlot, Made
  <2>9. LedgerLapsed' = LedgerLapsed
    BY <2>2, <2>3, <2>5 DEF LedgerLapsed, Made
  <2>10. LedgerPaid' = LedgerPaid
    BY <1>2, PaidKept, PaidFrame DEF InsertHold
  <2>11. Ledger!FreeFor(h, s)
    BY <1>2, <2>1, FreeInLedger DEF InsertHold
  <2>12. Ledger!Take(h, s)
    BY <2>6, <2>7, <2>8, <2>9, <2>10, <2>11 DEF Ledger!Take
  <2> QED
    BY <2>1, <2>12 DEF LedgerStep, Ledger!Next
<1>3. ASSUME Reclaim(h)
      PROVE  LedgerStep
  <2> DEFINE stale == {b \in Holds : Lapsed(b) /\ booking[b].start = hold[h].start}
  <2>1. Expire(stale) /\ UNCHANGED paymentVars
    BY <1>3 DEF Reclaim
  <2>2. SamePaid
    BY <2>1, PaidKept
  <2>3. stale \in SUBSET Holds /\ \A b \in stale : Lapsed(b)
    OBVIOUS
  <2> HIDE DEF stale
  <2> QED
    BY <2>1, <2>2, <2>3, ExpireRefines
<1> QED
  BY <1>1, <1>2, <1>3
     DEF CreateHold, HoldStep, CheckSlot, SlotConflict, ReferenceConflict,
         InsertFails, FailHold

(* The steps of initCheckout, and of Paystack: a charge that succeeds pays. *)
LEMMA CheckoutRefines ==
    ASSUME IInv, NEW k \in Checkouts,
           \/ \E b \in Holds : InitCheckout(k, b)
           \/ OpenCheckout(k)
           \/ FailCheckout(k)
           \/ \E e \in Events : Charge(k, e)
    PROVE  LedgerStep
<1> USE DEF IInv, requestVars, paymentVars, webhookVars, outsideVars
<1>1. booking' = booking /\ \A b \in Holds : SameEntry(b)
  BY DEF InitCheckout, OpenCheckout, FailCheckout, Charge, SameEntry
<1>2. ASSUME UNCHANGED <<txn, charge>>
      PROVE  LedgerStep
  BY <1>1, <1>2, PaidKept, Stutter
<1>3. CASE OpenCheckout(k)
  <2>1. charge[k] = {} /\ charge' = charge
    BY <1>3 DEF OpenCheckout, Sound, PaymentsFollow
  <2>2. \A j \in Checkouts \ {k} : txn'[j].booking = txn[j].booking
    BY <1>3 DEF OpenCheckout, TypeOK
  <2>3. SamePaid
    BY <2>1, <2>2 DEF SamePaid, PaidFor
  <2> QED
    BY <1>1, <2>3, Stutter
<1>4. ASSUME NEW e \in Events, Charge(k, e)
      PROVE  LedgerStep
  <2>1. /\ txn' = txn
        /\ \A j \in Checkouts \ {k} : charge'[j] = charge[j]
        /\ charge'[k] = charge[k] \cup {e}
    BY <1>4 DEF Charge, TypeOK
  <2>2. CASE e # "success"
    <3>1. SamePaid
      BY <2>1, <2>2 DEF SamePaid, PaidFor
    <3> QED
      BY <1>1, <3>1, Stutter
  <2>3. CASE e = "success"
    <3> DEFINE b == txn[k].booking
    <3>1. b \in Holds /\ Made(b)
      BY <1>4 DEF Charge, Sound, PaymentsFollow
    <3>2. \A c \in Holds : PaidFor(c)' <=> PaidFor(c) \/ c = b
      BY <2>1, <2>3 DEF PaidFor
    <3>3. LedgerPaid' = LedgerPaid \cup {b}
      BY <3>1, <3>2 DEF LedgerPaid
    <3>4. LedgerStatus[b] # "NONE"
      BY <3>1 DEF LedgerStatus, Made
    <3>5. Ledger!Pay(b)
      BY <1>1, <3>3, <3>4, EntriesFrame DEF Ledger!Pay
    <3> QED
      BY <3>1, <3>5 DEF LedgerStep, Ledger!Next
  <2> QED
    BY <2>2, <2>3
<1> QED
  BY <1>2, <1>3, <1>4 DEF InitCheckout, FailCheckout

(* The steps of handleWebhook: a confirmation confirms what has been paid   *)
(* for, the rest is none of the ledger's.                                   *)
LEMMA HandlerRefines ==
    ASSUME IInv, NEW d \in Deliveries,
           \/ \E k \in Checkouts, e \in Events : ReceiveWebhook(d, k, e)
           \/ HandlerStep(d)
           \/ FailDelivery(d)
    PROVE  LedgerStep
<1> USE DEF IInv, requestVars, paymentVars, webhookVars, outsideVars
<1> DEFINE k == delivery[d].txn
           b == txn[k].booking
<1>1. charge' = charge /\ \A j \in Checkouts : txn'[j].booking = txn[j].booking
  <2>1. ASSUME NEW status, txn' = [txn EXCEPT ![k].status = status]
        PROVE  \A j \in Checkouts : txn'[j].booking = txn[j].booking
    BY <2>1 DEF TypeOK, Payment
  <2>2. CASE Abandon(d)
    BY <2>1, <2>2 DEF Abandon
  <2>3. CASE Confirm(d)
    BY <2>1, <2>3 DEF Confirm
  <2>4. CASE FailTxn(d)
    BY <2>1, <2>4 DEF FailTxn
  <2> QED
    BY <2>2, <2>3, <2>4
       DEF ReceiveWebhook, HandlerStep, ReadBooking, ConfirmConflict, PushCalendar,
           LinkEvent, SendConfirmation, FailBooking, FailDelivery, Abandon, Confirm,
           FailTxn
<1>2. SamePaid
  BY <1>1, PaidKept
<1>3. ASSUME delivery[d].pc # "idle"
      PROVE  k \in Checkouts /\ txn[k].booking \in Holds \cup {None}
  BY <1>3 DEF Sound, HandlersFollow, TypeOK, Payment
<1>4. CASE LinkEvent(d) \/ FailBooking(d)
  <2>1. \/ booking' = [booking EXCEPT ![b] = [booking[b] EXCEPT !.linked = TRUE]]
        \/ booking' = [booking EXCEPT ![b] =
              [booking[b] EXCEPT !.paymentStatus = "FAILED"]]
    BY <1>4 DEF LinkEvent, FailBooking
  <2> HIDE DEF b
  <2>2. \A c \in Holds : SameEntry(c)
    <3> SUFFICES ASSUME NEW c \in Holds PROVE SameEntry(c)
      OBVIOUS
    <3>1. booking \in [Holds -> BookingRow] /\ booking[c] \in BookingRow
      BY DEF TypeOK
    <3>2. /\ booking'[c].status = booking[c].status
          /\ booking'[c].start = booking[c].start
          /\ booking'[c].heldFor = booking[c].heldFor
      BY <2>1, <3>1 DEF BookingRow
    <3> QED
      BY <3>2 DEF SameEntry
  <2> QED
    BY <1>2, <2>2, Stutter
<1>5. CASE Confirm(d)
  <2>1. k \in Checkouts /\ "success" \in charge[k]
    BY <1>5 DEF Confirm, Sound, HandlersFollow, Clearing
  <2>2. b \in Holds /\ Made(b) /\ PaidFor(b)
    BY <2>1, NoneAssumption DEF Sound, PaymentsFollow, PaidFor
  <2>3. booking[b] \in BookingRow
    BY <2>2 DEF TypeOK
  <2>4. /\ \A c \in Holds \ {b} : booking'[c] = booking[c]
        /\ booking'[b].status = "CONFIRMED"
        /\ booking'[b].start = booking[b].start
        /\ booking'[b].heldFor = booking[b].heldFor
    BY <1>5, <2>2, <2>3 DEF Confirm, TypeOK, BookingRow
  <2>5. LedgerStatus[b] # "NONE" /\ b \in LedgerPaid /\ LedgerSlot[b] = booking[b].start
    BY <2>2 DEF LedgerStatus, LedgerPaid, LedgerSlot, Made
  <2>6. Ledger!FreeFor(b, LedgerSlot[b])
    BY <1>5, <2>2, <2>3, <2>5, FreeInLedger DEF Confirm, BookingRow
  <2>7. LedgerStatus' = [LedgerStatus EXCEPT ![b] = "CONFIRMED"]
    BY <2>2, <2>4 DEF LedgerStatus
  <2>8. UNCHANGED <<LedgerSlot, LedgerLapsed>>
    BY <2>2, <2>4 DEF LedgerSlot, LedgerLapsed, Made
  <2>9. UNCHANGED LedgerPaid
    BY <1>2, PaidFrame
  <2>10. Ledger!Confirm(b)
    BY <2>5, <2>6, <2>7, <2>8, <2>9 DEF Ledger!Confirm
  <2> QED
    BY <2>2, <2>10 DEF LedgerStep, Ledger!Next
<1>6. ASSUME booking' = booking
      PROVE  LedgerStep
  <2>1. \A c \in Holds : SameEntry(c)
    BY <1>6 DEF SameEntry
  <2> QED
    BY <1>2, <2>1, Stutter
<1> QED
  BY <1>4, <1>5, <1>6
     DEF ReceiveWebhook, HandlerStep, ReadBooking, Abandon, ConfirmConflict,
         PushCalendar, SendConfirmation, FailTxn, FailDelivery

(* The professional cancels, the sweep expires what has lapsed, and with    *)
(* the clock bookings lapse.                                                *)
LEMMA OthersRefine ==
    ASSUME IInv,
           \/ \E s \in Services, config \in ServiceConfigs : UpdateService(s, config)
           \/ \E b \in Holds : Cancel(b)
           \/ SweepExpiredHolds
           \/ Tick
           \/ UNCHANGED vars
    PROVE  LedgerStep
<1> USE DEF IInv, requestVars, paymentVars, webhookVars, outsideVars
<1>1. SamePaid
  BY PaidKept DEF UpdateService, Cancel, SweepExpiredHolds, Tick, vars
<1>2. UNCHANGED LedgerPaid
  BY <1>1, PaidFrame
<1>3. ASSUME booking' = booking
      PROVE  LedgerStep
  <2>1. \A b \in Holds : SameEntry(b)
    BY <1>3 DEF SameEntry
  <2> QED
    BY <1>1, <2>1, Stutter
<1>4. ASSUME NEW b \in Holds, Cancel(b)
      PROVE  LedgerStep
  <2>1. booking[b] \in BookingRow
    BY DEF TypeOK
  <2>2. /\ Made(b)
        /\ \A c \in Holds \ {b} : booking'[c] = booking[c]
        /\ booking'[b].status = "CANCELLED"
        /\ booking'[b].start = booking[b].start
        /\ booking'[b].heldFor = booking[b].heldFor
    BY <1>4, <2>1 DEF Cancel, TypeOK, BookingRow
  <2>3. LedgerStatus[b] # "NONE"
    BY <2>2 DEF LedgerStatus, Made
  <2>4. LedgerStatus' = [LedgerStatus EXCEPT ![b] = "CANCELLED"]
    BY <2>2 DEF LedgerStatus
  <2>5. UNCHANGED <<LedgerSlot, LedgerLapsed>>
    BY <2>2 DEF LedgerSlot, LedgerLapsed, Made
  <2>6. Ledger!Cancel(b)
    BY <1>2, <2>3, <2>4, <2>5 DEF Ledger!Cancel
  <2> QED
    BY <2>6 DEF LedgerStep, Ledger!Next
<1>5. CASE SweepExpiredHolds
  <2> DEFINE rows == {b \in Holds : Lapsed(b)}
  <2>1. Expire(rows) /\ rows \in SUBSET Holds /\ \A b \in rows : Lapsed(b)
    BY <1>5 DEF SweepExpiredHolds
  <2> HIDE DEF rows
  <2> QED
    BY <1>1, <2>1, ExpireRefines
<1>6. CASE Tick
  <2> DEFINE more == {b \in Holds : Made(b) /\ booking'[b].heldFor <= 0}
  <2>1. \A b \in Holds :
           /\ booking'[b].status = booking[b].status
           /\ booking'[b].start = booking[b].start
           /\ booking[b].heldFor <= 0 => booking'[b].heldFor <= 0
    <3> SUFFICES ASSUME NEW b \in Holds
                 PROVE  /\ booking'[b].status = booking[b].status
                        /\ booking'[b].start = booking[b].start
                        /\ booking[b].heldFor <= 0 => booking'[b].heldFor <= 0
      OBVIOUS
    <3>1. booking[b] \in BookingRow
      BY DEF TypeOK
    <3>2. booking[b].heldFor \in Int
      BY <3>1, BoundsAssumption DEF BookingRow
    <3> QED
      BY <1>6, <3>1, <3>2 DEF Tick, BookingRow
  <2>2. \A b \in Holds : Made(b)' <=> Made(b)
    BY <2>1 DEF Made
  <2>3. UNCHANGED <<LedgerStatus, LedgerSlot>>
    BY <2>1, <2>2 DEF LedgerStatus, LedgerSlot
  <2>4. LedgerLapsed' = LedgerLapsed \cup more
    BY <2>1, <2>2 DEF LedgerLapsed
  <2>5. more \in SUBSET Holds /\ \A b \in more : LedgerStatus[b] # "NONE"
    BY DEF LedgerStatus, Made
  <2> HIDE DEF more
  <2>6. Ledger!Lapse(more)
    BY <1>2, <2>3, <2>4, <2>5 DEF Ledger!Lapse
  <2> QED
    BY <2>5, <2>6 DEF LedgerStep, Ledger!Next
<1> QED
  BY <1>3, <1>4, <1>5, <1>6 DEF UpdateService, vars

(* Every step of the booking service is a step of the ledger, or none.      *)
LEMMA NextRefines ==
    ASSUME IInv, StartsAreAsked, [Next]_vars
    PROVE  [Ledger!Next]_(Ledger!vars)
<1>1. LedgerStep
  BY HoldRefines, CheckoutRefines, HandlerRefines, OthersRefine DEF Next
<1> QED
  BY <1>1 DEF LedgerStep

(* The booking service implements the ledger: whatever requests, handlers,  *)
(* sweep and clock do, what the rows show is a ledger's behaviour.          *)
THEOREM Refinement == Spec => ImplementsLedger
<1>1. Init => StartsAreAsked
  BY DEF Init, StartsAreAsked, NewHold
<1>2. TypeOK /\ StartsAreAsked /\ [Next]_vars => StartsAreAsked'
  BY NextKeepsStarts
<1>3. IInv => TypeOK
  BY DEF IInv
<1>4. Spec => []StartsAreAsked
  BY <1>1, <1>2, <1>3, Invariance, PTL DEF Spec
<1>5. IInv /\ StartsAreAsked /\ [Next]_vars => [Ledger!Next]_(Ledger!vars)
  BY NextRefines
<1> QED
  BY <1>4, <1>5, InitRefines, Invariance, PTL DEF Spec, ImplementsLedger, Ledger!Spec
=============================================================================
