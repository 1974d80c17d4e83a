------------------------- MODULE BookingsRefinement -------------------------
(***************************************************************************)
(* Bookings implements BookingLedger: seen from outside, its requests,      *)
(* retries and webhook handlers only ever take free slots, let bookings     *)
(* lapse, expire what has lapsed, cancel, charge, and confirm what has been *)
(* paid for while its slot is not somebody else's.                          *)
(***************************************************************************)
EXTENDS Bookings

\* No start time is negative.
NoStart == -1

\* The ledger as the rows show it.
LedgerStatus == [b \in Holds |-> booking[b].status]
LedgerSlot == [b \in Holds |-> IF Made(b) THEN booking[b].start ELSE NoStart]
LedgerLapsed == {b \in Holds : Made(b) /\ booking[b].heldFor <= 0}
LedgerPaid == {b \in Holds : PaidFor(b)}

Ledger == INSTANCE BookingLedger WITH
    Bookings <- Holds,
    Slots <- Starts,
    NoSlot <- NoStart,
    status <- LedgerStatus,
    slot <- LedgerSlot,
    lapsed <- LedgerLapsed,
    paid <- LedgerPaid

(* Every step of the booking service is a step of the ledger, or none:      *)
(* whatever the interleaving of requests, handlers, sweep and clock.        *)
ImplementsLedger == Ledger!Spec
=============================================================================
