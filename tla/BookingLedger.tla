---------------------------- MODULE BookingLedger ----------------------------
(***************************************************************************)
(* What the booking service promises, without requests, database rows or    *)
(* webhooks: a ledger of bookings, each on one slot, and of the bookings    *)
(* that have been paid for.                                                  *)
(*                                                                          *)
(* Bookings.tla implements this ledger (module BookingsRefinement).          *)
(***************************************************************************)
CONSTANTS
    Bookings,   \* the bookings that may ever be made
    Slots,      \* the (professional, date, start time) keys
    NoSlot      \* the slot of a booking that has not been made

VARIABLES
    status,     \* status[b], "NONE" before b is made
    slot,       \* slot[b], NoSlot before b is made
    lapsed,     \* the bookings whose holding time is over
    paid        \* the bookings somebody has been charged for

vars == <<status, slot, lapsed, paid>>

Statuses == {"NONE", "HELD", "CONFIRMED", "CANCELLED", "EXPIRED"}

\* A booking in one of these statuses occupies its slot.
Occupying == {"HELD", "CONFIRMED"}

FreeFor(b, s) ==
    \A c \in Bookings \ {b} : status[c] \in Occupying => slot[c] # s

(* Every booking has a status, and one of the slots or none.                *)
TypeOK ==
    /\ status \in [Bookings -> Statuses]
    /\ slot \in [Bookings -> Slots \cup {NoSlot}]
    /\ lapsed \subseteq Bookings
    /\ paid \subseteq Bookings

-----------------------------------------------------------------------------
Init ==
    /\ status = [b \in Bookings |-> "NONE"]
    /\ slot = [b \in Bookings |-> NoSlot]
    /\ lapsed = {}
    /\ paid = {}

\* A customer takes a free slot.
Take(b, s) ==
    /\ status[b] = "NONE"
    /\ FreeFor(b, s)
    /\ status' = [status EXCEPT ![b] = "HELD"]
    /\ slot' = [slot EXCEPT ![b] = s]
    /\ UNCHANGED <<lapsed, paid>>

\* Time passes; a holding time that is over stays over.
Lapse(more) ==
    /\ \A b \in more : status[b] # "NONE"
    /\ lapsed' = lapsed \cup more
    /\ UNCHANGED <<status, slot, paid>>

\* Held bookings may be dropped, but only once their holding time is over.
Expire(gone) ==
    /\ gone \subseteq {b \in lapsed : status[b] = "HELD"}
    /\ status' = [b \in Bookings |-> IF b \in gone THEN "EXPIRED" ELSE status[b]]
    /\ UNCHANGED <<slot, lapsed, paid>>

\* The professional may cancel anything, at any time.
Cancel(b) ==
    /\ status[b] # "NONE"
    /\ status' = [status EXCEPT ![b] = "CANCELLED"]
    /\ UNCHANGED <<slot, lapsed, paid>>

Pay(b) ==
    /\ status[b] # "NONE"
    /\ paid' = paid \cup {b}
    /\ UNCHANGED <<status, slot, lapsed>>

\* A paid booking may be confirmed -- also one that has expired or has been
\* cancelled meanwhile -- as long as nobody else occupies its slot.
Confirm(b) ==
    /\ status[b] # "NONE"
    /\ b \in paid
    /\ FreeFor(b, slot[b])
    /\ status' = [status EXCEPT ![b] = "CONFIRMED"]
    /\ UNCHANGED <<slot, lapsed, paid>>

Next ==
    \/ \E b \in Bookings, s \in Slots : Take(b, s)
    \/ \E some \in SUBSET Bookings : Lapse(some) \/ Expire(some)
    \/ \E b \in Bookings : Cancel(b) \/ Pay(b) \/ Confirm(b)

Spec == Init /\ [][Next]_vars

-----------------------------------------------------------------------------
(* Two bookings never occupy the same slot (the partial unique index        *)
(* bookings_active_slot_unique).                                            *)
NoSharedSlot ==
    \A b, c \in Bookings :
        (b # c /\ status[b] \in Occupying /\ status[c] \in Occupying)
            => slot[b] # slot[c]

(* Nothing is confirmed that nobody has paid for.                           *)
ConfirmedIsPaid == \A b \in Bookings : status[b] = "CONFIRMED" => b \in paid
=============================================================================
