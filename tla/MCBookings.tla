----------------------------- MODULE MCBookings -----------------------------
(***************************************************************************)
(* Small instances of Bookings for TLC.                                     *)
(***************************************************************************)
EXTENDS BookingsRefinement, TLC

\* Requests and handlers are interchangeable (safety runs only).
HoldSymmetry == Permutations(Holds)
CheckoutSymmetry == Permutations(Checkouts)
Symmetry == HoldSymmetry \cup CheckoutSymmetry \cup Permutations(Deliveries)

Fixed(duration, buffer, price) ==
    [isActive |-> TRUE, duration |-> duration, buffer |-> buffer, price |-> price,
     pricing |-> "FIXED", minVariable |-> 1, maxVariable |-> 10]

\* One hour on a grid of thirty minutes: neighbouring slots overlap.
HourLong == {Fixed(60, 0, 1)}

\* One slot of the grid: slots that overlap are equal.
HalfHour == {Fixed(30, 0, 1)}

\* 09:00 to 10:30.
Morning == {[start |-> 540, end |-> 630]}

Nine == {540}
NineAndHalfPast == {540, 570}
NineToTen == {540, 570, 600}
=============================================================================
