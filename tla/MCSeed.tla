------------------------------- MODULE MCSeed -------------------------------
(***************************************************************************)
(* A small instance of Directory and Seed for TLC.                          *)
(***************************************************************************)
EXTENDS Seed, TLC

CONSTANTS john, amaka

\* John has the two services of the sample bookings, Amaka one; each may take
\* the other's username before the seed comes.
DemoProfessionals ==
    <<[user |-> john, username |-> "john-consulting",
       services |-> <<"Discovery", "Discovery Deep Dive">>],
      [user |-> amaka, username |-> "dr-amaka", services |-> <<"Discovery">>]>>

SampleBookings ==
    <<[reference |-> "BLK-98214", word |-> "Deep Dive"],
      [reference |-> "BLK-48190", word |-> "Discovery"]>>

\* The second service would do for both bookings.
Includes ==
    {<<"Discovery", "Discovery">>, <<"Discovery Deep Dive", "Discovery">>,
     <<"Discovery Deep Dive", "Deep Dive">>}

\* Two days stand for seven: each is upserted the same way.
Weekdays == <<"MONDAY", "SUNDAY">>

Symmetry == Permutations(Requests)
=============================================================================
