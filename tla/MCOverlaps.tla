----------------------------- MODULE MCOverlaps -----------------------------
(***************************************************************************)
(* Small instances of Overlaps for TLC.                                     *)
(***************************************************************************)
EXTENDS Overlaps, MCBookings

PerUnit(duration, buffer, price) ==
    [Fixed(duration, buffer, price) EXCEPT !.pricing = "VARIABLE", !.maxVariable = 2]

\* A service sold by the unit: the professional shortens the hour to half an
\* hour, gives it a buffer and doubles its price, removes it, or takes all that
\* back.
Edited ==
    {PerUnit(60, 0, 1), PerUnit(30, 30, 2),
     [PerUnit(60, 0, 1) EXCEPT !.isActive = FALSE]}
=============================================================================
