--------------------------- MODULE MCAvailability ---------------------------
(***************************************************************************)
(* A small instance of Availability for TLC.                                *)
(***************************************************************************)
EXTENDS Availability

Row3(isActive, duration, buffer) ==
    [isActive |-> isActive, duration |-> duration, buffer |-> buffer]

\* An hour, half an hour with a buffer, and an inactive service.
Services == {Row3(TRUE, 60, 0), Row3(TRUE, 30, 10), Row3(FALSE, 30, 0)}

Range2(start, end) == [start |-> start, end |-> end]

\* No range, one that fits no slot, two that touch, two that overlap.
Ranges ==
    {<<>>, <<Range2(540, 565)>>, <<Range2(540, 600), Range2(600, 640)>>,
     <<Range2(540, 630), Range2(570, 630)>>}

NineToTen == {<<540, 570>>, <<570, 600>>}
=============================================================================
