------------------------------- MODULE Overlaps -------------------------------
(***************************************************************************)
(* How two bookings may come to overlap in time.                            *)
(*                                                                          *)
(* The unique index of the database compares start times; that intervals do *)
(* not overlap is left to the slot check of attemptHold, which runs before  *)
(* the insert and reads the service again.  Beside the state of Bookings    *)
(* this module records what the check of each request could not see, and    *)
(* then says that nothing else leads to an overlap.  The recording reads    *)
(* the steps of Bookings and changes none of them.                          *)
(***************************************************************************)
EXTENDS Bookings

VARIABLES
    beside,     \* beside[h]: requests that had passed the check and had not
                \* inserted yet when h passed it
    stretched,  \* requests that hold a longer time than the slot they checked
    revived     \* bookings confirmed when they did not bind the professional

overlapVars == <<vars, beside, stretched, revived>>

\* The check lets the request go on to the insert.
Checks(h) == hold[h].pc = "checking" /\ hold'[h].pc = "inserting"

\* The end was computed by createHold, the slot from the service as it is now.
EndsAfterSlot(h) ==
    hold[h].end > hold[h].start + service[hold[h].service].duration

RecordOverlaps ==
    /\ beside' = [h \in Holds |->
           IF Checks(h)
           THEN {g \in Holds \ {h} : hold[g].pc = "inserting"}
           ELSE beside[h] \ {g \in Holds : Checks(g)}]
    /\ stretched' = {h \in Holds :
           IF Checks(h) THEN EndsAfterSlot(h) ELSE h \in stretched}
    /\ revived' = revived \cup
           {b \in Holds : booking'[b].status = "CONFIRMED" /\ ~Binding(b)}

OverlapInit ==
    /\ Init
    /\ beside = [h \in Holds |-> {}]
    /\ stretched = {}
    /\ revived = {}

OverlapNext == Next /\ RecordOverlaps

OverlapSpec == OverlapInit /\ [][OverlapNext]_overlapVars

-----------------------------------------------------------------------------
(* Each of two requests had passed the check before the other's insert.     *)
Raced(b, c) == c \in beside[b] \/ b \in beside[c]

(* Two bookings that bind the professional overlap only if their requests   *)
(* raced between check and insert, if one of them holds a longer time than  *)
(* the slot that was checked, or if one was confirmed after its hold had    *)
(* ended: attemptHold and computeAvailableSlots exclude every other overlap *)
(* of any durations, buffers and edits of the service.                      *)
OverlapsAreRaces ==
    \A b, c \in Holds :
        /\ b # c
        /\ Binding(b) /\ Binding(c)
        /\ Overlap(b, c)
        => \/ Raced(b, c)
           \/ {b, c} \cap stretched # {}
           \/ {b, c} \cap revived # {}

(* A booking starts on the grid of one of the day's ranges and ends before  *)
(* that range does, unless the service was shortened between the reading    *)
(* that fixed the end and the one that found the slot.                      *)
FitsTheDay ==
    \A b \in Holds : Made(b) =>
        \E range \in DayRanges :
            /\ range.start <= booking[b].start
            /\ booking[b].start < range.end
            /\ (booking[b].start - range.start) % SLOT_INTERVAL_MINUTES = 0
            /\ b \notin stretched => booking[b].end <= range.end
=============================================================================
