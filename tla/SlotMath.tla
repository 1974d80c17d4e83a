------------------------------ MODULE SlotMath ------------------------------
(***************************************************************************)
(* The pure arithmetic behind slot computation: availability/slot-math.ts   *)
(* and the loop of AvailabilityService.computeAvailableSlots.               *)
(*                                                                          *)
(* Times of day are "HH:mm" strings in the code and are turned into minutes *)
(* from midnight before anything is compared.  A wall-clock time is the     *)
(* record [h, m] here; everything below the two conversions works on        *)
(* minutes.  Theorem RoundTrip of AvailabilityProofs says that nothing is   *)
(* lost between the two.                                                    *)
(***************************************************************************)
EXTENDS Integers

SLOT_INTERVAL_MINUTES == 30

\* A slot of today must start more than this many minutes from now.
LEAD_MINUTES == 15

TimeToMinutes(t) == t.h * 60 + t.m

MinutesToTime(n) == [h |-> n \div 60, m |-> n % 60]

-----------------------------------------------------------------------------
(* Candidate slots.                                                         *)

\* Mutant: the loop runs as long as the start is in the range.
StartsBeforeEnd(range, duration) ==
    {s \in range.start .. range.end :
        /\ (s - range.start) % SLOT_INTERVAL_MINUTES = 0
        /\ s < range.end}

\* The starts the for-loop over one time range produces: from the start of the
\* range in steps of the interval, as long as the service fits in the range.
StartsInRange(range, duration) ==
    {s \in range.start .. range.end :
        /\ (s - range.start) % SLOT_INTERVAL_MINUTES = 0
        /\ s + duration <= range.end}

CandidateStarts(ranges, duration) ==
    UNION {StartsInRange(range, duration) : range \in ranges}

\* A candidate that begins too soon on the current day is skipped.
TooSoon(isToday, nowMinutes, s) == isToday /\ s <= nowMinutes + LEAD_MINUTES

-----------------------------------------------------------------------------
(* Slots against bookings.  A booking row has start and end (minutes),      *)
(* status, and heldFor: the minutes left until heldUntil.                   *)

\* Mutant: only the start of the slot is looked for in the booking.
CollidesAtStart(s, e, b, buffer) == s < b.end + buffer /\ s >= b.start

\* The slot [s, e) against a booking extended by the buffer of the service the
\* slot is computed for (not of the service that was booked).
Collides(s, e, b, buffer) == s < b.end + buffer /\ e > b.start

\* Which rows make a colliding slot unavailable: a HELD row only until
\* heldUntil (lazy expiry), a CONFIRMED or PENDING_PAYMENT row always.
Blocking(b) ==
    \/ b.status = "HELD" /\ b.heldFor > 0
    \/ b.status \in {"CONFIRMED", "PENDING_PAYMENT"}

IsAvailable(s, service, rows) ==
    \A b \in rows :
        Blocking(b) => ~Collides(s, s + service.duration, b, service.buffer)

\* The starts computeAvailableSlots reports with isAvailable = true.
AvailableStarts(service, ranges, isToday, nowMinutes, rows) ==
    {s \in CandidateStarts(ranges, service.duration) :
        /\ ~TooSoon(isToday, nowMinutes, s)
        /\ IsAvailable(s, service, rows)}
=============================================================================
