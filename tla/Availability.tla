----------------------------- MODULE Availability -----------------------------
(***************************************************************************)
(* AvailabilityService: what a customer is offered on one date, while the   *)
(* professional edits the service, the weekday's rule and the override of   *)
(* the date, bookings come and go, and the clock runs.                      *)
(*                                                                          *)
(* computeAvailableSlots reads four tables one after the other, each at its *)
(* own moment, then loops over what it has read.  SlotMath says, without    *)
(* loops, which starts it should offer.  Bookings appear here only as rows: *)
(* how they come to be is the subject of Bookings.                          *)
(***************************************************************************)
EXTENDS SlotMath, SequencesExt, FiniteSets

CONSTANTS
    ServiceConfigs,   \* the contents the service row may have
    RuleRanges,       \* sequences of time ranges the professional may set
    Intervals,        \* <<start, end>> of the bookings of the date
    HoldMinutes,      \* HOLD_DURATION_MS, in minutes
    Times,            \* minutes of the day at which something happens
    MaxRows,          \* bound: bookings of the date
    MaxEdits          \* bound: edits of the professional

ASSUME AvailabilityAssumption ==
    /\ ServiceConfigs \subseteq [isActive : BOOLEAN, duration : Nat \ {0}, buffer : Nat]
    /\ RuleRanges \subseteq Seq([start : Nat, end : Nat])
    /\ Intervals \subseteq Nat \X Nat
    /\ HoldMinutes \in Nat \ {0}
    /\ Times \subseteq Nat
    /\ MaxRows \in Nat
    /\ MaxEdits \in Nat

VARIABLES
    service,    \* the service's row
    rule,       \* the weekday's availability_rules row
    override,   \* the date's availability_overrides row, or "none"
    rows,       \* the date's bookings
    isToday,    \* whether the date is the current day
    now,        \* minutes from midnight
    query,      \* one call of computeAvailableSlots
    edits       \* edits so far

vars == <<service, rule, override, rows, isToday, now, query, edits>>

Rule == [isEnabled : BOOLEAN, ranges : RuleRanges]

\* timeRanges of an override are stored and never read.
Overrides == {"none", "available", "unavailable"}

Row ==
    {b \in [start : Nat, end : Nat,
            status : {"HELD", "CONFIRMED", "CANCELLED", "EXPIRED"},
            heldUntil : {t + HoldMinutes : t \in Times}] :
        <<b.start, b.end>> \in Intervals}

NewQuery ==
    [pc |-> "new", service |-> service, ranges |-> <<>>, now |-> 0, answer |-> <<>>]

Init ==
    /\ service \in ServiceConfigs
    /\ rule \in Rule
    /\ override \in Overrides
    /\ rows = {}
    /\ isToday \in BOOLEAN
    /\ now \in {t \in Times : \A u \in Times : t <= u}
    /\ query = NewQuery
    /\ edits = 0

-----------------------------------------------------------------------------
(* The professional.                                                        *)

Edit ==
    /\ edits < MaxEdits
    /\ edits' = edits + 1
    /\ UNCHANGED <<rows, isToday, now, query>>

UpdateService(config) ==
    /\ service' = config
    /\ Edit
    /\ UNCHANGED <<rule, override>>

\* upsertRules: the rules of all seven days in one transaction.
UpsertRules(new) ==
    /\ rule' = new
    /\ Edit
    /\ UNCHANGED <<service, override>>

\* createOverride puts an override in place of the date's old one.
CreateOverride(isAvailable) ==
    /\ override' = IF isAvailable THEN "available" ELSE "unavailable"
    /\ Edit
    /\ UNCHANGED <<service, rule>>

RemoveOverride ==
    /\ override # "none"
    /\ override' = "none"
    /\ Edit
    /\ UNCHANGED <<service, rule>>

-----------------------------------------------------------------------------
(* Bookings and the clock.                                                  *)

\* Mutant: seconds where minutes were meant.
BookForSeconds(i) ==
    /\ Cardinality(rows) < MaxRows
    /\ \A b \in rows : b.status \in {"HELD", "CONFIRMED"} => b.start # i[1]
    /\ rows' = rows \cup {[start |-> i[1], end |-> i[2], status |-> "HELD",
                           heldUntil |-> now + HoldMinutes * 60]}
    /\ UNCHANGED <<service, rule, override, isToday, now, query, edits>>

\* A hold is made on a start that no other booking occupies.
Book(i) ==
    /\ Cardinality(rows) < MaxRows
    /\ \A b \in rows : b.status \in {"HELD", "CONFIRMED"} => b.start # i[1]
    /\ rows' = rows \cup {[start |-> i[1], end |-> i[2], status |-> "HELD",
                           heldUntil |-> now + HoldMinutes]}
    /\ UNCHANGED <<service, rule, override, isToday, now, query, edits>>

\* Cancelled, expired once its time is over, or paid: a payment confirms a row
\* whatever has become of it, unless another one has its start.
Close(b, status) ==
    /\ status = "EXPIRED" => b.status = "HELD" /\ b.heldUntil <= now
    /\ status = "CONFIRMED" =>
          \A c \in rows \ {b} :
              c.status \in {"HELD", "CONFIRMED"} => c.start # b.start
    /\ rows' = (rows \ {b}) \cup {[b EXCEPT !.status = status]}
    /\ UNCHANGED <<service, rule, override, isToday, now, query, edits>>

Tick ==
    /\ \E t \in Times : t > now /\ now' = t /\ \A u \in Times : u > now => t <= u
    /\ UNCHANGED <<service, rule, override, rows, isToday, query, edits>>

-----------------------------------------------------------------------------
(* computeAvailableSlots.                                                   *)

Answer(answer) ==
    query' = [query EXCEPT !.pc = "answered", !.answer = answer]

Unread == UNCHANGED <<service, rule, override, rows, isToday, now, edits>>

\* An inactive service is answered 404.
ReadService ==
    /\ query.pc = "new"
    /\ query' = [query EXCEPT !.service = service,
                              !.pc = IF service.isActive THEN "override" ELSE "notFound"]
    /\ Unread

ReadOverride ==
    /\ query.pc = "override"
    /\ IF override = "unavailable" THEN Answer(<<>>)
                                   ELSE query' = [query EXCEPT !.pc = "rule"]
    /\ Unread

\* The clock is looked at before the bookings are asked for.
ReadRule ==
    /\ query.pc = "rule"
    /\ IF ~rule.isEnabled \/ rule.ranges = <<>>
       THEN Answer(<<>>)
       ELSE query' = [query EXCEPT !.pc = "bookings", !.ranges = rule.ranges, !.now = now]
    /\ Unread

\* Mutant: a slot may run over the end of its range by one step.
StepsTooFar(range, duration) ==
    LET last == (range.end - range.start) \div SLOT_INTERVAL_MINUTES
    IN  [i \in 1 .. last + 1 |-> range.start + (i - 1) * SLOT_INTERVAL_MINUTES]

\* The starts of the inner for-loop, in order.
Steps(range, duration) ==
    LET last == (range.end - duration - range.start) \div SLOT_INTERVAL_MINUTES
    IN  [i \in 1 .. last + 1 |-> range.start + (i - 1) * SLOT_INTERVAL_MINUTES]

\* Mutant: the first booking that collides decides, lapsed or not.
StatusOfFirst(s, read) ==
    LET first == SelectInSeq(read, LAMBDA b :
            Collides(s, s + query.service.duration, b, query.service.buffer))
    IN  IF first = 0 \/ ~Blocking(read[first]) THEN "AVAILABLE"
        ELSE IF read[first].status = "HELD" THEN "HELD" ELSE "BOOKED"

\* The loop over the bookings, in the order the database returned them, stops
\* at the first one that collides and is not a lapsed hold.
StatusOf(s, read) ==
    LET first == SelectInSeq(read, LAMBDA b :
            /\ Blocking(b)
            /\ Collides(s, s + query.service.duration, b, query.service.buffer))
    IN  IF first = 0 THEN "AVAILABLE"
        ELSE IF read[first].status = "HELD" THEN "HELD" ELSE "BOOKED"

\* The outer loop over the ranges.
Slots(read) ==
    LET starts == FlattenSeq([i \in DOMAIN query.ranges |->
                      Steps(query.ranges[i], query.service.duration)])
        kept == SelectSeq(starts, LAMBDA s : ~TooSoon(isToday, query.now, s))
    IN  [i \in DOMAIN kept |-> [start |-> kept[i], status |-> StatusOf(kept[i], read)]]

\* A row as the code sees it: with what was left of its time at query.now.
Seen(b) ==
    [start |-> b.start, end |-> b.end, status |-> b.status,
     heldFor |-> b.heldUntil - query.now]

DateBookings == {Seen(b) : b \in {r \in rows : r.status \notin {"CANCELLED", "EXPIRED"}}}

ReadBookings ==
    /\ query.pc = "bookings"
    /\ \E read \in SetToSeqs(DateBookings) : Answer(Slots(read))
    /\ Unread

Next ==
    \/ \E config \in ServiceConfigs : UpdateService(config)
    \/ \E new \in Rule : UpsertRules(new)
    \/ \E isAvailable \in BOOLEAN : CreateOverride(isAvailable)
    \/ RemoveOverride
    \/ \E i \in Intervals : Book(i)
    \/ \E b \in rows, status \in {"CONFIRMED", "CANCELLED", "EXPIRED"} : Close(b, status)
    \/ Tick
    \/ ReadService \/ ReadOverride \/ ReadRule \/ ReadBookings

Spec == Init /\ [][Next]_vars

-----------------------------------------------------------------------------
Offered(answer) ==
    {answer[i].start : i \in {j \in DOMAIN answer : answer[j].status = "AVAILABLE"}}

Answers == query.pc = "bookings" /\ query'.pc = "answered"

(* Every variable holds what the schema and the code may put there.         *)
TypeOK ==
    /\ service \in ServiceConfigs
    /\ rule \in Rule
    /\ override \in Overrides
    /\ rows \subseteq Row
    /\ now \in Times
    /\ query.service \in ServiceConfigs
    /\ query.ranges \in RuleRanges \cup {<<>>}
    /\ query.now \in Times \cup {0}
    /\ \A i \in DOMAIN query.answer :
          query.answer[i].status \in {"AVAILABLE", "HELD", "BOOKED"}

(* The two loops with their break, whatever order the bookings come in,     *)
(* offer exactly the starts SlotMath defines for what has been read.        *)
LoopsAreExact ==
    [][Answers =>
          Offered(query'.answer) =
              AvailableStarts(query.service, ToSet(query.ranges), isToday,
                              query.now, DateBookings)]_vars

(* What is offered is free of live holds and confirmed bookings as they are *)
(* when the bookings are read, though service, override, rule and clock     *)
(* have been read before and may have changed: bookings are read last.      *)
OfferIsFree ==
    [][Answers =>
          \A s \in Offered(query'.answer) : \A b \in rows :
              (b.status = "CONFIRMED" \/ (b.status = "HELD" /\ b.heldUntil > now))
                  => s + query.service.duration <= b.start \/ b.end <= s]_vars
=============================================================================
