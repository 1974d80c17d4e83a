--------------------------- MODULE AvailabilityProofs ---------------------------
(***************************************************************************)
(* Theorems about slot arithmetic, and about the query that offers slots.   *)
(*                                                                          *)
(* What the loops of the query compute is a matter of induction over the    *)
(* ranges and rows they run through, and is left to the model checker.      *)
(***************************************************************************)
EXTENDS Availability, TLAPS

WallClock == [h : 0 .. 23, m : 0 .. 59]

(* minutesToTime and timeToMinutes are inverse to each other: comparing     *)
(* "HH:mm" strings, as the unique index and the search for the requested    *)
(* slot do, is comparing minutes.                                           *)
THEOREM RoundTrip ==
    /\ \A n \in Nat : TimeToMinutes(MinutesToTime(n)) = n
    /\ \A t \in WallClock : MinutesToTime(TimeToMinutes(t)) = t
<1>1. ASSUME NEW n \in Nat
      PROVE  TimeToMinutes(MinutesToTime(n)) = n
  BY DEF TimeToMinutes, MinutesToTime
<1>2. ASSUME NEW t \in WallClock
      PROVE  MinutesToTime(TimeToMinutes(t)) = t
  <2>1. t.h \in 0 .. 23 /\ t.m \in 0 .. 59 /\ t = [h |-> t.h, m |-> t.m]
    BY DEF WallClock
  <2>2. (t.h * 60 + t.m) \div 60 = t.h /\ (t.h * 60 + t.m) % 60 = t.m
    BY <2>1
  <2> QED
    BY <2>1, <2>2 DEF TimeToMinutes, MinutesToTime
<1> QED
  BY <1>1, <1>2

-----------------------------------------------------------------------------
(* The query.                                                               *)

\* TypeOK, and where the query is: it asks for the bookings only once a rule is
\* in force, and judges them at a time the clock has shown before.
QueryInv ==
    /\ TypeOK
    /\ query = [pc |-> query.pc, service |-> query.service, ranges |-> query.ranges,
                now |-> query.now, answer |-> query.answer]
    /\ query.pc = "bookings" =>
          query.ranges \in RuleRanges /\ query.now \in Times /\ query.now <= now

LEMMA InitQueryInv == Init => QueryInv
<1> SUFFICES ASSUME Init PROVE QueryInv
  OBVIOUS
<1>1. now \in Times /\ query = NewQuery
  BY DEF Init
<1>2. /\ query.pc = "new" /\ query.service = service /\ query.ranges = <<>>
      /\ query.now = 0 /\ query.answer = <<>>
  BY <1>1 DEF NewQuery
<1>3. DOMAIN query.answer = {}
  BY <1>2
<1> QED
  BY <1>1, <1>2, <1>3 DEF Init, QueryInv, TypeOK, NewQuery

(* An edit, a booking or a tick leaves the query alone.                     *)
LEMMA OutsideKeepsQuery ==
    ASSUME QueryInv, query' = query, now \in Times => now' \in Times /\ now <= now',
           service' \in ServiceConfigs, rule' \in Rule, override' \in Overrides,
           rows' \subseteq Row
    PROVE  QueryInv'
<1>1. Times \subseteq Nat
  BY AvailabilityAssumption
<1> QED
  BY <1>1 DEF QueryInv, TypeOK

\* One read, and the record that remembers it.
LEMMA ReadKeepsQuery ==
    ASSUME QueryInv, Unread,
           query' = [pc |-> query'.pc, service |-> query'.service,
                     ranges |-> query'.ranges, now |-> query'.now,
                     answer |-> query'.answer],
           query'.service \in ServiceConfigs,
           query'.ranges \in RuleRanges \cup {<<>>}, query'.now \in Times \cup {0},
           \A i \in DOMAIN query'.answer :
              query'.answer[i].status \in {"AVAILABLE", "HELD", "BOOKED"},
           query'.pc = "bookings" =>
              query'.ranges \in RuleRanges /\ query'.now \in Times /\ query'.now <= now
    PROVE  QueryInv'
BY DEF QueryInv, TypeOK, Unread

LEMMA AnswerKeepsQuery ==
    ASSUME QueryInv, Unread, NEW answer, Answer(answer),
           \A i \in DOMAIN answer : answer[i].status \in {"AVAILABLE", "HELD", "BOOKED"}
    PROVE  QueryInv'
<1>1. query' = [pc |-> "answered", service |-> query.service, ranges |-> query.ranges,
                now |-> query.now, answer |-> answer]
  BY DEF Answer, QueryInv
<1> QED
  BY <1>1, ReadKeepsQuery DEF QueryInv, TypeOK

LEMMA NextKeepsQuery == QueryInv /\ [Next]_vars => QueryInv'
<1> SUFFICES ASSUME QueryInv, [Next]_vars
             PROVE  QueryInv'
  OBVIOUS
<1>1. Times \subseteq Nat
  BY AvailabilityAssumption
<1>2. /\ service \in ServiceConfigs /\ rule \in Rule /\ override \in Overrides
      /\ rows \subseteq Row /\ now \in Times
  BY DEF QueryInv, TypeOK
<1>3. now \in Nat
  BY <1>1, <1>2
<1>4. ASSUME NEW config \in ServiceConfigs, UpdateService(config)
      PROVE  QueryInv'
  BY <1>2, <1>3, <1>4, OutsideKeepsQuery DEF UpdateService, Edit
<1>5. ASSUME NEW new \in Rule, UpsertRules(new)
      PROVE  QueryInv'
  BY <1>2, <1>3, <1>5, OutsideKeepsQuery DEF UpsertRules, Edit
<1>6. ASSUME NEW isAvailable \in BOOLEAN, CreateOverride(isAvailable)
      PROVE  QueryInv'
  BY <1>2, <1>3, <1>6, OutsideKeepsQuery DEF CreateOverride, Edit, Overrides
<1>7. CASE RemoveOverride
  BY <1>2, <1>3, <1>7, OutsideKeepsQuery DEF RemoveOverride, Edit, Overrides
<1>8. ASSUME NEW i \in Intervals, Book(i)
      PROVE  QueryInv'
  <2>1. [start |-> i[1], end |-> i[2], status |-> "HELD",
         heldUntil |-> now + HoldMinutes] \in Row
    BY <1>2, AvailabilityAssumption DEF Row
  <2> QED
    BY <1>2, <1>3, <1>8, <2>1, OutsideKeepsQuery DEF Book
<1>9. ASSUME NEW b \in rows, NEW status \in {"CONFIRMED", "CANCELLED", "EXPIRED"},
             Close(b, status)
      PROVE  QueryInv'
  <2>1. [b EXCEPT !.status = status] \in Row
    BY <1>2 DEF Row
  <2>2. rows' \subseteq Row
    BY <1>2, <1>9, <2>1 DEF Close
  <2> QED
    BY <1>2, <1>3, <1>9, <2>2, OutsideKeepsQuery DEF Close
<1>10. CASE Tick
  <2>1. now' \in Times /\ now <= now'
    BY <1>1, <1>2, <1>10 DEF Tick
  <2> QED
    BY <1>2, <1>10, <2>1, OutsideKeepsQuery DEF Tick
<1>11. CASE ReadService
  BY <1>2, <1>11, ReadKeepsQuery DEF ReadService, QueryInv, TypeOK
<1>12. CASE ReadOverride
  <2>1. CASE override = "unavailable"
    BY <1>12, <2>1, AnswerKeepsQuery DEF ReadOverride
  <2>2. CASE override # "unavailable"
    BY <1>2, <1>12, <2>2, ReadKeepsQuery DEF ReadOverride, QueryInv, TypeOK
  <2> QED
    BY <2>1, <2>2
<1>13. CASE ReadRule
  <2> DEFINE closed == ~rule.isEnabled \/ rule.ranges = <<>>
  <2>1. CASE closed
    BY <1>13, <2>1, AnswerKeepsQuery DEF ReadRule
  <2>2. CASE ~closed
    <3>1. query' = [pc |-> "bookings", service |-> query.service,
                    ranges |-> rule.ranges, now |-> now, answer |-> query.answer]
      BY <1>13, <2>2 DEF ReadRule, QueryInv
    <3>2. rule.ranges \in RuleRanges
      BY <1>2 DEF Rule
    <3> QED
      BY <1>2, <1>3, <1>13, <3>1, <3>2, ReadKeepsQuery DEF ReadRule, QueryInv, TypeOK
  <2> QED
    BY <2>1, <2>2
<1>14. CASE ReadBookings
  <2>1. PICK read \in SetToSeqs(DateBookings) : Answer(Slots(read))
    BY <1>14 DEF ReadBookings
  <2>2. \A s : StatusOf(s, read) \in {"AVAILABLE", "HELD", "BOOKED"}
    BY DEF StatusOf
  <2>3. \A i \in DOMAIN Slots(read) :
            Slots(read)[i].status \in {"AVAILABLE", "HELD", "BOOKED"}
    BY <2>2 DEF Slots
  <2> QED
    BY <1>14, <2>1, <2>3, AnswerKeepsQuery DEF ReadBookings
<1>15. CASE UNCHANGED vars
  BY <1>15 DEF vars, QueryInv, TypeOK
<1> QED
  BY <1>4, <1>5, <1>6, <1>7, <1>8, <1>9, <1>10, <1>11, <1>12, <1>13, <1>14, <1>15
  DEF Next

(* Whatever the professional edits while a query runs, and whatever becomes *)
(* of the bookings, the tables and the answer stay well-formed.             *)
THEOREM AvailabilityTypeCorrect == Spec => []TypeOK
<1>1. QueryInv => TypeOK
  BY DEF QueryInv
<1> QED
  BY <1>1, InitQueryInv, NextKeepsQuery, PTL DEF Spec
=============================================================================
