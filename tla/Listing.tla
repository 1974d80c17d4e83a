------------------------------- MODULE Listing -------------------------------
(***************************************************************************)
(* The lists of the dashboard: bookings newest first, all of them or those  *)
(* of one status, and payments by the time they were paid, page by page,    *)
(* while bookings are made, confirmed, cancelled and swept.                 *)
(*                                                                          *)
(* Each page is a query of its own at its own offset.  The rows are the      *)
(* bookings of BookingLedger, whose variables this module shares.           *)
(***************************************************************************)
EXTENDS BookingLedger, FiniteSets, Naturals

CONSTANTS
    Filters,    \* the statuses clients ask for
    PageSize    \* the pageSize of a walk through the pages

ASSUME ListingAssumption ==
    /\ IsFiniteSet(Bookings)
    /\ Filters \subseteq Statuses \ {"NONE"}
    /\ PageSize \in Nat \ {0}

VARIABLES
    settled,       \* the bookings with a payment in SUCCESS
    createdAfter,  \* <<b, c>>: the createdAt of b is after that of c
    paidAfter,     \* <<b, c>>: the paidAt of b is after that of c
    walk           \* a client that asks for one page after the other

listingVars == <<settled, createdAfter, paidAfter, walk>>

\* bookings.list without and with a status, and payments.list.
Lists == {"ALL", "PAID"} \cup Filters

\* unseen: the rows of the list that the walk has not come across, of those
\* that were there when it began.
Walk(pc, list, page, unseen) ==
    [pc |-> pc, list |-> list, page |-> page, unseen |-> unseen]

ListingTypeOK ==
    /\ settled \subseteq Bookings
    /\ createdAfter \subseteq Bookings \X Bookings
    /\ paidAfter \subseteq Bookings \X Bookings
    /\ walk \in [pc : {"new", "walking", "ended", "shaken"}, list : Lists,
                 page : Nat \ {0}, unseen : SUBSET Bookings]

ListingInit ==
    /\ settled = {}
    /\ createdAfter = {}
    /\ paidAfter = {}
    /\ walk = Walk("new", "ALL", 1, {})

-----------------------------------------------------------------------------
(* The tables.                                                              *)

\* The rows of a list in a database with these contents.
RowsOf(list, stat, success) ==
    CASE list = "ALL" -> {b \in Bookings : stat[b] # "NONE"}
      [] list = "PAID" -> success
      [] OTHER -> {b \in Bookings : stat[b] = list}

Rows(list) == RowsOf(list, status, settled)

\* To be joined to every step that changes the tables.  A walk whose list
\* loses a row, or has one moved, is given up: nothing is promised to it.
Watch(moved) ==
    LET now == RowsOf(walk.list, status', settled')
    IN  walk' = IF walk.pc = "walking" /\ (moved \/ ~(Rows(walk.list) \subseteq now))
                THEN Walk("shaken", walk.list, 1, {})
                ELSE walk

CreateRow(b) ==
    /\ createdAfter' = createdAfter \cup ({b} \X Rows("ALL"))
    /\ UNCHANGED <<settled, paidAfter>>
    /\ Watch(FALSE)

PaidAfterWithout(b) == {p \in paidAfter : p[1] # b /\ p[2] # b}

\* paidAt is taken before the transaction commits: payments that came in since
\* may have later times.
Later(rows) ==
    {later \in SUBSET rows :
        \A c \in later, d \in rows : <<d, c>> \in paidAfter => d \in later}

\* A booking confirmed once more is paid at a new time: its row moves.  (One
\* row stands for the payments of one booking; a second checkout that is
\* recorded as well has a row of its own, which only moves others back.)
SettleRow(b) ==
    /\ settled' = settled \cup {b}
    /\ \E later \in Later(settled \ {b}) :
          paidAfter' = PaidAfterWithout(b) \cup (later \X {b})
                          \cup ({b} \X ((settled \ {b}) \ later))
    /\ UNCHANGED createdAfter
    /\ Watch(walk.list = "PAID" /\ b \in settled)

\* A later event overwrites the payment's SUCCESS (handleWebhook).
UnsettleRow(b) ==
    /\ b \in settled
    /\ settled' = settled \ {b}
    /\ paidAfter' = PaidAfterWithout(b)
    /\ UNCHANGED <<vars, createdAfter>>
    /\ Watch(FALSE)

\* A change of a booking's row leaves it where it is: createdAt is written once.
RestateRows ==
    /\ UNCHANGED <<settled, createdAfter, paidAfter>>
    /\ Watch(FALSE)

-----------------------------------------------------------------------------
(* The client.                                                              *)

StartWalk(list) ==
    /\ walk.pc = "new"
    /\ walk' = Walk("walking", list, 1, Rows(list))
    /\ UNCHANGED <<vars, settled, createdAfter, paidAfter>>

\* Mutant: skip = page * pageSize.
SkipAhead(page) == page * PageSize

Skip(page) == (page - 1) * PageSize

\* orderBy createdAt or paidAt, desc.
Order(list) == IF list = "PAID" THEN paidAfter ELSE createdAfter

\* The rows that come before b.
Before(list, b) == {c \in Rows(list) : <<c, b>> \in Order(list)}

\* findMany with skip and take.
Page(list, skip) ==
    {b \in Rows(list) :
        /\ skip <= Cardinality(Before(list, b))
        /\ Cardinality(Before(list, b)) < skip + PageSize}

\* The total is counted by a second query at another moment; a client that
\* wants everything asks until a page is not full.
ReadPage ==
    /\ walk.pc = "walking"
    /\ LET unseen == walk.unseen \ Page(walk.list, Skip(walk.page))
       IN  walk' = IF Cardinality(Rows(walk.list)) < Skip(walk.page) + PageSize
                   THEN Walk("ended", walk.list, 1, unseen)
                   ELSE Walk("walking", walk.list, walk.page + 1, unseen)
    /\ UNCHANGED <<vars, settled, createdAfter, paidAfter>>

Browse == ReadPage \/ \E list \in Lists : StartWalk(list)

-----------------------------------------------------------------------------
(* A walk to the last page has seen every row that was in its list when it  *)
(* began, though new rows push the others back from page to page -- unless  *)
(* a row left the list, or was paid anew, between two pages: then the rows  *)
(* behind it move up and one of them is skipped.  That happens to filtered  *)
(* lists and to payments only: whatever becomes of a booking, its row stays *)
(* in the unfiltered list, at its place.                                    *)
NothingIsMissed ==
    /\ walk.pc = "ended" => walk.unseen = {}
    /\ walk.pc = "shaken" => walk.list # "ALL"
=============================================================================
