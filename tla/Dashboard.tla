------------------------------ MODULE Dashboard ------------------------------
(***************************************************************************)
(* What people see of the bookings of BookingLedger: the mails of Notices    *)
(* and the pages of Listing.  Bookings are confirmed and cancelled here by   *)
(* the requests of Notices only; everything else that happens to them is a   *)
(* step of the ledger.                                                      *)
(***************************************************************************)
EXTENDS Notices, Listing

dashboardVars == <<vars, noticeVars, listingVars>>

DashboardInit == Init /\ NoticesInit /\ ListingInit

\* createHold: the ledger's and the new row.
MakeBooking(b, s) == Take(b, s) /\ CreateRow(b) /\ UNCHANGED noticeVars

DashboardNext ==
    \/ \E b \in Bookings, s \in Slots : MakeBooking(b, s)
    \/ \E b \in Bookings :
          \/ Pay(b) /\ UNCHANGED <<noticeVars, listingVars>>
          \/ UnsettleRow(b) /\ UNCHANGED noticeVars
    \/ \E some \in SUBSET Bookings :
          \/ Lapse(some) /\ UNCHANGED <<noticeVars, listingVars>>
          \/ Expire(some) /\ RestateRows /\ UNCHANGED noticeVars
    \/ \E d \in Deliveries : ConfirmHeld(d) /\ SettleRow(handler[d].booking)
    \/ \E c \in Cancellations : CancelRow(c) /\ RestateRows
    \/ Correspond /\ UNCHANGED listingVars
    \/ Browse /\ UNCHANGED noticeVars

DashboardSpec == DashboardInit /\ [][DashboardNext]_dashboardVars

(* Every variable holds what the schema and the services may put there.     *)
DashboardTypeOK == TypeOK /\ NoticesTypeOK /\ ListingTypeOK
=============================================================================
