------------------------------- MODULE Receipts -------------------------------
(***************************************************************************)
(* Which customers handleWebhook may leave without a confirmation.          *)
(*                                                                          *)
(* Beside the state of Bookings this module records for which bookings a    *)
(* mail was given up.  The recording reads the steps of Bookings and        *)
(* changes none of them.                                                    *)
(***************************************************************************)
EXTENDS Bookings

VARIABLES
    dropped     \* bookings whose confirmation some handler did not get mailed

receiptVars == <<vars, dropped>>

\* Handler d stops without having mailed: it is cut short after it confirmed
\* the booking, or Resend has refused the mail.
GivesUpMail(d) ==
    /\ delivery[d].pc \in {"calendar", "link", "mail"}
    /\ delivery'[d].pc = "idle"
    /\ mailed' = mailed
    /\ failures' # failures \/ delivery[d].pc = "mail"

RecordReceipts ==
    dropped' = dropped \cup
        {txn[delivery[d].txn].booking : d \in {x \in Deliveries : GivesUpMail(x)}}

ReceiptInit == Init /\ dropped = {}

ReceiptNext == Next /\ RecordReceipts

ReceiptSpec == ReceiptInit /\ [][ReceiptNext]_receiptVars

FairReceiptSpec == ReceiptSpec /\ Fairness

-----------------------------------------------------------------------------
(* A customer whose booking is confirmed is mailed, unless the handler that *)
(* confirmed it was cut short or its mail refused: no other way through     *)
(* pushToGoogleCalendar, redelivery or a cancellation leaves the customer   *)
(* without word.  Nothing tries again after a refusal.                      *)
ConfirmedIsMailed ==
    \A b \in Holds :
        booking[b].status = "CONFIRMED" ~> (mailed[b] > 0 \/ b \in dropped)
=============================================================================
