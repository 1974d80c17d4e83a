------------------------------- MODULE Notices -------------------------------
(***************************************************************************)
(* What the customer is told: the confirmation that handleWebhook sends     *)
(* after the calendar push, and the notice that cancel sends, by Resend,    *)
(* which may refuse a mail or not answer.  Both read the booking's row once  *)
(* more, each at its own moment, and nothing orders them.                   *)
(*                                                                          *)
(* The bookings are those of BookingLedger, whose variables this module      *)
(* shares: how a booking comes to be held or paid is the subject of         *)
(* Bookings.  A handler that finds its booking no longer held, a redelivery  *)
(* and a charge.failed send no mail and do not appear.                      *)
(***************************************************************************)
EXTENDS BookingLedger, SequencesExt, FiniteSets

CONSTANTS
    Deliveries,      \* webhook requests that may run at the same time
    Cancellations,   \* cancel requests of the professional
    None,            \* no booking
    MaxLost          \* bound: bookings with a failure of a request or of Resend

ASSUME NoticesAssumption ==
    /\ None \notin Bookings
    /\ MaxLost \in Nat

VARIABLES
    handler,      \* handler[d]: the booking d confirms and how far it has come
    cancelling,   \* cancelling[c]: the booking c cancels and how far it has come
    linked,       \* the bookings whose row has a meetingLink
    inbox,        \* inbox[b]: the mails to b's customer, in the order Resend took them
    lost,         \* bookings one of whose mails was refused or never sent
    raced         \* bookings cancelled in the middle of a handler's work on them

noticeVars == <<handler, cancelling, linked, inbox, lost, raced>>

Idle == [pc |-> "idle", booking |-> None, link |-> FALSE]

\* A confirmation with or without the meeting link, or a cancellation.
Mails == [kind : {"CONFIRMED", "CANCELLED"}, link : BOOLEAN]

NoticesTypeOK ==
    /\ handler \in [Deliveries ->
          [pc : {"idle", "confirm", "calendar", "link", "noLink", "read",
                 "customer"},
           booking : Bookings \cup {None}, link : BOOLEAN]]
    /\ cancelling \in [Cancellations ->
          [pc : {"new", "update", "mail", "done"}, booking : Bookings \cup {None}]]
    /\ linked \subseteq Bookings
    /\ inbox \in [Bookings -> Seq(Mails)]
    /\ lost \subseteq Bookings
    /\ raced \subseteq Bookings

NoticesInit ==
    /\ handler = [d \in Deliveries |-> Idle]
    /\ cancelling = [c \in Cancellations |-> [pc |-> "new", booking |-> None]]
    /\ linked = {}
    /\ inbox = [b \in Bookings |-> <<>>]
    /\ lost = {}
    /\ raced = {}

-----------------------------------------------------------------------------
(* handleWebhook, from the payment that cleared to the last mail.           *)

HandlerGoesTo(d, pc) == handler' = [handler EXCEPT ![d].pc = pc]

\* Once a mail is lost the customer is owed nothing, and the inbox is let go.
Lose(b) ==
    /\ lost' = lost \cup {b}
    /\ Cardinality(lost') <= MaxLost
    /\ inbox' = [inbox EXCEPT ![b] = <<>>]

Deliver(b, kind, link) ==
    /\ inbox' = [inbox EXCEPT ![b] = IF b \in lost THEN <<>>
                                     ELSE Append(@, [kind |-> kind, link |-> link])]
    /\ UNCHANGED lost

\* stillHeld, judged on the row read together with the payment.
ReadHeld(d, b) ==
    /\ handler[d].pc = "idle"
    /\ b \in paid
    /\ status[b] = "HELD" /\ b \notin lapsed
    /\ handler' = [handler EXCEPT ![d] = [@ EXCEPT !.pc = "confirm", !.booking = b]]
    /\ UNCHANGED <<vars, cancelling, linked, inbox, lost, raced>>

ConfirmHeld(d) ==
    /\ handler[d].pc = "confirm"
    /\ Confirm(handler[d].booking)
    /\ HandlerGoesTo(d, "calendar")
    /\ UNCHANGED <<cancelling, linked, inbox, lost, raced>>

\* Somebody else has the slot: the database refuses, nobody is mailed.
ConfirmRefused(d) ==
    /\ handler[d].pc = "confirm"
    /\ ~FreeFor(handler[d].booking, slot[handler[d].booking])
    /\ handler' = [handler EXCEPT ![d] = Idle]
    /\ UNCHANGED <<vars, cancelling, linked, inbox, lost, raced>>

\* Mutant: nobody looks whether there is an event.
PushEventUnchecked(d) ==
    /\ handler[d].pc = "calendar"
    /\ \E pc \in {"link", "noLink", "null"} : HandlerGoesTo(d, pc)
    /\ UNCHANGED <<vars, cancelling, linked, inbox, lost, raced>>

\* createBookingEvent: an event with a Meet link, one without, or none.
PushEvent(d) ==
    /\ handler[d].pc = "calendar"
    /\ \E pc \in {"link", "noLink", "read"} : HandlerGoesTo(d, pc)
    /\ UNCHANGED <<vars, cancelling, linked, inbox, lost, raced>>

\* The row gets the event's link, and an event without one clears it.
StoreEvent(d) ==
    /\ handler[d].pc \in {"link", "noLink"}
    /\ linked' = IF handler[d].pc = "link" THEN linked \cup {handler[d].booking}
                                           ELSE linked \ {handler[d].booking}
    /\ HandlerGoesTo(d, "read")
    /\ UNCHANGED <<vars, cancelling, inbox, lost, raced>>

\* Mutant: the mail is made from the booking handleWebhook read at its start.
MailWhatWasRead(d) ==
    /\ handler[d].pc = "read"
    /\ handler' = [handler EXCEPT ![d].pc = "customer", ![d].link = FALSE]
    /\ UNCHANGED <<vars, cancelling, linked, inbox, lost, raced>>

\* sendBookingConfirmation reads the row once more.
ReadForMail(d) ==
    /\ handler[d].pc = "read"
    /\ handler' = [handler EXCEPT ![d].pc = "customer",
                                  ![d].link = handler[d].booking \in linked]
    /\ UNCHANGED <<vars, cancelling, linked, inbox, lost, raced>>

\* Sent, or refused with an error that is only logged.  The professional's mail
\* comes after it, unless the call threw; whatever becomes of that one, nothing
\* follows but the acknowledgement.
MailCustomer(d) ==
    /\ handler[d].pc = "customer"
    /\ \/ Deliver(handler[d].booking, "CONFIRMED", handler[d].link)
       \/ Lose(handler[d].booking)
    /\ handler' = [handler EXCEPT ![d] = Idle]
    /\ UNCHANGED <<vars, cancelling, linked, raced>>

\* The process dies, or the database does not answer: 500.
HandlerFails(d) ==
    /\ handler[d].pc # "idle"
    /\ Lose(handler[d].booking)
    /\ handler' = [handler EXCEPT ![d] = Idle]
    /\ UNCHANGED <<vars, cancelling, linked, raced>>

-----------------------------------------------------------------------------
(* cancel.                                                                  *)

CancelGoesTo(c, pc) == cancelling' = [cancelling EXCEPT ![c].pc = pc]

\* The row is read to see whose it is; its status is not looked at.
RequestCancel(c, b) ==
    /\ cancelling[c].pc = "new"
    /\ status[b] # "NONE"
    /\ cancelling' = [cancelling EXCEPT ![c] = [pc |-> "update", booking |-> b]]
    /\ UNCHANGED <<vars, handler, linked, inbox, lost, raced>>

Handled(b) == \E d \in Deliveries : handler[d].booking = b

\* Mutant: only a confirmed booking's customer is told.
CancelTellsConfirmed(c) ==
    /\ cancelling[c].pc = "update"
    /\ Cancel(cancelling[c].booking)
    /\ CancelGoesTo(c, IF status[cancelling[c].booking] = "CONFIRMED"
                       THEN "mail" ELSE "done")
    /\ raced' = raced \cup {b \in Bookings : b = cancelling[c].booking /\ Handled(b)}
    /\ UNCHANGED <<handler, linked, inbox, lost>>

CancelRow(c) ==
    /\ cancelling[c].pc = "update"
    /\ Cancel(cancelling[c].booking)
    /\ CancelGoesTo(c, "mail")
    /\ raced' = raced \cup {b \in Bookings : b = cancelling[c].booking /\ Handled(b)}
    /\ UNCHANGED <<handler, linked, inbox, lost>>

\* sendCancellation: the row it reads supplies a name and a date, which no
\* request changes.  An error is logged, and cancel answers as if there were none.
MailCancellation(c) ==
    /\ cancelling[c].pc = "mail"
    /\ \/ Deliver(cancelling[c].booking, "CANCELLED", FALSE)
       \/ Lose(cancelling[c].booking)
    /\ CancelGoesTo(c, "done")
    /\ UNCHANGED <<vars, handler, linked, raced>>

CancelFails(c) ==
    /\ cancelling[c].pc \in {"update", "mail"}
    /\ IF cancelling[c].pc = "mail" THEN Lose(cancelling[c].booking)
                                    ELSE UNCHANGED <<inbox, lost>>
    /\ CancelGoesTo(c, "done")
    /\ UNCHANGED <<vars, handler, linked, raced>>

-----------------------------------------------------------------------------
\* The steps that leave the bookings of the ledger as they are.
Correspond ==
    \/ \E d \in Deliveries :
          \/ \E b \in Bookings : ReadHeld(d, b)
          \/ ConfirmRefused(d) \/ PushEvent(d) \/ StoreEvent(d) \/ ReadForMail(d)
          \/ MailCustomer(d) \/ HandlerFails(d)
    \/ \E c \in Cancellations :
          \/ \E b \in Bookings : RequestCancel(c, b)
          \/ MailCancellation(c) \/ CancelFails(c)

-----------------------------------------------------------------------------
Quiet(b) ==
    /\ ~Handled(b)
    /\ \A c \in Cancellations : cancelling[c].booking = b => cancelling[c].pc = "done"

(* When no request works on a booking any more and none of its mails was    *)
(* lost, its customer has been told what has become of it; and the last      *)
(* mail says so, unless the professional cancelled in the middle of a       *)
(* handler's work: then the confirmation may come after the cancellation.   *)
LastWordIsTrue ==
    \A b \in Bookings :
        (Quiet(b) /\ b \notin lost /\ status[b] \in {"CONFIRMED", "CANCELLED"}) =>
            /\ \E i \in DOMAIN inbox[b] : inbox[b][i].kind = status[b]
            /\ b \notin raced => Last(inbox[b]).kind = status[b]

(* A meeting link that is in the row when everything is done has been sent  *)
(* to the customer, though the mail is made from a row another handler may  *)
(* have overwritten since the link was stored.                              *)
LinkReachesCustomer ==
    \A b \in Bookings :
        (Quiet(b) /\ b \notin lost /\ b \in linked) =>
            \E i \in DOMAIN inbox[b] : inbox[b][i].link
=============================================================================
