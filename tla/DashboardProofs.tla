--------------------------- MODULE DashboardProofs ---------------------------
(***************************************************************************)
(* Theorems about the ledger of bookings, and about what people see of it:  *)
(* no walk through a list misses a row that stayed in it, and no customer   *)
(* is left without the last word on a booking -- for any bookings, slots,   *)
(* handlers and cancellations, and any page size.                           *)
(***************************************************************************)
EXTENDS Dashboard, FiniteSetTheorems, TLAPS

-----------------------------------------------------------------------------
(* The ledger.                                                              *)

Guarantees == TypeOK /\ NoSharedSlot /\ ConfirmedIsPaid

(* No step of the ledger gives one slot to two bookings, or confirms what   *)
(* nobody has paid for.                                                     *)
LEMMA NextKeepsGuarantees == Guarantees /\ [Next]_vars => Guarantees'
<1> SUFFICES ASSUME Guarantees, [Next]_vars
             PROVE  Guarantees'
  OBVIOUS
<1> USE DEF Guarantees, TypeOK, NoSharedSlot, ConfirmedIsPaid, Statuses, Occupying
<1>1. ASSUME NEW b \in Bookings, NEW s \in Slots, Take(b, s)
      PROVE  Guarantees'
  BY <1>1 DEF Take, FreeFor
<1>2. ASSUME NEW more \in SUBSET Bookings, Lapse(more)
      PROVE  Guarantees'
  BY <1>2 DEF Lapse
<1>3. ASSUME NEW gone \in SUBSET Bookings, Expire(gone)
      PROVE  Guarantees'
  BY <1>3 DEF Expire
<1>4. ASSUME NEW b \in Bookings, Cancel(b)
      PROVE  Guarantees'
  BY <1>4 DEF Cancel
<1>5. ASSUME NEW b \in Bookings, Pay(b)
      PROVE  Guarantees'
  BY <1>5 DEF Pay
<1>6. ASSUME NEW b \in Bookings, Confirm(b)
      PROVE  Guarantees'
  BY <1>6 DEF Confirm, FreeFor
<1>7. CASE UNCHANGED vars
  BY <1>7 DEF vars
<1> QED
  BY <1>1, <1>2, <1>3, <1>4, <1>5, <1>6, <1>7 DEF Next

(* Two bookings never occupy one slot, and whoever is confirmed has paid:   *)
(* everything that implements the ledger inherits both.                     *)
THEOREM LedgerIsSound == Spec => [](TypeOK /\ NoSharedSlot /\ ConfirmedIsPaid)
<1>1. Init => Guarantees
  BY DEF Init, Guarantees, TypeOK, NoSharedSlot, ConfirmedIsPaid, Statuses, Occupying
<1>2. Guarantees => TypeOK /\ NoSharedSlot /\ ConfirmedIsPaid
  BY DEF Guarantees
<1> QED
  BY <1>1, <1>2, NextKeepsGuarantees, PTL DEF Spec

-----------------------------------------------------------------------------
(* What a request remembers of its booking.                                 *)

HandlerRecord ==
    [pc : {"idle", "confirm", "calendar", "link", "noLink", "read", "customer"},
     booking : Bookings \cup {None}, link : BOOLEAN]

CancelRecord ==
    [pc : {"new", "update", "mail", "done"}, booking : Bookings \cup {None}]

NoticesInv ==
    /\ NoticesTypeOK
    /\ \A d \in Deliveries :
          /\ handler[d].pc = "idle" => handler[d].booking = None
          /\ handler[d].pc # "idle" => handler[d].booking \in Bookings
    /\ \A c \in Cancellations :
          /\ cancelling[c].pc = "new" => cancelling[c].booking = None
          /\ cancelling[c].pc # "new" => cancelling[c].booking \in Bookings

\* d goes on to pc with the booking b and, for the mail, a link or none.
Serves(d, pc, b, link) ==
    /\ handler'[d] = [pc |-> pc, booking |-> b, link |-> link]
    /\ \A e \in Deliveries \ {d} : handler'[e] = handler[e]
    /\ handler' \in [Deliveries -> HandlerRecord]

LEMMA RecordWritten ==
    ASSUME NEW h \in HandlerRecord
    PROVE  /\ \A pc : [h EXCEPT !.pc = pc] =
                          [pc |-> pc, booking |-> h.booking, link |-> h.link]
           /\ \A pc, b : [h EXCEPT !.pc = pc, !.booking = b] =
                             [pc |-> pc, booking |-> b, link |-> h.link]
           /\ \A pc, l : [h EXCEPT !.pc = pc, !.link = l] =
                             [pc |-> pc, booking |-> h.booking, link |-> l]
<1>1. ASSUME NEW pc
      PROVE  [h EXCEPT !.pc = pc] = [pc |-> pc, booking |-> h.booking, link |-> h.link]
  BY DEF HandlerRecord
<1>2. ASSUME NEW pc, NEW b
      PROVE  [[h EXCEPT !.pc = pc] EXCEPT !.booking = b] =
                 [pc |-> pc, booking |-> b, link |-> h.link]
  <2> DEFINE g == [h EXCEPT !.pc = pc]
  <2>1. g = [pc |-> pc, booking |-> h.booking, link |-> h.link]
    BY <1>1
  <2> HIDE DEF g
  <2>2. [g EXCEPT !.booking = b] = [pc |-> pc, booking |-> b, link |-> h.link]
    BY <2>1
  <2> QED
    BY <2>2 DEF g
<1>3. ASSUME NEW pc, NEW l
      PROVE  [[h EXCEPT !.pc = pc] EXCEPT !.link = l] =
                 [pc |-> pc, booking |-> h.booking, link |-> l]
  <2> DEFINE g == [h EXCEPT !.pc = pc]
  <2>1. g = [pc |-> pc, booking |-> h.booking, link |-> h.link]
    BY <1>1
  <2> HIDE DEF g
  <2>2. [g EXCEPT !.link = l] = [pc |-> pc, booking |-> h.booking, link |-> l]
    BY <2>1
  <2> QED
    BY <2>2 DEF g
<1> QED
  BY <1>1, <1>2, <1>3

LEMMA HandlerServes ==
    ASSUME NoticesInv, NEW d \in Deliveries
    PROVE  /\ \A b \in Bookings : ReadHeld(d, b) =>
                 Serves(d, "confirm", b, handler[d].link)
           /\ ConfirmRefused(d) \/ MailCustomer(d) \/ HandlerFails(d) =>
                 Serves(d, "idle", None, FALSE)
           /\ \A pc \in {"calendar", "link", "noLink", "read"} :
                 HandlerGoesTo(d, pc) =>
                    Serves(d, pc, handler[d].booking, handler[d].link)
           /\ ReadForMail(d) =>
                 Serves(d, "customer", handler[d].booking, handler[d].booking \in linked)
<1>1. /\ handler \in [Deliveries -> HandlerRecord]
      /\ handler[d] \in HandlerRecord
      /\ handler[d].link \in BOOLEAN /\ handler[d].booking \in Bookings \cup {None}
  BY DEF NoticesInv, NoticesTypeOK, HandlerRecord
<1> DEFINE h == handler[d]
<1>h. /\ \A pc : [h EXCEPT !.pc = pc] =
                     [pc |-> pc, booking |-> h.booking, link |-> h.link]
      /\ \A pc, b : [[h EXCEPT !.pc = pc] EXCEPT !.booking = b] =
                        [pc |-> pc, booking |-> b, link |-> h.link]
      /\ \A pc, l : [[h EXCEPT !.pc = pc] EXCEPT !.link = l] =
                        [pc |-> pc, booking |-> h.booking, link |-> l]
  <2> HIDE DEF h
  <2> QED
    BY <1>1, RecordWritten DEF h
<1>2. ASSUME NEW new \in HandlerRecord, handler' = [handler EXCEPT ![d] = new]
      PROVE  /\ handler'[d] = new
             /\ \A e \in Deliveries \ {d} : handler'[e] = handler[e]
             /\ handler' \in [Deliveries -> HandlerRecord]
  BY <1>1, <1>2
<1>3. ASSUME NEW b \in Bookings, ReadHeld(d, b)
      PROVE  Serves(d, "confirm", b, handler[d].link)
  <2> DEFINE new == [handler[d] EXCEPT !.pc = "confirm", !.booking = b]
  <2>1. new = [pc |-> "confirm", booking |-> b, link |-> handler[d].link]
    BY <1>h
  <2>2. new \in HandlerRecord
    BY <1>1, <2>1 DEF HandlerRecord
  <2>3. handler' = [handler EXCEPT ![d] = new]
    BY <1>3, <1>1 DEF ReadHeld
  <2> HIDE DEF new
  <2> QED
    BY <1>2, <2>1, <2>2, <2>3 DEF Serves
<1>4. ASSUME ConfirmRefused(d) \/ MailCustomer(d) \/ HandlerFails(d)
      PROVE  Serves(d, "idle", None, FALSE)
  <2>1. Idle \in HandlerRecord
    BY DEF Idle, HandlerRecord
  <2> QED
    BY <1>2, <1>4, <2>1 DEF ConfirmRefused, MailCustomer, HandlerFails, Serves, Idle
<1>5. ASSUME NEW pc \in {"calendar", "link", "noLink", "read"}, HandlerGoesTo(d, pc)
      PROVE  Serves(d, pc, handler[d].booking, handler[d].link)
  <2> DEFINE new == [handler[d] EXCEPT !.pc = pc]
  <2>1. new = [pc |-> pc, booking |-> handler[d].booking, link |-> handler[d].link]
    BY <1>h
  <2>2. new \in HandlerRecord
    BY <1>1, <2>1 DEF HandlerRecord
  <2>3. handler' = [handler EXCEPT ![d] = new]
    BY <1>5, <1>1 DEF HandlerGoesTo
  <2> HIDE DEF new
  <2> QED
    BY <1>2, <2>1, <2>2, <2>3 DEF Serves
<1>6. ASSUME ReadForMail(d)
      PROVE  Serves(d, "customer", handler[d].booking, handler[d].booking \in linked)
  <2>0. PICK there \in BOOLEAN : there = (handler[d].booking \in linked)
    <3>1. (handler[d].booking \in linked) \in BOOLEAN
      OBVIOUS
    <3> QED
      BY <3>1, Zenon
  <2> DEFINE new == [handler[d] EXCEPT !.pc = "customer", !.link = there]
  <2>1. new = [pc |-> "customer", booking |-> handler[d].booking, link |-> there]
    BY <1>h
  <2>2. new \in HandlerRecord
    BY <1>1, <2>1 DEF HandlerRecord
  <2>3. handler' = [handler EXCEPT ![d] = new]
    BY <1>6, <2>0 DEF ReadForMail
  <2> HIDE DEF new
  <2>4. Serves(d, "customer", handler[d].booking, there)
    BY <1>2, <2>1, <2>2, <2>3 DEF Serves
  <2> QED
    BY <2>0, <2>4
<1> QED
  BY <1>3, <1>4, <1>5, <1>6

\* c goes on to pc with the booking b.
Pursues(c, pc, b) ==
    /\ cancelling'[c] = [pc |-> pc, booking |-> b]
    /\ \A e \in Cancellations \ {c} : cancelling'[e] = cancelling[e]
    /\ cancelling' \in [Cancellations -> CancelRecord]

LEMMA CancelPursues ==
    ASSUME NoticesInv, NEW c \in Cancellations
    PROVE  /\ \A b \in Bookings : RequestCancel(c, b) => Pursues(c, "update", b)
           /\ \A pc \in {"mail", "done"} :
                 CancelGoesTo(c, pc) => Pursues(c, pc, cancelling[c].booking)
<1>1. cancelling \in [Cancellations -> CancelRecord] /\ cancelling[c] \in CancelRecord
  BY DEF NoticesInv, NoticesTypeOK, CancelRecord
<1>2. ASSUME NEW new \in CancelRecord, cancelling' = [cancelling EXCEPT ![c] = new]
      PROVE  /\ cancelling'[c] = new
             /\ \A e \in Cancellations \ {c} : cancelling'[e] = cancelling[e]
             /\ cancelling' \in [Cancellations -> CancelRecord]
  BY <1>1, <1>2
<1>3. ASSUME NEW b \in Bookings, RequestCancel(c, b)
      PROVE  Pursues(c, "update", b)
  <2>1. [pc |-> "update", booking |-> b] \in CancelRecord
    BY DEF CancelRecord
  <2> QED
    BY <1>2, <1>3, <2>1 DEF RequestCancel, Pursues
<1>4. ASSUME NEW pc \in {"mail", "done"}, CancelGoesTo(c, pc)
      PROVE  Pursues(c, pc, cancelling[c].booking)
  <2> DEFINE new == [cancelling[c] EXCEPT !.pc = pc]
  <2>1. new = [pc |-> pc, booking |-> cancelling[c].booking]
    BY <1>1 DEF CancelRecord
  <2>2. new \in CancelRecord
    BY <1>1, <2>1 DEF CancelRecord
  <2>3. cancelling' = [cancelling EXCEPT ![c] = new]
    BY <1>4 DEF CancelGoesTo
  <2> HIDE DEF new
  <2> QED
    BY <1>2, <2>1, <2>2, <2>3 DEF Pursues
<1> QED
  BY <1>3, <1>4

LEMMA DeliverWrites ==
    ASSUME NoticesInv, NEW b \in Bookings, NEW kind \in {"CONFIRMED", "CANCELLED"},
           NEW link \in BOOLEAN, Deliver(b, kind, link)
    PROVE  /\ inbox' \in [Bookings -> Seq(Mails)]
           /\ inbox'[b] = IF b \in lost THEN <<>>
                          ELSE Append(inbox[b], [kind |-> kind, link |-> link])
           /\ \A y \in Bookings \ {b} : inbox'[y] = inbox[y]
           /\ lost' = lost
<1>1. [kind |-> kind, link |-> link] \in Mails
  BY DEF Mails
<1>2. inbox \in [Bookings -> Seq(Mails)]
  BY DEF NoticesInv, NoticesTypeOK
<1> QED
  BY <1>1, <1>2 DEF Deliver

LEMMA LoseWrites ==
    ASSUME NoticesInv, NEW b \in Bookings, Lose(b)
    PROVE  /\ inbox' \in [Bookings -> Seq(Mails)]
           /\ inbox'[b] = <<>>
           /\ \A y \in Bookings \ {b} : inbox'[y] = inbox[y]
           /\ lost' = lost \cup {b}
<1>1. inbox \in [Bookings -> Seq(Mails)]
  BY DEF NoticesInv, NoticesTypeOK
<1> QED
  BY <1>1 DEF Lose

-----------------------------------------------------------------------------
(* The last word on a booking.  A customer whose mails all arrived has been *)
(* told of the confirmation, or a handler still works on it; likewise of a   *)
(* cancellation.  LastWordIsTrue speaks of the moments in between only and  *)
(* is not inductive: what counts is who is still going to send what.        *)

Told(b, kind) == \E i \in DOMAIN inbox[b] : inbox[b][i].kind = kind

\* A cancellation is on its way to the customer.
Telling(b) ==
    \E c \in Cancellations : cancelling[c].booking = b /\ cancelling[c].pc = "mail"

Confirming(b) ==
    \E d \in Deliveries :
        /\ handler[d].booking = b
        /\ handler[d].pc \in {"calendar", "link", "noLink", "read", "customer"}

\* The link in the row is on its way to the customer.
Sharing(b) ==
    \E d \in Deliveries :
        /\ handler[d].booking = b
        /\ \/ handler[d].pc = "read"
           \/ handler[d].pc = "customer" /\ handler[d].link

EndsCancelled(b) == inbox[b] # <<>> /\ Last(inbox[b]).kind = "CANCELLED"

Word(b) ==
    /\ b \notin lost =>
          /\ status[b] = "CONFIRMED" => Confirming(b) \/ Told(b, "CONFIRMED")
          /\ status[b] = "CANCELLED" => Telling(b) \/ Told(b, "CANCELLED")
          /\ status[b] = "CANCELLED" /\ b \notin raced => Telling(b) \/ EndsCancelled(b)
          /\ b \in linked => Sharing(b) \/ \E i \in DOMAIN inbox[b] : inbox[b][i].link
    /\ b \notin raced =>
          /\ status[b] = "CANCELLED" => ~Handled(b)
          /\ Telling(b) \/ Told(b, "CANCELLED") => status[b] = "CANCELLED"

WordInv == NoticesInv /\ \A b \in Bookings : Word(b)

\* Nothing about b changes.
LeftAlone(b) ==
    /\ status'[b] = status[b]
    /\ \A d \in Deliveries :
          handler[d].booking = b \/ handler'[d].booking = b => handler'[d] = handler[d]
    /\ \A c \in Cancellations :
          cancelling[c].booking = b \/ cancelling'[c].booking = b
              => cancelling'[c] = cancelling[c]
    /\ inbox'[b] = inbox[b]
    /\ b \in linked' <=> b \in linked
    /\ b \in lost' <=> b \in lost
    /\ b \in raced' <=> b \in raced

LEMMA LeftAloneKeepsWord ==
    ASSUME NEW b \in Bookings, Word(b), LeftAlone(b)
    PROVE  Word(b)'
<1>1. /\ Telling(b)' <=> Telling(b)
      /\ Confirming(b)' <=> Confirming(b)
      /\ Sharing(b)' <=> Sharing(b)
      /\ Handled(b)' <=> Handled(b)
  BY DEF LeftAlone, Telling, Confirming, Sharing, Handled
<1>2. /\ \A kind : Told(b, kind)' <=> Told(b, kind)
      /\ EndsCancelled(b)' <=> EndsCancelled(b)
      /\ (\E i \in DOMAIN inbox[b] : inbox[b][i].link)'
            <=> \E i \in DOMAIN inbox[b] : inbox[b][i].link
  BY DEF LeftAlone, Told, EndsCancelled, Last
<1> QED
  BY <1>1, <1>2 DEF LeftAlone, Word

\* A step of one handler concerns one booking.
LEMMA ServesKeepsWord ==
    ASSUME WordInv, NEW d \in Deliveries, NEW x \in Bookings,
           handler[d].booking \in {x, None},
           NEW pc, NEW b \in {x, None}, NEW link, Serves(d, pc, b, link),
           pc = "idle" <=> b = None,
           UNCHANGED cancelling,
           linked' \subseteq Bookings, lost' \subseteq Bookings, raced' \subseteq Bookings,
           inbox' \in [Bookings -> Seq(Mails)],
           \A y \in Bookings \ {x} :
              /\ status'[y] = status[y]
              /\ inbox'[y] = inbox[y]
              /\ y \in linked' <=> y \in linked
              /\ y \in lost' <=> y \in lost
              /\ y \in raced' <=> y \in raced,
           Word(x)'
    PROVE  WordInv'
<1>1. handler' \in [Deliveries -> HandlerRecord] /\ handler'[d].booking = b /\ handler'[d].pc = pc
  BY DEF Serves
<1>2. b = None <=> b \notin Bookings
  BY NoticesAssumption
<1>3. NoticesTypeOK'
  BY <1>1 DEF WordInv, NoticesInv, NoticesTypeOK, HandlerRecord
<1>4. NoticesInv'
  BY <1>1, <1>2, <1>3 DEF WordInv, NoticesInv, Serves
<1>5. ASSUME NEW y \in Bookings \ {x}
      PROVE  LeftAlone(y)
  BY <1>1, <1>5, NoticesAssumption DEF LeftAlone, Serves
<1> QED
  BY <1>4, <1>5, LeftAloneKeepsWord DEF WordInv

\* Likewise a step of one cancellation.
LEMMA PursuesKeepsWord ==
    ASSUME WordInv, NEW c \in Cancellations, NEW x \in Bookings,
           cancelling[c].booking \in {x, None},
           NEW pc \in {"update", "mail", "done"}, Pursues(c, pc, x),
           UNCHANGED <<handler, linked>>,
           lost' \subseteq Bookings, raced' \subseteq Bookings,
           inbox' \in [Bookings -> Seq(Mails)],
           \A y \in Bookings \ {x} :
              /\ status'[y] = status[y]
              /\ inbox'[y] = inbox[y]
              /\ y \in lost' <=> y \in lost
              /\ y \in raced' <=> y \in raced,
           Word(x)'
    PROVE  WordInv'
<1>1. /\ cancelling' \in [Cancellations -> CancelRecord]
      /\ cancelling'[c].booking = x /\ cancelling'[c].pc = pc
  BY DEF Pursues
<1>2. NoticesTypeOK'
  BY <1>1 DEF WordInv, NoticesInv, NoticesTypeOK, CancelRecord
<1>3. NoticesInv'
  BY <1>1, <1>2 DEF WordInv, NoticesInv, Pursues
<1>4. ASSUME NEW y \in Bookings \ {x}
      PROVE  LeftAlone(y)
  BY <1>1, <1>4, NoticesAssumption DEF LeftAlone, Pursues
<1> QED
  BY <1>3, <1>4, LeftAloneKeepsWord DEF WordInv

-----------------------------------------------------------------------------
(* The handler's steps keep the word.                                       *)

LEMMA ReadHeldKeepsWord ==
    ASSUME WordInv, NEW d \in Deliveries, NEW b \in Bookings, ReadHeld(d, b)
    PROVE  WordInv'
<1>1. PICK link : link = handler[d].link
  OBVIOUS
<1>2. Serves(d, "confirm", b, link) /\ handler[d].booking = None
  BY <1>1, HandlerServes DEF WordInv, NoticesInv, ReadHeld
<1>3. /\ UNCHANGED <<vars, cancelling, linked, inbox, lost, raced>>
      /\ status[b] = "HELD"
  BY DEF ReadHeld
<1>4. Word(b)'
  <2>1. Sharing(b) => Sharing(b)'
    BY <1>2, NoticesAssumption DEF Sharing, Serves
  <2>2. Telling(b)' <=> Telling(b)
    BY <1>3 DEF Telling
  <2>3. Word(b) /\ status'[b] = "HELD"
    BY <1>3 DEF WordInv, vars
  <2> QED
    BY <1>3, <2>1, <2>2, <2>3 DEF Word, Told
<1>5. /\ linked' \subseteq Bookings /\ lost' \subseteq Bookings /\ raced' \subseteq Bookings
      /\ inbox' \in [Bookings -> Seq(Mails)]
      /\ status' = status
  BY <1>3 DEF vars, WordInv, NoticesInv, NoticesTypeOK
<1>6. "confirm" = "idle" <=> b = None
  BY NoticesAssumption
<1> QED
  BY <1>2, <1>3, <1>4, <1>5, <1>6, ServesKeepsWord

LEMMA ConfirmHeldKeepsWord ==
    ASSUME WordInv, TypeOK, NEW d \in Deliveries, ConfirmHeld(d)
    PROVE  WordInv'
<1>0. PICK link : link = handler[d].link
  OBVIOUS
<1>1. PICK x \in Bookings : x = handler[d].booking
  BY DEF ConfirmHeld, WordInv, NoticesInv
<1>2. /\ handler[d].pc = "confirm"
      /\ Serves(d, "calendar", x, link)
      /\ UNCHANGED <<cancelling, linked, inbox, lost, raced>>
  BY <1>0, <1>1, HandlerServes DEF WordInv, ConfirmHeld
<1>3. /\ status'[x] = "CONFIRMED"
      /\ \A y \in Bookings \ {x} : status'[y] = status[y]
  BY <1>1 DEF ConfirmHeld, Confirm, TypeOK
<1>4. Word(x)'
  <2>1. Confirming(x)'
    BY <1>2 DEF Confirming, Serves
  <2>2. Sharing(x) => Sharing(x)'
    BY <1>1, <1>2 DEF Sharing, Serves
  <2>3. Handled(x)
    BY <1>1 DEF Handled
  <2>4. /\ Word(x)
        /\ Telling(x)' <=> Telling(x)
        /\ Told(x, "CANCELLED")' <=> Told(x, "CANCELLED")
    BY <1>2 DEF WordInv, Telling, Told
  <2> QED
    BY <1>2, <1>3, <2>1, <2>2, <2>3, <2>4 DEF Word
<1>5. /\ linked' \subseteq Bookings /\ lost' \subseteq Bookings /\ raced' \subseteq Bookings
      /\ inbox' \in [Bookings -> Seq(Mails)]
  BY <1>2 DEF WordInv, NoticesInv, NoticesTypeOK
<1>6. "calendar" = "idle" <=> x = None
  BY NoticesAssumption
<1> QED
  BY <1>1, <1>2, <1>3, <1>4, <1>5, <1>6, ServesKeepsWord

\* A step that sends nothing, and leaves those who will.
LEMMA SilentKeepsWord ==
    ASSUME WordInv, NEW d \in Deliveries, NEW x \in Bookings, x = handler[d].booking,
           UNCHANGED <<vars, cancelling, inbox, lost, raced>>,
           Confirming(x) => Confirming(x)',
           x \notin lost /\ x \in linked' => Sharing(x)' \/ \E i \in DOMAIN inbox[x] : inbox[x][i].link
    PROVE  Word(x)'
<1>1. Word(x) /\ Handled(x)
  BY DEF WordInv, Handled
<1>2. Telling(x)' <=> Telling(x)
  BY DEF Telling
<1>3. \A kind : Told(x, kind)' <=> Told(x, kind)
  BY DEF Told
<1>4. EndsCancelled(x)' <=> EndsCancelled(x)
  BY DEF EndsCancelled, Last
<1> QED
  BY <1>1, <1>2, <1>3, <1>4 DEF Word, vars

LEMMA ConfirmRefusedKeepsWord ==
    ASSUME WordInv, NEW d \in Deliveries, ConfirmRefused(d)
    PROVE  WordInv'
<1>1. PICK x \in Bookings : x = handler[d].booking
  BY DEF ConfirmRefused, WordInv, NoticesInv
<1>2. /\ handler[d].pc = "confirm"
      /\ Serves(d, "idle", None, FALSE)
      /\ UNCHANGED <<vars, cancelling, linked, inbox, lost, raced>>
  BY HandlerServes DEF WordInv, ConfirmRefused
<1>3. (Confirming(x) => Confirming(x)') /\ (Sharing(x) => Sharing(x)')
  BY <1>2 DEF Confirming, Sharing, Serves
<1>4. x \notin lost /\ x \in linked' =>
          Sharing(x)' \/ \E i \in DOMAIN inbox[x] : inbox[x][i].link
  BY <1>2, <1>3 DEF WordInv, Word
<1>5. Word(x)'
  BY <1>1, <1>2, <1>3, <1>4, SilentKeepsWord
<1> QED
  BY <1>1, <1>2, <1>5, ServesKeepsWord DEF vars, WordInv, NoticesInv, NoticesTypeOK

LEMMA PushEventKeepsWord ==
    ASSUME WordInv, NEW d \in Deliveries, PushEvent(d)
    PROVE  WordInv'
<1>1. PICK x \in Bookings : x = handler[d].booking
  BY DEF PushEvent, WordInv, NoticesInv
<1>2. PICK pc \in {"link", "noLink", "read"} : HandlerGoesTo(d, pc)
  BY DEF PushEvent
<1>3. /\ handler[d].pc = "calendar"
      /\ Serves(d, pc, x, handler[d].link)
      /\ UNCHANGED <<vars, cancelling, linked, inbox, lost, raced>>
  BY <1>1, <1>2, HandlerServes DEF WordInv, PushEvent
<1>4. Confirming(x)' /\ (Sharing(x) => Sharing(x)')
  BY <1>3 DEF Confirming, Sharing, Serves
<1>5. x \notin lost /\ x \in linked' =>
          Sharing(x)' \/ \E i \in DOMAIN inbox[x] : inbox[x][i].link
  BY <1>3, <1>4 DEF WordInv, Word
<1>6. Word(x)'
  BY <1>1, <1>3, <1>4, <1>5, SilentKeepsWord
<1> QED
  BY <1>1, <1>3, <1>6, NoticesAssumption, ServesKeepsWord
  DEF vars, WordInv, NoticesInv, NoticesTypeOK

LEMMA StoreEventKeepsWord ==
    ASSUME WordInv, NEW d \in Deliveries, StoreEvent(d)
    PROVE  WordInv'
<1>0. PICK link : link = handler[d].link
  OBVIOUS
<1>1. PICK x \in Bookings : x = handler[d].booking
  BY DEF StoreEvent, WordInv, NoticesInv
<1>2. /\ Serves(d, "read", x, link)
      /\ UNCHANGED <<vars, cancelling, inbox, lost, raced>>
      /\ linked' \subseteq Bookings
      /\ \A y \in Bookings \ {x} : y \in linked' <=> y \in linked
  BY <1>0, <1>1, HandlerServes DEF WordInv, NoticesInv, NoticesTypeOK, StoreEvent
<1>3. Confirming(x)' /\ Sharing(x)'
  BY <1>2 DEF Confirming, Sharing, Serves
<1>4. Word(x)'
  BY <1>1, <1>2, <1>3, SilentKeepsWord
<1>5. /\ lost' \subseteq Bookings /\ raced' \subseteq Bookings
      /\ inbox' \in [Bookings -> Seq(Mails)]
      /\ status' = status
  BY <1>2 DEF vars, WordInv, NoticesInv, NoticesTypeOK
<1>6. "read" = "idle" <=> x = None
  BY NoticesAssumption
<1> QED
  BY <1>1, <1>2, <1>4, <1>5, <1>6, ServesKeepsWord

LEMMA ReadForMailKeepsWord ==
    ASSUME WordInv, NEW d \in Deliveries, ReadForMail(d)
    PROVE  WordInv'
<1>1. PICK x \in Bookings, there \in BOOLEAN :
          x = handler[d].booking /\ there = (handler[d].booking \in linked)
  <2>1. handler[d].booking \in Bookings
    BY DEF ReadForMail, WordInv, NoticesInv
  <2>2. (handler[d].booking \in linked) \in BOOLEAN
    OBVIOUS
  <2> QED
    BY <2>1, <2>2, Zenon
<1>2. /\ Serves(d, "customer", x, there)
      /\ UNCHANGED <<vars, cancelling, linked, inbox, lost, raced>>
  BY <1>1, HandlerServes DEF WordInv, ReadForMail
<1>3. Confirming(x)'
  BY <1>2 DEF Confirming, Serves
<1>4. ASSUME x \in linked
      PROVE  Sharing(x)'
  <2>1. there
    BY <1>1, <1>4, Zenon
  <2>2. handler'[d].link = there /\ handler'[d].pc = "customer" /\ handler'[d].booking = x
    BY <1>2 DEF Serves
  <2>3. handler'[d].link
    BY <2>1, <2>2, Zenon
  <2> QED
    BY <2>2, <2>3 DEF Sharing
<1>5. Word(x)'
  BY <1>1, <1>2, <1>3, <1>4, SilentKeepsWord
<1>6. /\ linked' \subseteq Bookings /\ lost' \subseteq Bookings /\ raced' \subseteq Bookings
      /\ inbox' \in [Bookings -> Seq(Mails)]
      /\ status' = status
  BY <1>2 DEF vars, WordInv, NoticesInv, NoticesTypeOK
<1>7. "customer" = "idle" <=> x = None
  BY NoticesAssumption
<1> QED
  BY <1>1, <1>2, <1>5, <1>6, <1>7, ServesKeepsWord

Shared(b) == \E i \in DOMAIN inbox[b] : inbox[b][i].link

\* A mail that arrives is the last one, and the others are still there.
LEMMA DeliverTells ==
    ASSUME NoticesInv, NEW b \in Bookings, NEW kind \in {"CONFIRMED", "CANCELLED"},
           NEW link \in BOOLEAN, Deliver(b, kind, link)
    PROVE  /\ b \notin lost =>
                 /\ Told(b, kind)'
                 /\ \A k : Told(b, k) => Told(b, k)'
                 /\ Shared(b) \/ link => Shared(b)'
                 /\ kind = "CANCELLED" => EndsCancelled(b)'
           /\ Told(b, "CANCELLED")' => Told(b, "CANCELLED") \/ kind = "CANCELLED"
<1>1. inbox[b] \in Seq(Mails)
  BY DEF NoticesInv, NoticesTypeOK
<1> DEFINE mail == [kind |-> kind, link |-> link]
<1>2. mail \in Mails /\ mail.kind = kind
  BY DEF Mails
<1>3. CASE b \in lost
  <2>1. inbox'[b] = <<>>
    BY <1>3, DeliverWrites
  <2> QED
    BY <1>3, <2>1 DEF Told
<1>4. CASE b \notin lost
  <2>1. inbox'[b] = Append(inbox[b], mail)
    BY <1>4, DeliverWrites
  <2>l. link => mail.link
    <3>1. mail.link = link
      OBVIOUS
    <3> QED
      BY <3>1, Zenon
  <2> HIDE DEF mail
  <2>2. /\ DOMAIN inbox'[b] = 1..(Len(inbox[b]) + 1)
        /\ Len(inbox'[b]) = Len(inbox[b]) + 1
        /\ DOMAIN inbox[b] = 1..Len(inbox[b])
        /\ Len(inbox[b]) \in Nat
        /\ inbox'[b][Len(inbox[b]) + 1] = mail
        /\ \A i \in 1..Len(inbox[b]) : inbox'[b][i] = inbox[b][i]
    BY <1>1, <1>2, <2>1
  <2>n. /\ Len(inbox[b]) + 1 \in DOMAIN inbox'[b]
        /\ DOMAIN inbox[b] \subseteq DOMAIN inbox'[b]
    BY <2>2
  <2>3. Told(b, kind)'
    BY <1>2, <2>2, <2>n DEF Told
  <2>4. ASSUME NEW k, Told(b, k)
        PROVE  Told(b, k)'
    BY <2>2, <2>4, <2>n DEF Told
  <2>5. Shared(b) => Shared(b)'
    BY <2>2, <2>n, Zenon DEF Shared
  <2>6. link => Shared(b)'
    BY <2>2, <2>n, <2>l, Zenon DEF Shared
  <2>7. kind = "CANCELLED" => EndsCancelled(b)'
    <3>1. inbox'[b] # <<>>
      BY <2>2
    <3> QED
      BY <1>2, <2>2, <3>1 DEF EndsCancelled, Last
  <2>8. Told(b, "CANCELLED")' => Told(b, "CANCELLED") \/ kind = "CANCELLED"
    BY <1>2, <2>2 DEF Told
  <2> QED
    BY <2>3, <2>4, <2>5, <2>6, <2>7, <2>8
<1> QED
  BY <1>3, <1>4

\* After a loss nothing is owed, and only "the inbox is empty" is left to say.
LEMMA LoseKeepsWord ==
    ASSUME WordInv, NEW x \in Bookings, Lose(x),
           status'[x] = status[x], UNCHANGED raced,
           Handled(x)' => Handled(x), Telling(x)' => Telling(x)
    PROVE  Word(x)'
<1>1. x \in lost' /\ inbox'[x] = <<>>
  BY LoseWrites DEF WordInv
<1>2. ~Told(x, "CANCELLED")'
  BY <1>1 DEF Told
<1>3. Word(x)
  BY DEF WordInv
<1> QED
  BY <1>1, <1>2, <1>3 DEF Word

LEMMA MailCustomerKeepsWord ==
    ASSUME WordInv, NEW d \in Deliveries, MailCustomer(d)
    PROVE  WordInv'
<1>1. PICK x \in Bookings, link \in BOOLEAN :
          x = handler[d].booking /\ link = handler[d].link
  <2>1. handler[d].booking \in Bookings /\ handler[d].link \in BOOLEAN
    BY DEF MailCustomer, WordInv, NoticesInv, NoticesTypeOK
  <2> QED
    BY <2>1, Zenon
<1>2. /\ Serves(d, "idle", None, FALSE)
      /\ UNCHANGED <<vars, cancelling, linked, raced>>
      /\ handler[d].pc = "customer"
      /\ Deliver(x, "CONFIRMED", link) \/ Lose(x)
  BY <1>1, HandlerServes DEF WordInv, MailCustomer
<1>3. /\ Handled(x)
      /\ Telling(x)' <=> Telling(x)
      /\ Handled(x)' => Handled(x)
      /\ Word(x)
      /\ NoticesInv
  BY <1>1, <1>2 DEF Handled, Telling, WordInv
<1>4. CASE Deliver(x, "CONFIRMED", link)
  <2>1. /\ lost' = lost
        /\ inbox' \in [Bookings -> Seq(Mails)]
        /\ \A y \in Bookings \ {x} : inbox'[y] = inbox[y]
    BY <1>3, <1>4, DeliverWrites
  <2>2. /\ x \notin lost =>
              /\ Told(x, "CONFIRMED")'
              /\ \A k : Told(x, k) => Told(x, k)'
              /\ Shared(x) \/ link => Shared(x)'
        /\ Told(x, "CANCELLED")' => Told(x, "CANCELLED")
    <3>1. "CONFIRMED" # "CANCELLED"
      OBVIOUS
    <3> QED
      BY <1>3, <1>4, <3>1, DeliverTells
  <2>3. Sharing(x) => Sharing(x)' \/ link
    <3>1. ASSUME NEW e \in Deliveries, handler[e].booking = x,
                 \/ handler[e].pc = "read"
                 \/ handler[e].pc = "customer" /\ handler[e].link
          PROVE  Sharing(x)' \/ link
      <4>1. CASE e = d
        BY <1>1, <1>2, <3>1, <4>1, Zenon
      <4>2. CASE e # d
        BY <1>2, <3>1, <4>2 DEF Sharing, Serves
      <4> QED
        BY <4>1, <4>2
    <3> QED
      BY <3>1 DEF Sharing
  <2>4. Word(x)'
    BY <1>2, <1>3, <2>1, <2>2, <2>3 DEF Word, Shared, vars
  <2>5. /\ linked' \subseteq Bookings /\ lost' \subseteq Bookings /\ raced' \subseteq Bookings
        /\ status' = status
    BY <1>2, <2>1 DEF vars, WordInv, NoticesInv, NoticesTypeOK
  <2> QED
    BY <1>1, <1>2, <2>1, <2>4, <2>5, ServesKeepsWord
<1>5. CASE Lose(x)
  <2>1. /\ lost' = lost \cup {x}
        /\ inbox' \in [Bookings -> Seq(Mails)]
        /\ \A y \in Bookings \ {x} : inbox'[y] = inbox[y]
    BY <1>3, <1>5, LoseWrites
  <2>2. /\ linked' \subseteq Bookings /\ lost' \subseteq Bookings /\ raced' \subseteq Bookings
        /\ status' = status
    BY <1>2, <2>1 DEF vars, WordInv, NoticesInv, NoticesTypeOK
  <2>3. Word(x)'
    BY <1>2, <1>3, <1>5, <2>2, LoseKeepsWord
  <2> QED
    BY <1>1, <1>2, <2>1, <2>2, <2>3, ServesKeepsWord
<1> QED
  BY <1>2, <1>4, <1>5

LEMMA HandlerFailsKeepsWord ==
    ASSUME WordInv, NEW d \in Deliveries, HandlerFails(d)
    PROVE  WordInv'
<1>1. PICK x \in Bookings : x = handler[d].booking
  BY DEF HandlerFails, WordInv, NoticesInv
<1>2. /\ Serves(d, "idle", None, FALSE)
      /\ UNCHANGED <<vars, cancelling, linked, raced>>
      /\ Lose(x)
  BY <1>1, HandlerServes DEF WordInv, HandlerFails
<1>3. /\ Handled(x)
      /\ Telling(x)' <=> Telling(x)
      /\ Handled(x)' => Handled(x)
  BY <1>1, <1>2 DEF Handled, Telling
<1>4. /\ lost' = lost \cup {x}
      /\ inbox' \in [Bookings -> Seq(Mails)]
      /\ \A y \in Bookings \ {x} : inbox'[y] = inbox[y]
  BY <1>2, LoseWrites DEF WordInv
<1>5. /\ linked' \subseteq Bookings /\ lost' \subseteq Bookings /\ raced' \subseteq Bookings
      /\ status' = status
  BY <1>2, <1>4 DEF vars, WordInv, NoticesInv, NoticesTypeOK
<1>6. Word(x)'
  BY <1>2, <1>3, <1>5, LoseKeepsWord
<1> QED
  BY <1>1, <1>2, <1>4, <1>5, <1>6, ServesKeepsWord

-----------------------------------------------------------------------------
(* The steps of a cancellation keep the word.                               *)

LEMMA RequestCancelKeepsWord ==
    ASSUME WordInv, NEW c \in Cancellations, NEW b \in Bookings, RequestCancel(c, b)
    PROVE  WordInv'
<1>1. /\ Pursues(c, "update", b)
      /\ cancelling[c].booking = None
      /\ UNCHANGED <<vars, handler, linked, inbox, lost, raced>>
  BY CancelPursues DEF WordInv, NoticesInv, RequestCancel
<1>2. Telling(b)' <=> Telling(b)
  BY <1>1, NoticesAssumption DEF Telling, Pursues
<1>3. /\ Confirming(b)' <=> Confirming(b)
      /\ Sharing(b)' <=> Sharing(b)
      /\ Handled(b)' <=> Handled(b)
      /\ \A kind : Told(b, kind)' <=> Told(b, kind)
      /\ EndsCancelled(b)' <=> EndsCancelled(b)
  BY <1>1 DEF Confirming, Sharing, Handled, Told, EndsCancelled, Last
<1>4. Word(b)'
  BY <1>1, <1>2, <1>3 DEF WordInv, Word, vars
<1>5. /\ lost' \subseteq Bookings /\ raced' \subseteq Bookings
      /\ inbox' \in [Bookings -> Seq(Mails)]
      /\ status' = status
  BY <1>1 DEF vars, WordInv, NoticesInv, NoticesTypeOK
<1> QED
  BY <1>1, <1>4, <1>5, PursuesKeepsWord

LEMMA CancelRowKeepsWord ==
    ASSUME WordInv, TypeOK, NEW c \in Cancellations, CancelRow(c)
    PROVE  WordInv'
<1>1. PICK x \in Bookings : x = cancelling[c].booking
  BY DEF CancelRow, WordInv, NoticesInv
<1>2. /\ Pursues(c, "mail", x)
      /\ UNCHANGED <<handler, linked, inbox, lost>>
      /\ raced' = raced \cup {b \in Bookings : b = x /\ Handled(b)}
  BY <1>1, CancelPursues DEF WordInv, CancelRow
<1>3. /\ status'[x] = "CANCELLED"
      /\ \A y \in Bookings \ {x} : status'[y] = status[y]
  BY <1>1 DEF CancelRow, Cancel, TypeOK
<1>4. Word(x)'
  <2>1. Telling(x)'
    BY <1>2 DEF Telling, Pursues
  <2>2. /\ Sharing(x)' <=> Sharing(x)
        /\ Handled(x)' <=> Handled(x)
        /\ Shared(x)' <=> Shared(x)
    BY <1>2 DEF Sharing, Handled, Shared
  <2>3. Word(x) /\ (x \notin raced' => ~Handled(x))
    BY <1>2 DEF WordInv
  <2> QED
    BY <1>2, <1>3, <2>1, <2>2, <2>3 DEF Word, Shared
<1>5. /\ lost' \subseteq Bookings /\ raced' \subseteq Bookings
      /\ inbox' \in [Bookings -> Seq(Mails)]
      /\ \A y \in Bookings \ {x} : y \in raced' <=> y \in raced
  BY <1>2 DEF WordInv, NoticesInv, NoticesTypeOK
<1> QED
  BY <1>1, <1>2, <1>3, <1>4, <1>5, PursuesKeepsWord

LEMMA MailCancellationKeepsWord ==
    ASSUME WordInv, NEW c \in Cancellations, MailCancellation(c)
    PROVE  WordInv'
<1>1. PICK x \in Bookings : x = cancelling[c].booking
  BY DEF MailCancellation, WordInv, NoticesInv
<1>2. /\ Pursues(c, "done", x)
      /\ UNCHANGED <<vars, handler, linked, raced>>
      /\ cancelling[c].pc = "mail"
      /\ Deliver(x, "CANCELLED", FALSE) \/ Lose(x)
  BY <1>1, CancelPursues DEF WordInv, MailCancellation
<1>3. /\ Telling(x)
      /\ Telling(x)' => Telling(x)
      /\ Confirming(x)' <=> Confirming(x)
      /\ Sharing(x)' <=> Sharing(x)
      /\ Handled(x)' <=> Handled(x)
      /\ Word(x)
      /\ NoticesInv
  BY <1>1, <1>2 DEF Telling, Confirming, Sharing, Handled, WordInv
<1>4. CASE Deliver(x, "CANCELLED", FALSE)
  <2>1. /\ lost' = lost
        /\ inbox' \in [Bookings -> Seq(Mails)]
        /\ \A y \in Bookings \ {x} : inbox'[y] = inbox[y]
    BY <1>3, <1>4, DeliverWrites
  <2>2. x \notin lost =>
            /\ Told(x, "CANCELLED")'
            /\ EndsCancelled(x)'
            /\ Told(x, "CONFIRMED") => Told(x, "CONFIRMED")'
            /\ Shared(x) => Shared(x)'
    BY <1>3, <1>4, DeliverTells
  <2>3. Word(x)'
    BY <1>2, <1>3, <2>1, <2>2 DEF Word, Shared, vars
  <2>4. lost' \subseteq Bookings /\ raced' \subseteq Bookings /\ status' = status
    BY <1>2, <2>1 DEF vars, WordInv, NoticesInv, NoticesTypeOK
  <2> QED
    BY <1>1, <1>2, <2>1, <2>3, <2>4, PursuesKeepsWord
<1>5. CASE Lose(x)
  <2>1. /\ lost' = lost \cup {x}
        /\ inbox' \in [Bookings -> Seq(Mails)]
        /\ \A y \in Bookings \ {x} : inbox'[y] = inbox[y]
    BY <1>3, <1>5, LoseWrites
  <2>2. lost' \subseteq Bookings /\ raced' \subseteq Bookings /\ status' = status
    BY <1>2, <2>1 DEF vars, WordInv, NoticesInv, NoticesTypeOK
  <2>3. Word(x)'
    BY <1>2, <1>3, <1>5, <2>2, LoseKeepsWord
  <2> QED
    BY <1>1, <1>2, <2>1, <2>2, <2>3, PursuesKeepsWord
<1> QED
  BY <1>2, <1>4, <1>5

LEMMA CancelFailsKeepsWord ==
    ASSUME WordInv, NEW c \in Cancellations, CancelFails(c)
    PROVE  WordInv'
<1>1. PICK x \in Bookings : x = cancelling[c].booking
  BY DEF CancelFails, WordInv, NoticesInv
<1>2. /\ Pursues(c, "done", x)
      /\ UNCHANGED <<vars, handler, linked, raced>>
      /\ IF cancelling[c].pc = "mail" THEN Lose(x) ELSE UNCHANGED <<inbox, lost>>
  BY <1>1, CancelPursues DEF WordInv, CancelFails
<1>3. /\ Telling(x)' => Telling(x)
      /\ Confirming(x)' <=> Confirming(x)
      /\ Sharing(x)' <=> Sharing(x)
      /\ Handled(x)' <=> Handled(x)
      /\ Word(x)
      /\ NoticesInv
  BY <1>1, <1>2 DEF Telling, Confirming, Sharing, Handled, WordInv, Pursues
<1>4. CASE cancelling[c].pc = "mail"
  <2>1. /\ lost' = lost \cup {x}
        /\ inbox' \in [Bookings -> Seq(Mails)]
        /\ \A y \in Bookings \ {x} : inbox'[y] = inbox[y]
        /\ Lose(x)
    BY <1>2, <1>3, <1>4, LoseWrites
  <2>2. lost' \subseteq Bookings /\ raced' \subseteq Bookings /\ status' = status
    BY <1>2, <2>1 DEF vars, WordInv, NoticesInv, NoticesTypeOK
  <2>3. Word(x)'
    BY <1>2, <1>3, <2>1, <2>2, LoseKeepsWord
  <2> QED
    BY <1>1, <1>2, <2>1, <2>2, <2>3, PursuesKeepsWord
<1>5. CASE cancelling[c].pc # "mail"
  <2>1. Telling(x) => Telling(x)'
    BY <1>1, <1>2, <1>5 DEF Telling, Pursues
  <2>2. /\ \A kind : Told(x, kind)' <=> Told(x, kind)
        /\ EndsCancelled(x)' <=> EndsCancelled(x)
        /\ Shared(x)' <=> Shared(x)
    BY <1>2, <1>5 DEF Told, EndsCancelled, Shared, Last
  <2>3. Word(x)'
    BY <1>2, <1>3, <1>5, <2>1, <2>2 DEF Word, Shared, vars
  <2>4. /\ lost' \subseteq Bookings /\ raced' \subseteq Bookings /\ status' = status
        /\ inbox' \in [Bookings -> Seq(Mails)] /\ UNCHANGED <<inbox, lost>>
    BY <1>2, <1>5 DEF vars, WordInv, NoticesInv, NoticesTypeOK
  <2> QED
    BY <1>1, <1>2, <2>3, <2>4, PursuesKeepsWord
<1> QED
  BY <1>4, <1>5

-----------------------------------------------------------------------------
(* The composition.                                                         *)

\* Bookings are made, lapse and are swept without anybody being told.
LEMMA LedgerKeepsWord ==
    ASSUME WordInv, UNCHANGED noticeVars,
           \A b \in Bookings :
              \/ status'[b] = status[b]
              \/ /\ status'[b] \notin {"CONFIRMED", "CANCELLED"}
                 /\ status[b] # "CANCELLED"
    PROVE  WordInv'
<1>1. NoticesInv'
  BY DEF WordInv, NoticesInv, NoticesTypeOK, noticeVars
<1>2. ASSUME NEW b \in Bookings
      PROVE  Word(b)'
  <2>1. /\ Telling(b)' <=> Telling(b)
        /\ Confirming(b)' <=> Confirming(b)
        /\ Sharing(b)' <=> Sharing(b)
        /\ Handled(b)' <=> Handled(b)
        /\ \A kind : Told(b, kind)' <=> Told(b, kind)
        /\ EndsCancelled(b)' <=> EndsCancelled(b)
        /\ Shared(b)' <=> Shared(b)
    BY DEF noticeVars, Telling, Confirming, Sharing, Handled, Told, EndsCancelled,
           Shared, Last
  <2> QED
    BY <2>1 DEF WordInv, Word, Shared, noticeVars
<1> QED
  BY <1>1, <1>2 DEF WordInv

\* What people see adds nothing to what the ledger does.
LEMMA DashboardFollowsLedger ==
    ASSUME NoticesInv, [DashboardNext]_dashboardVars
    PROVE  [Next]_vars
<1>1. ASSUME NEW b \in Bookings, NEW s \in Slots, MakeBooking(b, s)
      PROVE  [Next]_vars
  BY <1>1 DEF MakeBooking, Next
<1>2. ASSUME NEW b \in Bookings, Pay(b) \/ UnsettleRow(b)
      PROVE  [Next]_vars
  BY <1>2 DEF UnsettleRow, Next
<1>3. ASSUME NEW some \in SUBSET Bookings, Lapse(some) \/ Expire(some)
      PROVE  [Next]_vars
  BY <1>3 DEF Next
<1>4. ASSUME NEW d \in Deliveries, ConfirmHeld(d)
      PROVE  [Next]_vars
  BY <1>4 DEF NoticesInv, ConfirmHeld, Next
<1>5. ASSUME NEW c \in Cancellations, CancelRow(c)
      PROVE  [Next]_vars
  BY <1>5 DEF NoticesInv, CancelRow, Next
<1>6. CASE Correspond
  BY <1>6 DEF Correspond, ReadHeld, ConfirmRefused, PushEvent, StoreEvent, ReadForMail,
              MailCustomer, HandlerFails, RequestCancel, MailCancellation, CancelFails
<1>7. CASE Browse
  BY <1>7 DEF Browse, ReadPage, StartWalk
<1>8. CASE UNCHANGED dashboardVars
  BY <1>8 DEF dashboardVars, vars
<1> QED
  BY <1>1, <1>2, <1>3, <1>4, <1>5, <1>6, <1>7, <1>8 DEF DashboardNext

LEMMA CorrespondKeepsWord == WordInv /\ Correspond => WordInv'
BY ReadHeldKeepsWord, ConfirmRefusedKeepsWord, PushEventKeepsWord, StoreEventKeepsWord,
   ReadForMailKeepsWord, MailCustomerKeepsWord, HandlerFailsKeepsWord,
   RequestCancelKeepsWord, MailCancellationKeepsWord, CancelFailsKeepsWord
DEF Correspond

LEMMA NextKeepsWord ==
    ASSUME TypeOK, WordInv, [DashboardNext]_dashboardVars
    PROVE  WordInv'
<1>1. ASSUME NEW b \in Bookings, NEW s \in Slots, MakeBooking(b, s)
      PROVE  WordInv'
  BY <1>1, LedgerKeepsWord DEF MakeBooking, Take, TypeOK
<1>2. ASSUME NEW b \in Bookings, Pay(b) \/ UnsettleRow(b), UNCHANGED noticeVars
      PROVE  WordInv'
  BY <1>2, LedgerKeepsWord DEF Pay, UnsettleRow, vars
<1>3. ASSUME NEW some \in SUBSET Bookings, Lapse(some) \/ Expire(some),
             UNCHANGED noticeVars
      PROVE  WordInv'
  BY <1>3, LedgerKeepsWord DEF Lapse, Expire
<1>4. ASSUME NEW d \in Deliveries, ConfirmHeld(d)
      PROVE  WordInv'
  BY <1>4, ConfirmHeldKeepsWord
<1>5. ASSUME NEW c \in Cancellations, CancelRow(c)
      PROVE  WordInv'
  BY <1>5, CancelRowKeepsWord
<1>6. CASE Browse /\ UNCHANGED noticeVars
  BY <1>6, LedgerKeepsWord DEF Browse, ReadPage, StartWalk, vars
<1>7. CASE UNCHANGED dashboardVars
  BY <1>7, LedgerKeepsWord DEF dashboardVars, vars
<1> QED
  BY <1>1, <1>2, <1>3, <1>4, <1>5, <1>6, <1>7, CorrespondKeepsWord DEF DashboardNext

LEMMA InitHasWord == DashboardInit => Guarantees /\ WordInv
<1> SUFFICES ASSUME DashboardInit
             PROVE  Guarantees /\ WordInv
  OBVIOUS
<1>1. Guarantees
  BY DEF DashboardInit, Init, Guarantees, TypeOK, NoSharedSlot, ConfirmedIsPaid,
         Statuses, Occupying
<1>2. NoticesInv
  <2>1. Idle \in HandlerRecord /\ Idle.pc = "idle" /\ Idle.booking = None
    BY DEF Idle, HandlerRecord
  <2>2. <<>> \in Seq(Mails)
    OBVIOUS
  <2> QED
    BY <2>1, <2>2 DEF DashboardInit, NoticesInit, NoticesInv, NoticesTypeOK, HandlerRecord
<1>3. ASSUME NEW b \in Bookings
      PROVE  Word(b)
  <2>1. ~Telling(b) /\ ~Told(b, "CANCELLED") /\ b \notin linked /\ status[b] = "NONE"
    BY DEF DashboardInit, Init, NoticesInit, Telling, Told
  <2> QED
    BY <2>1 DEF Word
<1> QED
  BY <1>1, <1>2, <1>3 DEF WordInv

-----------------------------------------------------------------------------
(* The lists.  The walk has at every moment passed the rows that come before *)
(* the next page, so a row it has not seen yet, and that stayed where it is, *)
(* has at least as many rows before it as the walk will skip.               *)

WalkInv ==
    /\ ListingTypeOK
    /\ walk.pc = "walking" =>
          \A b \in walk.unseen :
             /\ b \in Rows(walk.list)
             /\ Skip(walk.page) <= Cardinality(Before(walk.list, b))
    /\ NothingIsMissed

LEMMA RowsAreFinite ==
    ASSUME TypeOK, ListingTypeOK, NEW list
    PROVE  /\ Rows(list) \subseteq Bookings
           /\ IsFiniteSet(Rows(list)) /\ Cardinality(Rows(list)) \in Nat
           /\ \A b : /\ Before(list, b) \subseteq Rows(list)
                     /\ IsFiniteSet(Before(list, b))
                     /\ Cardinality(Before(list, b)) \in Nat
                     /\ Cardinality(Before(list, b)) <= Cardinality(Rows(list))
<1>1. Rows(list) \subseteq Bookings
  BY DEF Rows, RowsOf, ListingTypeOK
<1>2. IsFiniteSet(Rows(list)) /\ Cardinality(Rows(list)) \in Nat
  BY <1>1, FS_Subset, FS_CardinalityType, ListingAssumption
<1>3. ASSUME NEW b
      PROVE  /\ Before(list, b) \subseteq Rows(list)
             /\ IsFiniteSet(Before(list, b))
             /\ Cardinality(Before(list, b)) \in Nat
             /\ Cardinality(Before(list, b)) <= Cardinality(Rows(list))
  <2>1. Before(list, b) \subseteq Rows(list)
    BY DEF Before
  <2> QED
    BY <1>2, <2>1, FS_Subset, FS_CardinalityType
<1> QED
  BY <1>1, <1>2, <1>3

\* The tables change, and the walk is given up or its list has kept its rows
\* in their order.
LEMMA TablesKeepWalk ==
    ASSUME WalkInv, TypeOK, TypeOK',
           settled' \subseteq Bookings,
           createdAfter' \subseteq Bookings \X Bookings,
           paidAfter' \subseteq Bookings \X Bookings,
           \/ walk' = Walk("shaken", walk.list, 1, {}) /\ walk.list # "ALL"
           \/ /\ walk' = walk
              /\ \A list \in Lists : walk.pc = "walking" /\ walk.list = list =>
                    /\ Rows(list) \subseteq Rows(list)'
                    /\ \A b, c \in Rows(list) :
                          <<c, b>> \in Order(list) => <<c, b>> \in Order(list)'
    PROVE  WalkInv'
<1>1. CASE walk' = Walk("shaken", walk.list, 1, {}) /\ walk.list # "ALL"
  BY <1>1 DEF WalkInv, ListingTypeOK, NothingIsMissed, Walk, Lists
<1>2. CASE /\ walk' = walk
           /\ \A list \in Lists : walk.pc = "walking" /\ walk.list = list =>
                 /\ Rows(list) \subseteq Rows(list)'
                 /\ \A b, c \in Rows(list) :
                       <<c, b>> \in Order(list) => <<c, b>> \in Order(list)'
  <2>1. ListingTypeOK' /\ NothingIsMissed'
    BY <1>2 DEF WalkInv, ListingTypeOK, NothingIsMissed
  <2>2. PICK list \in Lists, page \in Nat : list = walk.list /\ page = walk.page
    BY DEF WalkInv, ListingTypeOK
  <2>3. ASSUME walk.pc = "walking", NEW b \in walk.unseen
        PROVE  /\ b \in Rows(list)'
               /\ Skip(page) <= Cardinality(Before(list, b)')
    <3>1. b \in Rows(list) /\ Skip(page) <= Cardinality(Before(list, b))
      BY <2>2, <2>3 DEF WalkInv
    <3>2. Before(list, b) \subseteq Before(list, b)' /\ b \in Rows(list)'
      BY <1>2, <2>2, <2>3, <3>1 DEF Before
    <3>3. /\ IsFiniteSet(Before(list, b)')
          /\ Cardinality(Before(list, b)') \in Nat
      <4>1. Before(list, b)' \subseteq Bookings
        BY DEF Before, Rows, RowsOf
      <4> QED
        BY <4>1, FS_Subset, FS_CardinalityType, ListingAssumption
    <3>4. Cardinality(Before(list, b)) \in Nat
      BY RowsAreFinite DEF WalkInv
    <3>5. Cardinality(Before(list, b)) <= Cardinality(Before(list, b)')
      BY <3>2, <3>3, FS_Subset
    <3>6. Skip(page) \in Int
      BY <2>2, ListingAssumption DEF Skip
    <3> QED
      BY <3>1, <3>2, <3>3, <3>4, <3>5, <3>6
  <2>4. walk.pc = "walking" =>
            \A b \in walk.unseen :
               b \in Rows(list)' /\ Skip(page) <= Cardinality(Before(list, b)')
    BY <2>3
  <2>5. walk'.list = list /\ walk'.page = page /\ walk'.pc = walk.pc
        /\ walk'.unseen = walk.unseen
    BY <1>2, <2>2
  <2> QED
    BY <2>1, <2>4, <2>5 DEF WalkInv
<1> QED
  BY <1>1, <1>2

LEMMA ReadPageKeepsWalk ==
    ASSUME WalkInv, TypeOK, ReadPage
    PROVE  WalkInv'
<1>1. PICK list \in Lists, page \in Nat \ {0} : list = walk.list /\ page = walk.page
  BY DEF WalkInv, ListingTypeOK
<1>2. /\ UNCHANGED <<vars, settled, createdAfter, paidAfter>>
      /\ walk.pc = "walking"
  BY DEF ReadPage
<1>3. /\ Rows(list)' = Rows(list)
      /\ \A b : Before(list, b)' = Before(list, b)
  BY <1>2 DEF Rows, Before, Order, vars
<1> DEFINE unseen == walk.unseen \ Page(list, Skip(page))
<1>4. /\ PageSize \in Nat \ {0}
      /\ Skip(page) \in Nat
      /\ Skip(page + 1) = Skip(page) + PageSize
  <2>1. PICK q \in Nat : page = q + 1
    <3>1. page - 1 \in Nat /\ page = (page - 1) + 1
      BY <1>1
    <3> QED
      BY <3>1
  <2>2. (q + 1) * PageSize = q * PageSize + PageSize
    BY <2>1, ListingAssumption
  <2>3. Skip(page) = q * PageSize /\ Skip(page + 1) = (q + 1) * PageSize
    BY <2>1, ListingAssumption DEF Skip
  <2>4. q * PageSize \in Nat /\ PageSize \in Nat
    BY <2>1, ListingAssumption
  <2> QED
    BY <2>2, <2>3, <2>4, ListingAssumption
<1>5. ASSUME NEW b \in unseen
      PROVE  /\ b \in Rows(list)
             /\ Skip(page + 1) <= Cardinality(Before(list, b))
             /\ Skip(page) + PageSize <= Cardinality(Rows(list))
  <2>1. b \in Rows(list) /\ Skip(page) <= Cardinality(Before(list, b))
    BY <1>1, <1>2, <1>5 DEF WalkInv
  <2>2. ~(Cardinality(Before(list, b)) < Skip(page) + PageSize)
    BY <1>5, <2>1 DEF Page
  <2>3. /\ Cardinality(Rows(list)) \in Nat
        /\ Cardinality(Before(list, b)) \in Nat
        /\ Cardinality(Before(list, b)) <= Cardinality(Rows(list))
    BY RowsAreFinite DEF WalkInv
  <2> HIDE DEF unseen
  <2> QED
    BY <1>4, <2>1, <2>2, <2>3
<1>6. unseen \subseteq Bookings
  BY DEF WalkInv, ListingTypeOK
<1>7. \/ /\ walk' = Walk("ended", list, 1, unseen)
         /\ Cardinality(Rows(list)) < Skip(page) + PageSize
      \/ walk' = Walk("walking", list, page + 1, unseen)
  BY <1>1 DEF ReadPage
<1>8. settled' = settled /\ createdAfter' = createdAfter /\ paidAfter' = paidAfter
  BY <1>2
<1> HIDE DEF unseen
<1>9. CASE /\ walk' = Walk("ended", list, 1, unseen)
           /\ Cardinality(Rows(list)) < Skip(page) + PageSize
  <2>1. Cardinality(Rows(list)) \in Nat
    BY RowsAreFinite DEF WalkInv
  <2>2. unseen = {}
    BY <1>4, <1>5, <1>9, <2>1
  <2> QED
    BY <1>1, <1>8, <1>9, <2>2 DEF WalkInv, ListingTypeOK, NothingIsMissed, Walk
<1>10. CASE walk' = Walk("walking", list, page + 1, unseen)
  <2>1. /\ walk'.pc = "walking" /\ walk'.list = list /\ walk'.page = page + 1
        /\ walk'.unseen = unseen
    BY <1>10 DEF Walk
  <2>2. ListingTypeOK' /\ NothingIsMissed'
    BY <1>1, <1>6, <1>8, <1>10 DEF WalkInv, ListingTypeOK, NothingIsMissed, Walk
  <2>3. \A b \in unseen : b \in Rows(list)' /\ Skip(page + 1) <= Cardinality(Before(list, b)')
    BY <1>3, <1>5
  <2> QED
    BY <2>1, <2>2, <2>3 DEF WalkInv
<1> QED
  BY <1>7, <1>9, <1>10

LEMMA StartWalkKeepsWalk ==
    ASSUME WalkInv, TypeOK, NEW list \in Lists, StartWalk(list)
    PROVE  WalkInv'
<1>1. /\ walk' = Walk("walking", list, 1, Rows(list))
      /\ UNCHANGED <<vars, settled, createdAfter, paidAfter>>
  BY DEF StartWalk
<1>2. /\ Rows(list)' = Rows(list)
      /\ \A b : Before(list, b)' = Before(list, b)
  BY <1>1 DEF Rows, Before, Order, vars
<1>3. /\ Rows(list) \subseteq Bookings
      /\ \A b : Cardinality(Before(list, b)) \in Nat
  BY RowsAreFinite DEF WalkInv
<1>4. Skip(1) = 0
  BY ListingAssumption DEF Skip
<1>5. ListingTypeOK' /\ NothingIsMissed'
  BY <1>1, <1>3 DEF WalkInv, ListingTypeOK, NothingIsMissed, Walk
<1>6. /\ walk'.list = list /\ walk'.page = 1 /\ walk'.unseen = Rows(list)
  BY <1>1 DEF Walk
<1>7. \A b \in Rows(list) : b \in Rows(list)' /\ Skip(1) <= Cardinality(Before(list, b)')
  BY <1>2, <1>3, <1>4
<1> QED
  BY <1>5, <1>6, <1>7 DEF WalkInv

\* Whatever the ledger does, no booking's row is deleted.
AllStay == Rows("ALL") \subseteq RowsOf("ALL", status', settled')

LEMMA NextKeepsAll ==
    ASSUME TypeOK, [Next]_vars
    PROVE  AllStay
<1>1. \A b \in Bookings : status[b] # "NONE" => status'[b] # "NONE"
  BY DEF Next, Take, Lapse, Expire, Cancel, Pay, Confirm, TypeOK, vars
<1> QED
  BY <1>1 DEF AllStay, Rows, RowsOf

LEMMA SettleKeepsWalk ==
    ASSUME WalkInv, TypeOK, TypeOK', AllStay, NEW b \in Bookings, SettleRow(b)
    PROVE  WalkInv'
<1>0. PICK later \in SUBSET (settled \ {b}) :
          paidAfter' = PaidAfterWithout(b) \cup (later \X {b})
                          \cup ({b} \X ((settled \ {b}) \ later))
  BY DEF SettleRow, Later
<1>1. /\ settled' = settled \cup {b}
      /\ paidAfter' = PaidAfterWithout(b) \cup (later \X {b})
                          \cup ({b} \X ((settled \ {b}) \ later))
      /\ createdAfter' = createdAfter
      /\ settled \subseteq Bookings
      /\ createdAfter \subseteq Bookings \X Bookings
      /\ paidAfter \subseteq Bookings \X Bookings
  BY <1>0 DEF SettleRow, WalkInv, ListingTypeOK
<1>2. /\ settled' \subseteq Bookings
      /\ createdAfter' \subseteq Bookings \X Bookings
      /\ paidAfter' \subseteq Bookings \X Bookings
  BY <1>1 DEF PaidAfterWithout
<1>3. CASE walk' = Walk("shaken", walk.list, 1, {}) /\ walk.list # "ALL"
  BY <1>2, <1>3, TablesKeepWalk
<1>4. CASE /\ walk' = walk
           /\ walk.pc = "walking" =>
                 /\ ~(walk.list = "PAID" /\ b \in settled)
                 /\ Rows(walk.list) \subseteq RowsOf(walk.list, status', settled')
  <2>1. ASSUME NEW list \in Lists, walk.pc = "walking", walk.list = list
        PROVE  /\ Rows(list) \subseteq Rows(list)'
               /\ \A y, c \in Rows(list) :
                     <<c, y>> \in Order(list) => <<c, y>> \in Order(list)'
    <3>1. Rows(list) \subseteq Rows(list)'
      BY <1>4, <2>1 DEF Rows
    <3>2. ASSUME list = "PAID", NEW y \in settled, NEW c \in settled,
                 <<c, y>> \in paidAfter
          PROVE  <<c, y>> \in paidAfter'
      BY <1>1, <1>4, <2>1, <3>2 DEF PaidAfterWithout
    <3>3. list = "PAID" => Rows(list) = settled
      BY DEF Rows, RowsOf
    <3> QED
      BY <1>1, <3>1, <3>2, <3>3 DEF Order
  <2> QED
    BY <1>2, <1>4, <2>1, TablesKeepWalk
<1> QED
  BY <1>3, <1>4 DEF SettleRow, Watch, AllStay

LEMMA UnsettleKeepsWalk ==
    ASSUME WalkInv, TypeOK, TypeOK', AllStay, NEW b \in Bookings, UnsettleRow(b)
    PROVE  WalkInv'
<1>1. /\ b \in settled
      /\ settled' = settled \ {b}
      /\ paidAfter' = PaidAfterWithout(b)
      /\ createdAfter' = createdAfter
  BY DEF UnsettleRow
<1>2. /\ settled' \subseteq Bookings
      /\ createdAfter' \subseteq Bookings \X Bookings
      /\ paidAfter' \subseteq Bookings \X Bookings
  BY <1>1 DEF PaidAfterWithout, WalkInv, ListingTypeOK
<1>3. CASE walk' = Walk("shaken", walk.list, 1, {}) /\ walk.list # "ALL"
  BY <1>2, <1>3, TablesKeepWalk
<1>4. CASE /\ walk' = walk
           /\ walk.pc = "walking" =>
                 Rows(walk.list) \subseteq RowsOf(walk.list, status', settled')
  <2>1. ASSUME NEW list \in Lists, walk.pc = "walking", walk.list = list
        PROVE  /\ Rows(list) \subseteq Rows(list)'
               /\ \A y, c \in Rows(list) :
                     <<c, y>> \in Order(list) => <<c, y>> \in Order(list)'
    <3>1. Rows(list) \subseteq Rows(list)'
      BY <1>4, <2>1 DEF Rows
    <3>2. list # "PAID"
      BY <1>1, <3>1 DEF Rows, RowsOf
    <3> QED
      BY <1>1, <3>1, <3>2 DEF Order
  <2> QED
    BY <1>2, <1>4, <2>1, TablesKeepWalk
<1> QED
  BY <1>3, <1>4 DEF UnsettleRow, Watch, AllStay

\* Rows are added at the front, or change where they are.
LEMMA RestateKeepsWalk ==
    ASSUME WalkInv, TypeOK, TypeOK', AllStay, UNCHANGED <<settled, paidAfter>>,
           createdAfter \subseteq createdAfter',
           createdAfter' \subseteq Bookings \X Bookings,
           Watch(FALSE) \/ UNCHANGED <<walk, status>>
    PROVE  WalkInv'
<1>1. /\ settled' \subseteq Bookings
      /\ paidAfter' \subseteq Bookings \X Bookings
  BY DEF WalkInv, ListingTypeOK
<1>2. CASE walk' = Walk("shaken", walk.list, 1, {}) /\ walk.list # "ALL"
  BY <1>1, <1>2, TablesKeepWalk
<1>3. CASE /\ walk' = walk
           /\ walk.pc = "walking" =>
                 Rows(walk.list) \subseteq RowsOf(walk.list, status', settled')
  <2>1. ASSUME NEW list \in Lists, walk.pc = "walking", walk.list = list
        PROVE  /\ Rows(list) \subseteq Rows(list)'
               /\ \A y, c \in Rows(list) :
                     <<c, y>> \in Order(list) => <<c, y>> \in Order(list)'
    BY <1>3, <2>1 DEF Rows, Order
  <2> QED
    BY <1>1, <1>3, <2>1, TablesKeepWalk
<1> QED
  BY <1>2, <1>3 DEF Watch, AllStay, Rows

LEMMA NextKeepsWalk ==
    ASSUME TypeOK, TypeOK', NoticesInv, WalkInv, [DashboardNext]_dashboardVars
    PROVE  WalkInv'
<1>0. AllStay
  BY DashboardFollowsLedger, NextKeepsAll
<1>1. ASSUME NEW b \in Bookings, NEW s \in Slots, MakeBooking(b, s)
      PROVE  WalkInv'
  <2>1. /\ UNCHANGED <<settled, paidAfter>> /\ Watch(FALSE)
        /\ createdAfter' = createdAfter \cup ({b} \X Rows("ALL"))
    BY <1>1 DEF MakeBooking, CreateRow
  <2>2. Rows("ALL") \subseteq Bookings /\ createdAfter \subseteq Bookings \X Bookings
    BY RowsAreFinite DEF WalkInv, ListingTypeOK
  <2>3. createdAfter \subseteq createdAfter' /\ createdAfter' \subseteq Bookings \X Bookings
    BY <2>1, <2>2
  <2> QED
    BY <1>0, <2>1, <2>3, RestateKeepsWalk
<1>2. ASSUME UNCHANGED <<settled, createdAfter, paidAfter>>,
             Watch(FALSE) \/ UNCHANGED <<walk, status>>
      PROVE  WalkInv'
  <2>1. /\ UNCHANGED <<settled, paidAfter>>
        /\ createdAfter \subseteq createdAfter'
        /\ createdAfter' \subseteq Bookings \X Bookings
    BY <1>2 DEF WalkInv, ListingTypeOK
  <2> QED
    BY <1>0, <1>2, <2>1, RestateKeepsWalk
<1>3. ASSUME NEW b \in Bookings, Pay(b), UNCHANGED listingVars
      PROVE  WalkInv'
  BY <1>2, <1>3 DEF Pay, listingVars
<1>4. ASSUME NEW b \in Bookings, UnsettleRow(b)
      PROVE  WalkInv'
  BY <1>0, <1>4, UnsettleKeepsWalk
<1>5. ASSUME NEW some \in SUBSET Bookings, Lapse(some), UNCHANGED listingVars
      PROVE  WalkInv'
  BY <1>2, <1>5 DEF Lapse, listingVars
<1>6. CASE RestateRows
  BY <1>2, <1>6 DEF RestateRows
<1>7. ASSUME NEW d \in Deliveries, ConfirmHeld(d), SettleRow(handler[d].booking)
      PROVE  WalkInv'
  <2>1. PICK b \in Bookings : b = handler[d].booking
    BY <1>7 DEF ConfirmHeld, NoticesInv
  <2>2. SettleRow(b)
    BY <1>7, <2>1
  <2> QED
    BY <1>0, <2>2, SettleKeepsWalk
<1>8. CASE Correspond /\ UNCHANGED listingVars
  <2>1. UNCHANGED vars
    BY <1>8 DEF Correspond, ReadHeld, ConfirmRefused, PushEvent, StoreEvent, ReadForMail,
                MailCustomer, HandlerFails, RequestCancel, MailCancellation, CancelFails
  <2> QED
    BY <1>2, <1>8, <2>1 DEF vars, listingVars
<1>9. CASE Browse
  BY <1>9, ReadPageKeepsWalk, StartWalkKeepsWalk DEF Browse
<1>10. CASE UNCHANGED dashboardVars
  BY <1>2, <1>10 DEF dashboardVars, vars, listingVars
<1> QED
  BY <1>1, <1>3, <1>4, <1>5, <1>6, <1>7, <1>8, <1>9, <1>10 DEF DashboardNext

-----------------------------------------------------------------------------
(* The theorems.                                                            *)

DashboardInv == Guarantees /\ WordInv /\ WalkInv

LEMMA DashboardInvariance == DashboardSpec => []DashboardInv
<1>1. DashboardInit => DashboardInv
  <2>1. DashboardInit => WalkInv
    BY DEF DashboardInit, ListingInit, WalkInv, ListingTypeOK, NothingIsMissed, Walk, Lists
  <2> QED
    BY <2>1, InitHasWord DEF DashboardInv
<1>2. DashboardInv /\ [DashboardNext]_dashboardVars => DashboardInv'
  <2> SUFFICES ASSUME DashboardInv, [DashboardNext]_dashboardVars
               PROVE  DashboardInv'
    OBVIOUS
  <2>1. TypeOK /\ NoticesInv /\ Guarantees /\ WordInv /\ WalkInv
    BY DEF DashboardInv, Guarantees, WordInv
  <2>2. Guarantees'
    BY <2>1, DashboardFollowsLedger, NextKeepsGuarantees
  <2>3. TypeOK'
    BY <2>2 DEF Guarantees
  <2>4. WordInv'
    BY <2>1, NextKeepsWord
  <2>5. WalkInv'
    BY <2>1, <2>3, NextKeepsWalk
  <2> QED
    BY <2>2, <2>4, <2>5 DEF DashboardInv
<1> QED
  BY <1>1, <1>2, PTL DEF DashboardSpec

(* Every variable of the dashboard holds what the schema and the services   *)
(* may put there.                                                           *)
THEOREM DashboardTypeCorrect == DashboardSpec => []DashboardTypeOK
<1>1. DashboardInv => DashboardTypeOK
  BY DEF DashboardInv, Guarantees, WordInv, NoticesInv, WalkInv, DashboardTypeOK
<1> QED
  BY <1>1, DashboardInvariance, PTL

(* The dashboard is a use of the ledger: whatever handleWebhook and cancel  *)
(* do to bookings there, the ledger allows.                                 *)
THEOREM DashboardIsALedger == DashboardSpec => Spec
<1>1. DashboardInit => Init
  BY DEF DashboardInit
<1>2. DashboardInv /\ [DashboardNext]_dashboardVars => [Next]_vars
  BY DashboardFollowsLedger DEF DashboardInv, WordInv
<1> QED
  BY <1>1, <1>2, DashboardInvariance, PTL DEF DashboardSpec, Spec

(* When nobody works on a booking any more and no mail was lost, its        *)
(* customer has been told of what has become of it, in the last mail unless *)
(* a cancellation fell into a handler's work: any number of handlers and of  *)
(* cancellations may be at it.                                              *)
THEOREM LastWordKept == DashboardSpec => []LastWordIsTrue
<1>1. ASSUME DashboardInv
      PROVE  LastWordIsTrue
  <2>1. ASSUME NEW b \in Bookings, Quiet(b), b \notin lost,
               status[b] \in {"CONFIRMED", "CANCELLED"}
        PROVE  /\ Told(b, status[b])
               /\ b \notin raced => Last(inbox[b]).kind = status[b]
    <3>1. Word(b) /\ inbox[b] \in Seq(Mails)
      BY <1>1 DEF DashboardInv, WordInv, NoticesInv, NoticesTypeOK
    <3>2. ~Telling(b) /\ ~Confirming(b)
      BY <2>1 DEF Quiet, Telling, Confirming, Handled
    <3>3. Told(b, status[b])
      BY <2>1, <3>1, <3>2 DEF Word
    <3>4. ASSUME b \notin raced, status[b] = "CONFIRMED"
          PROVE  Last(inbox[b]).kind = status[b]
      <4>1. ~Told(b, "CANCELLED")
        BY <3>1, <3>4 DEF Word
      <4>2. PICK i \in DOMAIN inbox[b] : inbox[b][i].kind = "CONFIRMED"
        BY <3>3, <3>4 DEF Told
      <4>3. Len(inbox[b]) \in DOMAIN inbox[b] /\ inbox[b][Len(inbox[b])] \in Mails
        BY <3>1, <4>2
      <4> QED
        BY <3>4, <4>1, <4>3 DEF Told, Last, Mails
    <3>5. ASSUME b \notin raced, status[b] = "CANCELLED"
          PROVE  Last(inbox[b]).kind = status[b]
      BY <2>1, <3>1, <3>2, <3>5 DEF Word, EndsCancelled
    <3> QED
      BY <2>1, <3>3, <3>4, <3>5
  <2> QED
    BY <2>1 DEF LastWordIsTrue, Told
<1> QED
  BY <1>1, DashboardInvariance, PTL

(* A meeting link that is in the row when everything is done has been sent  *)
(* to the customer, whichever handler stored it.                            *)
THEOREM LinksReachCustomers == DashboardSpec => []LinkReachesCustomer
<1>1. ASSUME DashboardInv
      PROVE  LinkReachesCustomer
  <2>1. ASSUME NEW b \in Bookings, Quiet(b), b \notin lost, b \in linked
        PROVE  \E i \in DOMAIN inbox[b] : inbox[b][i].link
    <3>1. ~Sharing(b)
      BY <2>1 DEF Quiet, Sharing, Handled
    <3> QED
      BY <1>1, <2>1, <3>1 DEF DashboardInv, WordInv, Word
  <2> QED
    BY <2>1, Zenon DEF LinkReachesCustomer
<1> QED
  BY <1>1, DashboardInvariance, PTL

(* A walk to the last page has seen every row that stayed in its list, in   *)
(* its place, and a walk through the unfiltered list is never given up: for  *)
(* any number of rows and any page size.                                    *)
THEOREM WalksAreComplete == DashboardSpec => []NothingIsMissed
<1>1. DashboardInv => NothingIsMissed
  BY DEF DashboardInv, WalkInv
<1> QED
  BY <1>1, DashboardInvariance, PTL
=============================================================================
