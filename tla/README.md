# TLA+ models of blokr-backend

blokr-backend lets customers book a professional's time, pay for it through
Paystack, and lets the professional see it in a Google calendar. This directory
holds TLA+ models of that program, the TLC configurations that check them, and
proofs of what matters most. Every definition is translated from the source;
`PROJECT.json` (`map`) names the lines each one stands for.

## 1. The system

Paths are relative to `src/src/` unless they begin with `prisma/`.

| Component | State it keeps | Operations | Talks to |
|---|---|---|---|
| Bookings (`bookings/bookings.service.ts`) | rows of `bookings` and `paystack_transactions` | createHold, initCheckout, handleWebhook, cancel; reads | slot computation, Paystack, Google Calendar, mail, database |
| Expiry sweep (`bookings/bookings-cleanup.service.ts`) | none | every minute: lapsed HELD rows become EXPIRED | the `bookings` table |
| Paystack webhook controller (`bookings/paystack/`) | none | hands raw body and signature on | Bookings; answers Paystack with 200 or an error status |
| Slot computation (`availability/`) | `availability_rules`, `availability_overrides` | computeAvailableSlots, upsertRules, createOverride, removeOverride | services and bookings, which it reads |
| Services (`services/`) | `services` | create, update, remove (deactivate) | read by createHold and by slot computation |
| Authentication (`auth/`) | `users`, `refresh_tokens` | register, login, googleLogin, refresh, logout, forgotPassword, resetPassword | mail, Google, Google tokens and profiles |
| Google connection (`integrations/`) | `google_calendar_tokens`, flags on the profile | callback, disconnection, createBookingEvent, the token listener | profiles, Google |
| Profiles and payout (`professionals/`) | `professional_profiles` | create, updateMine, updatePayout | Paystack subaccounts, Google token row |
| Exception filter (`common/filters/`) | none | Prisma's P2002 becomes 409, and so on | every controller |
| Mail (`mail/`) | none | confirmation, cancellation, reset link, inquiry; each logs its errors and returns | Resend; reads the booking's row itself |
| Lists (`bookings.service.ts` list, `payments/`) | none | pages of bookings and of successful payments, newest first, by offset | tables that change between two pages |
| Inquiries (`inquiries/`) | `inquiries` | create; list | profiles, mail |
| Seed (`prisma/seed.ts`) | users, profiles, services, rules, two sample bookings | upserts and check-then-create, one await after the other, no transaction | the tables of a server that may be running |
| Health, DTOs, decorators, bootstrap, smoke test | none | | |

The server is a single Node process (or several: nothing in the code assumes
one), and nothing but the database is shared between requests. Hence every
request may be overtaken by any other at each `await`. The mechanisms that the
code relies on are few, and each is checked here:

* the partial unique index `bookings_active_slot_unique` over (professional,
  date, start time) of HELD, PENDING_PAYMENT and CONFIRMED rows;
* lazy expiry: a HELD row whose `heldUntil` is over does not count, whether or
  not the sweep has come by; a conflict with such a row is resolved by one
  conditional update (`reclaimExpiredHold`) and one retry;
* the webhook's early return for a payment already recorded as SUCCESS, and
  Paystack's redelivery for everything that goes wrong before that;
* one-time refresh tokens and reset links;
* writing the Google token row and the profile's flags together.

What is hard, component by component (each hazard, at its line, is in
`PROJECT.json` under `hazards`):

* *Bookings*: concurrent holds; service, price or booking read before an
  `await` and used after it; conflict, reclaim and retry as three calls; webhook
  deliveries that are late, repeated, out of order or concurrent; two checkouts
  of one hold; a crash between the confirmation and the mail; the instant of
  expiry, where `gt` and `lte` must meet.
* *Slot computation*: four reads at four moments; loops with `break` and
  off-by-one limits; bookings in any order.
* *Authentication*: two refreshes with one token, logout against refresh, two
  registrations of one address, a reset link opened twice.
* *Connection and payout*: two rows (or a row and an outside service) that must
  agree and are written by several requests in several steps.
* *Mails and lists*: a mail is made from a row that another request may have
  changed since; confirmation and cancellation are not ordered; a page is cut
  out of a list that has changed since the page before.
* *Directory and seed*: updates and removals of one service that overlap; a seed
  that stopped half-way and is run again beside requests.

What makes each component correct:

* *Bookings*: no start has two owners, and intervals overlap only through races
  that can be named; nobody loses a live hold or a confirmed booking except to the
  professional; whoever is confirmed has paid; every charge Paystack was told we
  know of is on record; holds end, requests are answered, charges are recorded,
  confirmed customers are told.
* *Slot computation*: it offers exactly the starts the arithmetic defines, and
  what it offers was free when it answered.
* *Authentication*: a token and its successor are never both live; sessions end
  for a reason; passwords change through mailed links only.
* *Connection and payout*: flag and token row agree but for races that can be
  named and that the next consent heals, disconnected means disconnected, there is
  one subaccount and it pays out to the account on display.
* *Mails and lists*: the customer's last mail tells what became of the booking;
  the meeting link reaches the customer; who reads all pages misses nothing.
* *Directory and seed*: what is removed stays removed; however often the seed
  stops, running it again completes it and doubles nothing.

## 2. The modules

```
SlotMath ─┬─ Bookings ─┬─ BookingsRefinement ─── MCBookings ─┬─ MCOverlaps (with Overlaps)
          │            │     └─ INSTANCE BookingLedger        └─ MCReceipts (with Receipts)
          │            ├─ Overlaps ─── BookingsProofs ─┬─ BookingsPaymentProofs
          │            └─ Receipts                     └─ BookingsRefinementProofs
          │                                                 (with BookingsRefinement)
          └─ Availability ─── MCAvailability
                 └─ AvailabilityProofs
Sessions ─── MCSessions         Profiles ─── MCProfiles
   └─ SessionsProofs               └─ ProfilesProofs

BookingLedger ─┬─ Notices ─┬─ Dashboard ─── MCDashboard
               └─ Listing ─┘      └─ DashboardProofs
Directory ─── Seed ─── MCSeed
               └─ DirectoryProofs
```

**SlotMath** is the arithmetic of `availability/slot-math.ts` and of the loop of
`computeAvailableSlots`, written as sets: `CandidateStarts` (the two nested
loops), `TooSoon` (today's fifteen minutes of lead), `Collides` and `Blocking`
(the comparison with bookings), `AvailableStarts`. Times are minutes; the code's
"HH:mm" strings are compared as strings only by the unique index and in the
search for the requested slot, and theorem `RoundTrip` justifies using minutes
there.

**Bookings** is one professional's future day: every request of
`BookingsService`, the sweep, the webhook, and of PostgreSQL, Paystack, Google
and the mail server what they rely on.

| State | Code |
|---|---|
| `service` | rows of `services`: what a booking depends on |
| `hold[h]` | a `createHold` call: where it stands, and its local variables |
| `booking[h]` | the row that request `h` inserts |
| `checkout[k]`, `txn[k]` | an `initCheckout` call and the payment row it makes (of `paidAt`, whether it is set) |
| `charge[k]` | what Paystack knows of the payment |
| `delivery[d]`, `acked` | webhook handlers in flight; events answered with 200 |
| `pushed`, `mailed` | calendar events created, confirmations Resend has taken, counted |

An action is what a request does between two awaits: it reads or writes the
database once. `createHold` is `CreateHold` (service read, request validated,
end time and amount fixed), `CheckSlot`, `InsertHold` or one of the conflicts
(`SlotConflict`: the partial index; `ReferenceConflict`: two random references
collide, which runs the same `catch`), and `Reclaim`. `initCheckout` is
`InitCheckout` and `OpenCheckout`. `handleWebhook` is `ReceiveWebhook` (payment
row), `ReadBooking` (Prisma reads an `include`d row with a query of its own),
then `Abandon` or `Confirm` or `ConfirmConflict`, `PushCalendar`, `LinkEvent`,
`SendConfirmation`; for `charge.failed`, `FailTxn` and `FailBooking`. `Cancel`,
`SweepExpiredHolds` and `UpdateService` are single actions. `FailHold`,
`FailCheckout` and `FailDelivery` cut a request short: the process died, or the
database or Paystack did not answer.

**Overlaps** and **Receipts** add history to Bookings and nothing else: their steps
are those of Bookings' `Next` together with a record of what it has done, which no
guard reads.

| State | History it records |
|---|---|
| `beside[h]` | the requests that had passed the slot check, and had not inserted yet, when `h` passed it: none sees the other's row |
| `stretched` | requests whose end time, fixed by `createHold`, is later than that of the slot the check has found: the service was shortened in between |
| `revived` | bookings confirmed when their hold had lapsed or been expired or cancelled |
| `dropped` | bookings whose handler was cut short after the confirmation, or whose mail Resend refused |

Overlaps says what the unique index does not: when two bookings can overlap in time.
Receipts says which customers may be left without a confirmation.

**BookingLedger** is what all this promises, without requests or handlers:
bookings take free slots, lapse, expire once lapsed, are cancelled, charged,
and confirmed if paid for while the slot is nobody else's. It does *not*
promise that a confirmed booking had not lapsed, because the code does not
(finding `LateConfirm`). **BookingsRefinement** gives the refinement mapping.

**Availability** is one call of `computeAvailableSlots` as it runs: four reads,
each at its own moment (`ReadService`, `ReadOverride`, `ReadRule`,
`ReadBookings`), then the loops as sequences, with bookings in any order and the
inner loop's `break`; against it, edits of service, rule and override, bookings
that come and go, and the clock. A day without a rule behaves as one whose rule
is disabled. `timeRanges` of an override are stored by the code and never read.

**Sessions** is `AuthService`: accounts by e-mail address, refresh tokens by the
request that issued them, reset links by the request that mailed them.

**Profiles** is one professional's profile row with the Google token row and
the Paystack subaccount: `ProfessionalsService.create` and `updatePayout`, the
Google callback, the calendar half of `googleLogin` (the session half is in
Sessions), disconnection, and calendar pushes with the listener that stores
refreshed tokens. Tokens are represented by the Google account they act for. The
profile may be the seed's (`SeededProfile`), which says connected without a token.
`torn` and `overtaken` are history: the last consent or disconnection ran into a
request that was about to part flag and token row, or a request did so by being cut
short; an update of the payout account reached Paystack while another one, of the
same subaccount, was on its way to the record, or was cut short on that way.

**Notices**, **Listing** and **Dashboard** are built on the ledger instead of on
Bookings. That is what the refinement is for: whatever they promise about
bookings that move as the ledger allows holds of the bookings of the code, and
the requests of Notices can be interleaved with a client's pages without
dragging all of `createHold` along. Dashboard joins the steps: a confirmation of
the ledger is a step of a handler (`ConfirmHeld`) and of the table
(`SettleRow`), a cancellation one of `cancel` (`CancelRow`).

| State | Code |
|---|---|
| `status`, `slot`, `paid`, `lapsed` | the ledger: the `bookings` rows and what Paystack knows |
| `handler[d]`, `cancelling[c]` | a `handleWebhook` from `stillHeld` to its last mail; a `cancel` |
| `linked` | rows with a `meetingLink` |
| `inbox[b]`, `lost`, `raced` | the mails the customer got; history for the properties |
| `settled` | bookings with a payment in SUCCESS |
| `createdAfter`, `paidAfter` | the order of the rows by `createdAt`, by `paidAt` |
| `walk` | a client that asks for page 1, 2, ... until one is not full; "shaken" once its list has lost or moved a row |

**Directory** is who can be booked for what: `ProfessionalsService.create` as far
as usernames go, `ServicesService.create`, `update` and `remove`, and
`InquiriesService.create`. Every request is a read (`CreateProfile`,
`CreateService`, `UpdateService`, `RemoveService`, `CreateInquiry`) and, an await
later, a write (`InsertProfile`, `InsertService`, `WriteService`,
`InsertInquiry`). **Seed** extends it by `prisma/seed.ts`, one action per
statement: `SeedUser` and `SeedProfile` (upserts), `FindService` and
`SeedService` (check, then create), `SeedRule`, `FindServices`, `SeedBooking`,
`SeedPayment`; `SeedExits` stops it anywhere.

**MC...** modules give the constants of the TLC runs, **...Proofs** modules hold
the proofs. Definitions whose
comment begins with "Mutant" are plausible wrong versions of a definition below
them; no action uses them, and `PROJECT.json` (`mutants`) says which property
catches each.

### Modelling decisions

* *Time* is relative. A row carries what is left until `heldUntil`
  (`expiresAt`), which the clock counts down to -1; 0 is the instant of expiry
  itself, so that `gt`, `lte` and `lt` can be told apart.
* *One statement is atomic.* `updateMany ... where` is one action on the rows it
  finds. PostgreSQL runs at READ COMMITTED, so the transaction of `attemptHold`
  is *not* atomic: its check and its insert are two actions. Array-style
  transactions of two statements by primary key (`handleWebhook`,
  `handleGoogleCallback`, `disconnectGoogle`) are one action: their row locks
  are held to the commit and no statement in them depends on an earlier read.
* *The slot query is one read inside Bookings* (`SlotIsFree`), on a future day with
  constant rule and no override; Availability is where its four reads are taken
  apart. There the bookings' read and the answer are one step, so `OfferIsFree`
  speaks of the moment the bookings are read.
* *Ownership checks* (a professional acting on her own rows) read only, and are
  left out. Users, profiles, services and bookings are never deleted by the code.
* *PENDING_PAYMENT* is written by no code. The index and the slot loop know it,
  so the models' definitions do.
* *Quantities*: `minVariable` and `maxVariable` are what the code compares with,
  that is, after its defaults of 1 and 10.
* *Mail and calendar* never throw at their caller: both services catch and log. But
  they may fail: `SendConfirmation` leaves the customer unmailed and still answers
  200, `PushCalendar` may create no event, or one whose answer is lost, so that no
  link is stored.
* *An unknown payment reference* is answered 200 by the webhook without doing
  anything; Paystack names only payments whose row is there (`Charge` needs it), so
  the models have no such delivery.
* *Lists order rows by a time taken before the commit* (`paidAt`): `SettleRow` puts
  a row in front of all others or behind some that were paid for at a later time
  (`Later`). `createdAt` is given at the insert, and a new row is the first.
* *The seed's `includes`*: whether a service's name contains the word the script
  looks for is a constant (`Mentions`), and in the run one name contains both words.
* *JWTs*: a refresh token's own expiry and its row's `expiresAt` are set
  together and are one number here. Access tokens are stateless.
* `torn` and `overtaken` in Profiles, `beside`, `stretched` and `revived` in
  Overlaps, `dropped` in Receipts, `lost` and `raced` in Notices,
  `unseen` in Listing, and the fields `by` and `renamed` of a service in Directory
  are history: properties read them, the code's decisions do not. (`lost` also
  empties an inbox nobody looks at any more, which only saves states.)

## 3. The runs

All runs finish; deadlock is not checked because every instance has finitely
many requests and a day on which everybody is done is a proper end.

| Run | Instance | What it shows |
|---|---|---|
| Overlaps | 2 holds for 09:00, 09:30 and 10:00 of 09:00 to 10:30, for 2 units or 3, 1 checkout, 1 handler, a service of an hour that becomes one of half an hour with a buffer and twice the price, or is removed, and back, reference collisions, 1 failure | whatever inserts, conflicts, reclaims, retries, sweeps, cancellations and confirmations interleave: types, `OneActivePerSlot`; `OverlapsAreRaces`: slots on different starts overlap, and do so only by a race between check and insert, a stale end time, or a late confirmation; `FitsTheDay`, with the end; `AmountIsAgreed` |
| Payments | 2 holds of one slot, 2 checkouts, 2 handlers, charge.success, reference collisions, 1 failure | `SuccessHoldsItsSlot`, `ClosedStaysClosed`, `HoldsAreHonoured`, `ServedIsOver` and the refinement `ImplementsLedger` |
| Failures | 2 holds, 1 checkout, 2 handlers, both events, 1 failure | `ConfirmedIsPaid`, `StatusIsBacked` (payment and booking row), `AckedChargeIsRecorded` and `RecordedStaysRecorded` when charge.success and charge.failed arrive in any order, repeatedly and concurrently |
| Liveness | 2 holds, 2 checkouts, 1 handler, 1 failure, under fairness | `HoldsAreReleased`, `RequestsAreAnswered`, `ChargesAreRecorded`, `ConfirmedIsMailed`; with one handler at a time `ConfirmedOncePerHandler` is "at most once", though two checkouts are paid |
| Sessions | 4 requests, 2 addresses, 2 passwords, lives of 1 tick, 1 failure | `RotationRetiresToken`, `SessionsEndForAReason`, `RetiredStaysRetired`, `PasswordNeedsMailedLink`, `SpentStaysSpent` |
| Profiles | 5 requests, 2 Google accounts, 2 bank accounts, a profile of the seed's or none, 1 failure | `ConnectionAgrees`, `PayoutAgrees`, `DisconnectedStaysSo`, `SubaccountIsReused` |
| Availability | 3 service rows, 4 lists of ranges, 2 bookings, 1 edit, 3 instants, today or not | `LoopsAreExact`, `OfferIsFree` |
| Dashboard | 2 bookings of one slot, 2 handlers, 1 cancellation, mails lost for at most 1 booking (`MaxLost`), pages of 1 row | `LastWordIsTrue`, `LinkReachesCustomer`; `NothingIsMissed`: a walk that comes to its end has seen every row, and only in filtered lists and payments can a row that leaves shake it |
| Directory | 2 accounts, 2 usernames, 2 names of services, one containing the other, 4 services (`MaxServices`), 2 requests, 2 runs of the seed (`MaxRuns`) for 2 professionals with 3 services and 2 sample bookings | `SeedIsIdempotent`, `RemovedStaysRemoved` |
| Overlap, LateConfirm, PaidAbandoned | see below | the three findings |

Why the bounds are enough to be interesting:

* A conflict involves the row that has the slot and the request that runs into it;
  its one retry fails again if a reference collides, so that two holds reach every
  answer of createHold. (In the server a third request may be what the retry meets; to
  the request it makes no difference, and the theorems are about any number.) Reclaim
  needs a lapsed hold that the sweep has not seen; a hold of one tick is live, expiring
  and lapsed in turn.
* Slots that overlap without being equal need a service longer than the grid step, a
  stale end a service that is shortened, and a race two requests, since an overlap
  is one of two bookings: run Overlaps. Dropping any of the three excuses of
  `OverlapsAreRaces`, or of the exceptions of `ConnectionAgrees` and `PayoutAgrees`,
  makes TLC find a counterexample in these instances, so each of them happens.
* A confirmation can meet its unique index only if a second booking takes the
  slot in between, and can be overtaken only by a second handler: two of each.
  Two checkouts of one booking are needed for double payment: two handlers may
  record both, a single one must not, which is why Liveness has two checkouts and
  one handler.
* Once a request ends nothing of it remains but its rows, so a third handler
  finds no state that the second would not have found.
* In Sessions four requests are enough for login, two racing refreshes and a
  logout, and for account, link, and two uses of the link; accounts may exist
  at the start, so registration need not take a request. In Profiles five are
  enough for create, connect, push, disconnect and one more that races.
* In Dashboard two handlers of one booking are needed for a link that is stored
  over another, and a second booking for a page that is pushed back; in one slot
  the two also compete, so that a confirmation may be refused. A page of one row
  makes every boundary between rows one between pages.
* In Directory two requests are an update and a removal of one service, or two
  profiles for one username; the second run of the seed is the one that finds
  what the first has left. Of the seven days two are enough, since each is
  upserted in the same way.
* One failure per behaviour: a second one meets the rows the first one left, and
  no request looks at another request, only at rows.

### Fairness

`FairSpec` assumes only what the environment of the code provides: a request
that has been accepted goes on (`WF` for steps of `createHold`, `initCheckout`
and `handleWebhook`: the event loop is fair, and a failure is an action of its
own), the cron job fires again and again, the clock does not stop, and Paystack
repeats an event until it is answered 200 (`SF`: a handler may be busy
whenever one looks, so being free is not permanent). Customers owe nothing: no
fairness on `CreateHold`, `InitCheckout`, `Charge`, `Cancel`. At most
`MaxFailures` requests are cut short; without such a bound redelivery could fail
for ever and no code could record the payment.

### Findings

Three sentences in the repository that the code does not live up to; each has a
run whose counterexample is a few steps long.

* **Overlap** (`NoDoubleBooking`). README.md:59-62 calls the unique index "the
  correctness guarantee against double-booking". It compares start times. With
  an hour-long service on the half-hour grid, two concurrent holds at 09:00 and
  09:30 both pass the slot check and are both inserted. Theorem
  `OverlapsNeedARace` names this race and the two other ways in which bookings may
  come to overlap.
* **LateConfirm** (`StaleSlotIsNotConfirmed`). bookings.service.ts:279-280 says
  that a stale slot is not confirmed. The check is made on a booking read
  earlier; the update that follows is by id alone. A hold that lapses or is swept
  in between is confirmed.
* **PaidAbandoned** (`SuccessIsNotAbandoned`). Of two concurrent deliveries of
  one charge.success, the second finds the booking CONFIRMED, hence "not held",
  and marks the payment that confirmed it as ABANDONED, to be refunded.

Two more are seen in the model without a run of their own.
paystack-webhook.controller.ts:22 says "Always acknowledges receipt, regardless of
processing outcome", but a confirmation that runs into the unique index
(`ConfirmConflict`) throws P2002, which the filter turns into 409. Redelivery then
finds the booking no longer held, and the payment ends up flagged
(`ChargesAreRecorded`). And bookings.service.ts:117-119 says that a conflict is either
a genuinely taken slot or a stale hold that is reclaimed; but if the sweep, or a
cancellation, gets to the stale hold between the conflict and `Reclaim`, there is
nothing left to reclaim, and the customer is told that the slot was just taken though
it is free.

Nor does the program promise what the properties excuse by name: `ConnectionAgrees`,
`PayoutAgrees`, `LastWordIsTrue`, `SessionsEndForAReason` and `ConfirmedIsMailed` list
the races and crashes after which two things stay apart, and show that there are no
others.

## 4. The proofs

The theorems hold for any number of requests, handlers, services, starts,
accounts, rows and failures, under the assumptions named in the modules, which
TLC evaluates in every run:

* `NoneAssumption`, `ConfigsAssumption`, `DayAssumption`, `BoundsAssumption` and
  their like in the other modules: services have a positive duration, times and
  prices are natural numbers, a hold lasts at least a tick, "nobody" is nobody.
* `DeliveriesAssumption`, `ListingAssumption`: handlers, and the rows of a list,
  are finitely many. Only what counts them uses it (`ConfirmedOncePerHandler`,
  pages). The page size is positive, as the DTO demands.
* `SeedAssumption`: the demo data has the shape of the arrays in
  `prisma/seed.ts`; nobody is without services, and the sample bookings are of
  services of the first professional.

No theorem has a hypothesis beyond these.

Safety alone is hardly ever inductive here, for one reason: a request writes what
it has read some awaits earlier. So nearly every proof has an inductive invariant
that says what a request may rely on although others have run meanwhile.

### Bookings

* **BookingsProofs.** `Invariance`: `IInv == TypeOK /\ Sound` is inductive. The
  safety invariants alone are not: `Confirm` puts a row into the index that it has
  not read, `SendConfirmation` acknowledges a payment recorded three steps ago.
  `Sound` adds what ties rows to requests: `RowsFollow` (a row exists exactly when
  its request has got the hold), `PaymentsFollow` (a payment belongs to an
  existing booking; nothing is charged before its row is there), `HandlersFollow`
  (a handler works on an event Paystack really has, and beyond the confirmation
  the payment is recorded). The proof has one lemma per group of handlers, one
  step per action and under it one per conjunct. Two observations carry it: a
  payment only moves to statuses that are backed by an event, and a row leaves
  CONFIRMED only for CANCELLED (`RowsMayClose`, `HandlersMayRecord`).
  Consequences: `TypeCorrect`, `SlotsAreExclusive`, `ConfirmationsArePaid`,
  `PaidSlotsAreKept`, `StatusesAreBacked`; and, as an action property of steps from
  `IInv`, `HoldsHonoured`.

  A second invariant, `OverlapInv`, is about time, and speaks of requests rather
  than of rows, because what the slot check has found must survive until the row is
  there and binds. `RowsAsAsked`: a row has the times of its request. `Fits`: the slot
  of a request that has passed the check lies in a range of the day. `KeptApart`: two
  requests that have kept their slots (`KeepsSlot`: on the way to the insert, or with a row
  that binds and was never revived) have them apart (`Apart`), or are `Excused`: they
  raced, or one is stretched. The one step that has to establish it is `CheckSlot`:
  whoever had passed the check before and has no row yet is in `beside`; whoever has a
  row that binds was seen (`CheckFinds`, from `Collides`); whoever passes the check
  later sees this one or is beside it. Every other step only makes requests lose their
  slots (`KeptWasKept`). Hence `OverlapsNeedARace` and `BookingsFitTheDay`, for
  services of any duration and buffer, edited at any moment.
* **BookingsPaymentProofs.** What deliveries that race, repeat and crash can do to a
  payment. `ClosedForGood`: a row that is closed, and that no handler is about to
  confirm, stays closed (a handler gets to "confirm" only through a row it has read
  as live). `AmountsAgreed`, from `AmountsFollow`: a checkout carries its booking's
  amount, and no row changes it. `ServedForGood` and `RecordedForGood` are about
  what comes too late: a handler goes past its reading of the booking only if that
  is live, and past its reading of the payment only if that is not SUCCESS, so once
  all who read earlier are done (`Tells`, `Answers`) nothing grows and nothing is
  overwritten, but by a charge.failed. `NoChargeIsLost`, from `ReceiptInv`: a
  payment that is SUCCESS, or that a handler past the confirmation works on, has its
  `paidAt`, which nothing clears; and only such a handler, one that abandons the
  payment, or one that finds it SUCCESS acknowledges. `ConfirmedOnce`: calendar events, mails and recorded payments of a
  booking are counted against handlers. Only a handler that read the payment before
  it was recorded goes on, so those still to push, mail or record, *plus* what they
  have done, are never more than the handlers there are (`Counted`).
* **BookingsRefinementProofs.** `Refinement`: `Spec => ImplementsLedger`. From
  `IInv` and one more fact (`StartsAreAsked`: a request's start is one a customer
  asked for, hence a slot of the ledger) every step is one of the ledger's or
  leaves what the rows show alone: a granted hold is `Take`, sweep and reclaim are
  `Expire`, the clock is `Lapse`, a successful charge is `Pay`, the webhook's
  transaction is `Confirm`; the rest stutters.
* **AvailabilityProofs.** `RoundTrip` (minutes and HH:mm are inverse to each
  other) and, with what the query has read so far (`QueryInv`),
  `AvailabilityTypeCorrect`.

### Sessions and profiles

* **SessionsProofs.** `Invariance` of `IInv`, which adds to the types and to
  `RotationRetiresToken` what a request may rely on across its awaits:
  `RequestsFollow` (a token row is made last, so a revoked token is never one that is
  still to be issued; who changes a password holds a link that was mailed to that
  address) and `LinksFollow` (a stored link names a request for that very address).
  Consequences: `TypeCorrect`, `TokensRotate`; `SessionsEndByThemselves`, since
  a request that has ended a session remains as the reason (`Ends`, `ReasonStays`);
  and the action properties `PasswordsNeedLinks`, `TokensRetire` and, with the further
  invariant `UsedLinksAreGone`, `LinksAreSpent`.
* **ProfilesProofs.** `Invariance` of `IInv`: the types; `FollowsOne`, what a request
  in flight knows of the rows whoever else is at work; `RecordsFollow`, that a token
  row names its account and a code on record its subaccount; and two parts about
  agreement. `Connection`: while no race has parted the two, a profile that says
  connected has its token row, a token row has its flag *or a login on its way to
  set it*, and a profile about to be inserted knows of the token row. `Payout`: while
  no update has overtaken another, every one on its way to the record tells it what
  Paystack has. The intermediate states are what makes the properties themselves not
  inductive. Hence `OnlyRacesPartFlagAndToken` and `OnlyRacesPartProfileAndPaystack`,
  for any number of requests in flight; and `TypesAreKept`, `DisconnectedUntilConsent`,
  `OneSubaccount`.

### Mails, lists, directory and seed

* **DashboardProofs.** `LedgerIsSound` is what everything that implements the
  ledger inherits; `DashboardIsALedger` shows that the handlers and cancellations
  of Notices use it as allowed. The last mail is true because of an invariant about
  who is still going to say what (`Word`): a confirmed booking's customer has been
  told, or a handler is yet to tell her (`Confirming`); a cancelled one's, or a
  cancellation is (`Telling`); a stored link has been sent or is still to be
  (`Sharing`). When the booking is quiet the second halves fall away: `LastWordKept`
  and `LinksReachCustomers`. `WalksAreComplete`: a row the client has not seen yet
  is still in the list, and no fewer rows come before it than the next page skips
  (`WalkInv`). New rows come in front and make them more, so a row can be seen
  twice but not be missed; when a page is not full, nothing is left behind it.
  Nothing leaves the unfiltered list or moves in it, so its walk is never given up.
* **DirectoryProofs.** `SeedTypeCorrect` and `RemovalIsRespected`, for any requests
  and any demo data. What a request writes was read an await earlier, so types alone
  are not inductive: `Remembered` says what it may still rely on (a profile, the
  name of a service), and `OnItsWay` that the seed's position is within its data
  and that it comes to a payment only after the booking. `RerunsAreIdempotent`
  needs two more facts: no two rows are seeded under one name (`SeedsOnce`), and
  everything before the seed's position is in place or has been edited by its owner
  (`Progress`). Between check and create no request can make a *seeded* row, and
  requests never take away what the seed has found (`Grows`).

### What stays with the model checker

* *Liveness*: `HoldsAreReleased`, `RequestsAreAnswered`, `ChargesAreRecorded`,
  `ConfirmedIsMailed`. The prover handles neither `ENABLED` nor fairness.
* *`LoopsAreExact`* and *`OfferIsFree`*: what the loops of Availability compute is
  defined by recursion over sequences of ranges and bookings, and what they compute
  for every input is induction over data, which the provers cannot do here.

Every other property of a passing run is stated by a theorem.

## 5. Not modelled

* *Health*: a query of the database. The reads `getByReference`, `findOneOwned`,
  `listMine`, `listPublicByUsername`, `getPublicByUsername`,
  `isUsernameAvailable`: one query each, nothing kept.
* *The total of a list*, which a second query counts at another moment, and rows
  with equal timestamps, whose order the database may choose anew for each page.
* *The professional's mails* (new booking, inquiry): sent last, errors logged.
* *DTO validation, guards, decorators, bootstrap, Swagger*: they reject requests
  before anything changes. The models' inputs are those that pass validation.
* *Money* (`common/constants/money.ts`): naira are integers times 100 on the way in
  and divided by 100 on the way out; amounts here are kobo.
* *Texts of mails and messages, WhatsApp flags, descriptive fields of profiles*:
  nothing computes with them.
* *The smoke test*: a script that calls a running server.
* *Two seeds at once*: the script is started by hand. Its check-then-create of
  services would then create them twice.
* *Several professionals*: rows of different professionals and dates never meet
  in an index or a query, so one of each is enough.

## 6. Plan

Done: SlotMath, Bookings with its ledger, sweep and webhook; Sessions, Profiles,
Availability; mails, lists, directory and seed; every safety invariant and action
property of the passing runs but the two about loops; the refinement of Bookings.

Next, in this order:

1. *One more refinement.* A ledger for sessions (accounts, live tokens, spent
   links) that Sessions implements.
2. *Extend the models.* Rule and override edits inside Bookings' day (a hold taken
   on a day that is being closed), with `Fits` over the ranges as they were.
3. *The conditional half of `OfferIsFree`*: given that the loops compute the set
   form, an offer was free when the bookings were read, as a theorem.
