------------------------------- MODULE Profiles -------------------------------
(***************************************************************************)
(* The profile of one professional, and what it says of two outside         *)
(* services: the connected Google calendar (IntegrationsService,            *)
(* GoogleCalendarService, the calendar part of AuthService.googleLogin) and *)
(* the bank account that Paystack settles to                                *)
(* (ProfessionalsService.updatePayout, PaystackService).                    *)
(*                                                                          *)
(* As in Bookings, what a request does between two awaits is one action; a  *)
(* $transaction of two statements is one action as well.                    *)
(***************************************************************************)
EXTENDS Integers

CONSTANTS
    Requests,       \* requests; each also names the subaccount it creates
    GoogleAccounts,
    Own,            \* the Google account of the user's own e-mail address
    BankAccounts,
    None,           \* no account, no subaccount
    MaxFailures     \* bound: requests cut short by a crash or an error

ASSUME ProfilesAssumption ==
    /\ Own \in GoogleAccounts
    /\ None \notin Requests \cup GoogleAccounts \cup BankAccounts
    /\ MaxFailures \in Nat

VARIABLES
    profile,    \* the professional_profiles row
    grant,      \* the google_calendar_tokens row
    settles,    \* at Paystack: the bank account of every subaccount
    request,    \* requests in flight
    torn,       \* history: a race has parted the profile from the token row
    overtaken,  \* history: a race has parted it from Paystack
    failures    \* requests cut short so far

history == <<torn, overtaken>>
vars == <<profile, grant, settles, request, history, failures>>

Profile ==
    [exists : BOOLEAN, connected : BOOLEAN,
     googleEmail : GoogleAccounts \cup {None},
     code : Requests \cup {None}, bank : BankAccounts \cup {None}]

NoProfile ==
    [exists |-> FALSE, connected |-> FALSE, googleEmail |-> None,
     code |-> None, bank |-> None]

\* What the seed script writes: connected, without any token.
SeededProfile(account, bank) ==
    [NoProfile EXCEPT !.exists = TRUE, !.connected = TRUE,
                      !.googleEmail = account, !.bank = bank]

\* access and refresh: the Google account these tokens act for.
Grant ==
    [exists : BOOLEAN, googleEmail : GoogleAccounts \cup {None},
     access : GoogleAccounts \cup {None}, refresh : GoogleAccounts \cup {None}]

NoGrant ==
    [exists |-> FALSE, googleEmail |-> None, access |-> None, refresh |-> None]

Request ==
    [kind : {"none", "create", "callback", "login", "disconnect", "push", "payout"},
     pc : {"new", "readGrant", "inserting", "readProfile", "flagging",
           "pushing", "settling", "storing", "done", "rejected", "failed"},
     account : GoogleAccounts \cup {None},
     code : Requests \cup {None}, bank : BankAccounts \cup {None}]

NewRequest ==
    [kind |-> "none", pc |-> "new", account |-> None, code |-> None, bank |-> None]

Init ==
    /\ \/ profile = NoProfile
       \/ \E account \in GoogleAccounts, bank \in BankAccounts :
             profile = SeededProfile(account, bank)
    /\ torn = profile.exists
    /\ overtaken = FALSE
    /\ grant = NoGrant
    /\ settles = [c \in Requests |-> None]
    /\ request = [r \in Requests |-> NewRequest]
    /\ failures = 0

-----------------------------------------------------------------------------
InFlight(r) == request[r].pc \notin {"new", "done", "rejected", "failed"}

\* A request comes in, and does what it does before its second await.
Begin(r, kind, pc, account, code, bank) ==
    /\ request[r].pc = "new"
    /\ request' = [request EXCEPT ![r] =
           [kind |-> kind, pc |-> pc, account |-> account, code |-> code, bank |-> bank]]
    /\ UNCHANGED <<overtaken, failures>>

GoTo(r, pc) ==
    /\ request' = [request EXCEPT ![r].pc = pc]
    /\ UNCHANGED <<history, failures>>

\* A profile is about to be inserted that knows of no token row.
UnawareInsert ==
    ~profile.exists /\ \E q \in Requests :
        request[q].pc = "inserting" /\ request[q].account = None

\* A login has stored its tokens, and has yet to see to the flag.
FlagOnItsWay == \E q \in Requests : request[q].pc \in {"readProfile", "flagging"}

-----------------------------------------------------------------------------
(* ProfessionalsService.create.                                             *)

CreateProfile(r) ==
    /\ Begin(r, "create", IF profile.exists THEN "rejected" ELSE "readGrant",
             None, None, None)
    /\ UNCHANGED <<profile, grant, settles, torn>>

ReadGrant(r) ==
    /\ request[r].pc = "readGrant"
    /\ request' = [request EXCEPT ![r] = [@ EXCEPT
           !.pc = "inserting", !.account = grant.googleEmail]]
    /\ UNCHANGED <<profile, grant, settles, history, failures>>

\* Mutant: the grant that was read is not looked at.
InsertPlainProfile(r) ==
    /\ request[r].pc = "inserting"
    /\ ~profile.exists
    /\ profile' = [NoProfile EXCEPT !.exists = TRUE]
    /\ GoTo(r, "done")
    /\ UNCHANGED <<grant, settles>>

InsertProfile(r) ==
    /\ request[r].pc = "inserting"
    /\ ~profile.exists
    /\ profile' = [NoProfile EXCEPT
           !.exists = TRUE,
           !.connected = request[r].account # None,
           !.googleEmail = request[r].account]
    /\ GoTo(r, "done")
    /\ UNCHANGED <<grant, settles>>

\* P2002: the account has a profile by now, or the username is somebody's.
InsertConflict(r) ==
    /\ request[r].pc = "inserting"
    /\ GoTo(r, "rejected")
    /\ UNCHANGED <<profile, grant, settles>>

-----------------------------------------------------------------------------
(* The Google calendar.                                                     *)

\* handleGoogleCallback: token row and flag are written in one transaction;
\* there may be no profile yet to carry the flag.
GoogleCallback(r, account, refreshGiven) ==
    /\ Begin(r, "callback", "done", account, None, None)
    /\ torn' = UnawareInsert
    /\ grant' = [exists |-> TRUE, googleEmail |-> account, access |-> account,
                 refresh |-> IF refreshGiven THEN account ELSE None]
    /\ profile' = IF profile.exists
                  THEN [profile EXCEPT !.connected = TRUE, !.googleEmail = account]
                  ELSE profile
    /\ UNCHANGED settles

\* googleLogin with the calendar scope granted: Google gives a refresh token
\* or none, and an old one is kept.  Without the scope nothing happens here.
LoginWithCalendar(r, refreshGiven) ==
    /\ Begin(r, "login", "readProfile", Own, None, None)
    /\ torn' = UnawareInsert
    /\ grant' = [exists |-> TRUE, googleEmail |-> Own, access |-> Own,
                 refresh |-> IF refreshGiven THEN Own ELSE grant.refresh]
    /\ UNCHANGED <<profile, settles>>

ReadProfile(r) ==
    /\ request[r].pc = "readProfile"
    /\ GoTo(r, IF profile.exists /\ ~profile.connected THEN "flagging" ELSE "done")
    /\ UNCHANGED <<profile, grant, settles>>

FlagConnected(r) ==
    /\ request[r].pc = "flagging"
    /\ profile' = [profile EXCEPT !.connected = TRUE, !.googleEmail = Own]
    /\ GoTo(r, "done")
    /\ UNCHANGED <<grant, settles>>

\* disconnectGoogle: nothing without a profile, else both in one transaction.
DisconnectGoogle(r) ==
    /\ Begin(r, "disconnect", IF profile.exists THEN "done" ELSE "rejected",
             None, None, None)
    /\ profile' = [profile EXCEPT !.connected = FALSE, !.googleEmail = None]
    /\ grant' = IF profile.exists THEN NoGrant ELSE grant
    /\ torn' = IF profile.exists THEN FlagOnItsWay ELSE torn
    /\ UNCHANGED settles

\* createBookingEvent reads the token row and turns to Google.
PushEvent(r) ==
    /\ Begin(r, "push", IF grant.exists THEN "pushing" ELSE "done",
             grant.refresh, None, None)
    /\ UNCHANGED <<profile, grant, settles, torn>>

\* Mutant: the refreshed token is upserted.
PersistOrInsertRefreshed(r, rotated) ==
    /\ request[r].pc = "pushing"
    /\ request[r].account # None
    /\ grant' = [grant EXCEPT
           !.exists = TRUE,
           !.access = request[r].account,
           !.refresh = IF rotated THEN request[r].account ELSE @]
    /\ GoTo(r, "done")
    /\ UNCHANGED <<profile, settles>>

\* The access token had expired: the listener stores the one Google has given
\* for the refresh token read before, and a new refresh token if there is one,
\* in whatever row the user has by now.
PersistRefreshed(r, rotated) ==
    /\ request[r].pc = "pushing"
    /\ request[r].account # None
    /\ grant' = IF grant.exists
                THEN [grant EXCEPT
                         !.access = request[r].account,
                         !.refresh = IF rotated THEN request[r].account ELSE @]
                ELSE grant
    /\ GoTo(r, "done")
    /\ UNCHANGED <<profile, settles>>

\* The access token was good, or Google's error is logged.
FinishPush(r) ==
    /\ request[r].pc = "pushing"
    /\ GoTo(r, "done")
    /\ UNCHANGED <<profile, grant, settles>>

-----------------------------------------------------------------------------
(* The payout account.                                                      *)

\* Another update is on its way to the record, whose subaccount this one
\* changes, or which had been overtaken before.
Overtakes(r, code) ==
    \E q \in Requests \ {r} :
        request[q].pc = "storing" /\ (overtaken \/ request[q].code = code)

\* Mutant: the existing subaccount is not handed on.
UpdatePayoutAnew(r, bank) ==
    /\ Begin(r, "payout", IF profile.exists THEN "settling" ELSE "rejected",
             None, None, bank)
    /\ UNCHANGED <<profile, grant, settles, torn>>

\* updatePayout reads the profile, and with it the subaccount's code.
UpdatePayout(r, bank) ==
    /\ Begin(r, "payout", IF profile.exists THEN "settling" ELSE "rejected",
             None, profile.code, bank)
    /\ UNCHANGED <<profile, grant, settles, torn>>

\* Mutant: an existing subaccount is taken as it is.
CreateSubaccountOnly(r) ==
    /\ request[r].pc = "settling"
    /\ LET code == IF request[r].code = None THEN r ELSE request[r].code
       IN  /\ settles' = IF request[r].code = None
                         THEN [settles EXCEPT ![r] = request[r].bank] ELSE settles
           /\ request' = [request EXCEPT ![r] = [@ EXCEPT !.pc = "storing", !.code = code]]
           /\ overtaken' = Overtakes(r, code)
    /\ UNCHANGED <<profile, grant, torn, failures>>

\* Paystack updates the subaccount, or creates one and names it.
CreateOrUpdateSubaccount(r) ==
    /\ request[r].pc = "settling"
    /\ LET code == IF request[r].code = None THEN r ELSE request[r].code
       IN  /\ settles' = [settles EXCEPT ![code] = request[r].bank]
           /\ request' = [request EXCEPT ![r] = [@ EXCEPT !.pc = "storing", !.code = code]]
           /\ overtaken' = Overtakes(r, code)
    /\ UNCHANGED <<profile, grant, torn, failures>>

\* Mutant: account number and subaccount code are swapped.
StorePayoutSwapped(r) ==
    /\ request[r].pc = "storing"
    /\ profile' = [profile EXCEPT !.code = request[r].bank, !.bank = request[r].code]
    /\ GoTo(r, "done")
    /\ UNCHANGED <<grant, settles>>

\* Bank fields and code of this request replace those of any other.
StorePayout(r) ==
    /\ request[r].pc = "storing"
    /\ profile' = [profile EXCEPT !.bank = request[r].bank, !.code = request[r].code]
    /\ GoTo(r, "done")
    /\ UNCHANGED <<grant, settles>>

-----------------------------------------------------------------------------
(* A request is cut short at an await; what it has written stays written,   *)
(* and the profile is left behind if it was next.                           *)
FailRequest(r) ==
    /\ InFlight(r)
    /\ failures < MaxFailures
    /\ failures' = failures + 1
    /\ request' = [request EXCEPT ![r].pc = "failed"]
    /\ torn' = (torn \/ request[r].pc \in {"readProfile", "flagging"})
    /\ overtaken' = (overtaken \/ request[r].pc = "storing")
    /\ UNCHANGED <<profile, grant, settles>>

Next ==
    \E r \in Requests :
        \/ CreateProfile(r) \/ ReadGrant(r) \/ InsertProfile(r) \/ InsertConflict(r)
        \/ \E refreshGiven \in BOOLEAN :
              \/ \E account \in GoogleAccounts : GoogleCallback(r, account, refreshGiven)
              \/ LoginWithCalendar(r, refreshGiven)
        \/ ReadProfile(r) \/ FlagConnected(r)
        \/ DisconnectGoogle(r)
        \/ PushEvent(r) \/ FinishPush(r)
        \/ \E rotated \in BOOLEAN : PersistRefreshed(r, rotated)
        \/ \E bank \in BankAccounts : UpdatePayout(r, bank)
        \/ CreateOrUpdateSubaccount(r) \/ StorePayout(r)
        \/ FailRequest(r)

Spec == Init /\ [][Next]_vars

-----------------------------------------------------------------------------
(* Every variable holds what the schema and the handlers may put there.     *)
TypeOK ==
    /\ profile \in Profile
    /\ grant \in Grant
    /\ settles \in [Requests -> BankAccounts \cup {None}]
    /\ request \in [Requests -> Request]
    /\ torn \in BOOLEAN
    /\ overtaken \in BOOLEAN
    /\ failures \in 0 .. MaxFailures

(* With whatever else in flight, the profile says connected exactly when    *)
(* there is a token row, unless the last consent or disconnection ran into  *)
(* one of three things: a profile creation that had read no token, a login  *)
(* yet to set the flag, or that login's crash.  The next consent or         *)
(* disconnection heals it, also for the profile the seed has written.       *)
ConnectionAgrees ==
    ~torn /\ ~FlagOnItsWay /\ profile.exists =>
        (profile.connected <=> grant.exists)

(* Likewise Paystack settles to the bank account the profile shows, unless  *)
(* an update was overtaken at Paystack by another of the same subaccount,   *)
(* or cut short before it was recorded.  Two first updates, of two          *)
(* subaccounts, may come in any order: code and bank account are recorded   *)
(* together.                                                                *)
PayoutAgrees ==
    /\ ~overtaken
    /\ \A r \in Requests : request[r].pc # "storing"
    /\ profile.code # None
    => settles[profile.code] = profile.bank

Disconnected == profile.exists /\ ~grant.exists /\ ~profile.connected

(* Once disconnected, only the user's consent connects the calendar again:  *)
(* not a profile creation or a calendar push that was under way, nor a      *)
(* token that Google refreshed meanwhile.                                   *)
DisconnectedStaysSo ==
    [][Disconnected =>
          \/ Disconnected'
          \/ \E r \in Requests :
                /\ request'[r] # request[r]
                /\ request'[r].kind \in {"callback", "login"}]_vars

\* A subaccount is on record, and no update under way is about to create one.
Configured ==
    /\ profile.code # None
    /\ \A r \in Requests :
          request[r].kind = "payout" /\ InFlight(r) => request[r].code = profile.code

(* From then on it is the only one: the code never changes, and no update   *)
(* creates another subaccount.                                              *)
SubaccountIsReused ==
    [][Configured =>
          /\ Configured'
          /\ profile'.code = profile.code
          /\ \A c \in Requests : settles[c] = None => settles'[c] = None]_vars
=============================================================================
