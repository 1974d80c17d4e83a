----------------------------- MODULE ProfilesProofs -----------------------------
(***************************************************************************)
(* Theorems about Profiles, for any number of requests, Google accounts and *)
(* bank accounts.                                                           *)
(***************************************************************************)
EXTENDS Profiles, TLAPS

-----------------------------------------------------------------------------
(* The inductive invariant.                                                 *)

\* What a request in flight knows of the rows, whoever else is at work.
FollowsOne(r) ==
    /\ request[r].pc \in {"readGrant", "inserting"} => request[r].kind = "create"
    /\ request[r].pc \in {"readProfile", "flagging"} => request[r].kind = "login"
    /\ request[r].pc = "pushing" => request[r].kind = "push"
    /\ request[r].pc = "flagging" => profile.exists
    /\ request[r].pc \in {"settling", "storing"} =>
          /\ request[r].kind = "payout"
          /\ request[r].bank \in BankAccounts
          /\ profile.exists
    /\ request[r].pc = "storing" =>
          request[r].code \in Requests /\ settles[request[r].code] # None

RecordsFollow ==
    /\ grant.exists <=> grant.googleEmail # None
    /\ profile.code # None => profile.exists /\ settles[profile.code] # None

\* As long as no race has parted profile and token row, a login in flight has
\* its token row, and a profile about to be inserted knows of it.
Connection ==
    ~torn =>
        /\ profile.exists /\ profile.connected => grant.exists
        /\ profile.exists /\ grant.exists => profile.connected \/ FlagOnItsWay
        /\ FlagOnItsWay => grant.exists
        /\ ~profile.exists =>
              \A r \in Requests :
                  request[r].pc = "inserting" =>
                      (request[r].account # None <=> grant.exists)

\* As long as no update has overtaken another, all that are on their way to
\* the record tell it what Paystack has.
Payout ==
    ~overtaken =>
        /\ \A r \in Requests :
              request[r].pc = "storing" => settles[request[r].code] = request[r].bank
        /\ (\A r \in Requests : request[r].pc # "storing") /\ profile.code # None =>
              settles[profile.code] = profile.bank

IInv ==
    /\ TypeOK
    /\ \A r \in Requests : FollowsOne(r)
    /\ RecordsFollow
    /\ Connection
    /\ Payout

(* Initially there is no connection, and no profile but the seed's.         *)
LEMMA InitIInv == Init => IInv
<1> SUFFICES ASSUME Init PROVE IInv
  OBVIOUS
<1>1. /\ profile \in Profile
      /\ profile.code = None
      /\ torn = profile.exists
  <2>1. NoProfile \in Profile /\ NoProfile.code = None
    BY DEF NoProfile, Profile
  <2>2. ASSUME NEW account \in GoogleAccounts, NEW bank \in BankAccounts
        PROVE  /\ SeededProfile(account, bank) \in Profile
               /\ SeededProfile(account, bank).code = None
    BY DEF SeededProfile, NoProfile, Profile
  <2> QED
    BY <2>1, <2>2 DEF Init
<1>2. TypeOK
  <2>1. NoGrant \in Grant /\ NewRequest \in Request
    BY DEF NoGrant, Grant, NewRequest, Request
  <2>2. failures \in 0 .. MaxFailures
    BY ProfilesAssumption DEF Init
  <2>3. torn \in BOOLEAN
    BY <1>1 DEF Profile
  <2> QED
    BY <1>1, <2>1, <2>2, <2>3 DEF Init, TypeOK
<1>3. \A r \in Requests : request[r].pc = "new"
  BY DEF Init, NewRequest
<1>4. (\A r \in Requests : FollowsOne(r)) /\ RecordsFollow
  BY <1>1, <1>3 DEF Init, FollowsOne, RecordsFollow, NoGrant
<1>5. Connection
  BY <1>1, <1>3 DEF Connection, FlagOnItsWay
<1>6. Payout
  BY <1>1, <1>3 DEF Payout
<1> QED
  BY <1>2, <1>4, <1>5, <1>6 DEF IInv

-----------------------------------------------------------------------------
(* A step concerns one request.                                             *)

\* The other requests are left alone, and no row they rely on is taken away.
LeavesOthers(r) ==
    /\ \A q \in Requests \ {r} : request'[q] = request[q]
    /\ profile.exists => profile'.exists
    /\ \A c \in Requests : settles[c] # None => settles'[c] # None

(* What one request's step has to show for the whole.                       *)
LEMMA StepKeepsIInv ==
    ASSUME IInv, NEW r \in Requests, LeavesOthers(r), TypeOK',
           FollowsOne(r)', RecordsFollow', Connection', Payout'
    PROVE  IInv'
<1>1. ASSUME NEW q \in Requests
      PROVE  FollowsOne(q)'
  BY <1>1 DEF IInv, FollowsOne, LeavesOthers
<1> QED
  BY <1>1 DEF IInv

\* A step that has nothing to do with the calendar, or only reads the token row.
KeepsFlag(r) ==
    /\ torn' = torn
    /\ grant'.exists = grant.exists
    /\ profile'.exists = profile.exists
    /\ profile'.connected = profile.connected
    /\ request[r].pc \notin {"readProfile", "flagging"}
    /\ request'[r].pc \notin {"readProfile", "flagging"}
    /\ request'[r].pc = "inserting" => request'[r].account = grant.googleEmail

LEMMA ConnectionIsKept ==
    ASSUME IInv, NEW r \in Requests, LeavesOthers(r), KeepsFlag(r)
    PROVE  Connection'
<1> SUFFICES ASSUME ~torn' PROVE Connection'
  BY DEF Connection
<1>1. FlagOnItsWay' <=> FlagOnItsWay
  BY DEF FlagOnItsWay, LeavesOthers, KeepsFlag
<1>2. ASSUME ~profile.exists, NEW q \in Requests, request'[q].pc = "inserting"
      PROVE  request'[q].account # None <=> grant'.exists
  <2>1. CASE q = r
    BY <1>2, <2>1 DEF KeepsFlag, IInv, RecordsFollow
  <2>2. CASE q # r
    BY <1>2, <2>2 DEF KeepsFlag, LeavesOthers, IInv, Connection
  <2> QED
    BY <2>1, <2>2
<1> QED
  BY <1>1, <1>2 DEF Connection, IInv, KeepsFlag

\* A step that has nothing to do with the payout account.
KeepsBank(r) ==
    /\ settles' = settles
    /\ overtaken' = overtaken
    /\ profile'.code # None => profile'.code = profile.code /\ profile'.bank = profile.bank
    /\ request[r].pc # "storing"
    /\ request'[r].pc # "storing"

LEMMA PayoutIsKept ==
    ASSUME IInv, NEW r \in Requests, LeavesOthers(r), KeepsBank(r)
    PROVE  Payout'
<1> SUFFICES ASSUME ~overtaken' PROVE Payout'
  BY DEF Payout
<1>1. ASSUME NEW q \in Requests
      PROVE  /\ request'[q].pc = "storing" <=> request[q].pc = "storing"
             /\ request'[q].pc = "storing" => request'[q] = request[q]
  BY <1>1 DEF LeavesOthers, KeepsBank
<1> QED
  BY <1>1 DEF Payout, IInv, KeepsBank

(* What it means to come in.                                                *)
Starts(r, kind, pc, account, code, bank) ==
    /\ request' \in [Requests -> Request]
    /\ request'[r] = [kind |-> kind, pc |-> pc, account |-> account,
                      code |-> code, bank |-> bank]
    /\ \A q \in Requests \ {r} : request'[q] = request[q]
    /\ request[r].pc = "new"
    /\ overtaken' = overtaken
    /\ failures' = failures

LEMMA BeginStarts ==
    ASSUME TypeOK, NEW r \in Requests,
           NEW kind, NEW pc, NEW account, NEW code, NEW bank,
           [kind |-> kind, pc |-> pc, account |-> account,
            code |-> code, bank |-> bank] \in Request,
           Begin(r, kind, pc, account, code, bank)
    PROVE  Starts(r, kind, pc, account, code, bank)
BY DEF Begin, TypeOK, Starts

(* What it means to go on.                                                  *)
GoesOn(r, pc) ==
    /\ request' \in [Requests -> Request]
    /\ request'[r].pc = pc
    /\ request'[r].kind = request[r].kind
    /\ \A q \in Requests \ {r} : request'[q] = request[q]
    /\ torn' = torn
    /\ overtaken' = overtaken
    /\ failures' = failures

LEMMA GoToGoesOn ==
    ASSUME TypeOK, NEW r \in Requests,
           NEW pc \in {"flagging", "done", "rejected"},
           GoTo(r, pc)
    PROVE  GoesOn(r, pc)
BY DEF GoTo, TypeOK, Request, GoesOn, history

-----------------------------------------------------------------------------
(* The steps of Next that begin a request.                                  *)

LEMMA CreateProfileKeepsIInv ==
    ASSUME IInv, NEW r \in Requests, CreateProfile(r)
    PROVE  IInv'
<1>0. PICK pc \in {"rejected", "readGrant"} :
             pc = IF profile.exists THEN "rejected" ELSE "readGrant"
  OBVIOUS
<1>1. Starts(r, "create", pc, None, None, None)
  <2>1. Begin(r, "create", pc, None, None, None)
    BY <1>0 DEF CreateProfile
  <2>2. [kind |-> "create", pc |-> pc, account |-> None,
         code |-> None, bank |-> None] \in Request
    BY ProfilesAssumption DEF Request, IInv, TypeOK, Grant, Profile
  <2> QED
    BY <2>1, <2>2, BeginStarts DEF IInv
<1>2. UNCHANGED <<profile, grant, settles, torn>>
  BY DEF CreateProfile
<1>3. TypeOK'
  BY <1>1, <1>2, ProfilesAssumption DEF IInv, TypeOK, Starts, Profile, Grant, NoGrant
<1>4. LeavesOthers(r) /\ RecordsFollow'
  BY <1>1, <1>2, ProfilesAssumption
  DEF IInv, TypeOK, LeavesOthers, RecordsFollow, Starts, Profile, Grant, NoGrant
<1>5. FollowsOne(r)'
  BY <1>0, <1>1, <1>2 DEF FollowsOne, Starts
<1>6. Connection'
  <2>1. KeepsFlag(r)
    BY <1>0, <1>1, <1>2 DEF KeepsFlag, Starts
  <2> QED
    BY <1>4, <2>1, ConnectionIsKept
<1>7. Payout'
  <2>1. KeepsBank(r)
    BY <1>0, <1>1, <1>2 DEF KeepsBank, Starts, IInv, TypeOK, Profile
  <2> QED
    BY <1>4, <2>1, PayoutIsKept
<1> QED
  BY <1>3, <1>4, <1>5, <1>6, <1>7, StepKeepsIInv

LEMMA GoogleCallbackKeepsIInv ==
    ASSUME IInv, NEW r \in Requests,
           NEW account \in GoogleAccounts, NEW refreshGiven \in BOOLEAN,
           GoogleCallback(r, account, refreshGiven)
    PROVE  IInv'
<1>1. Starts(r, "callback", "done", account, None, None)
  <2>1. Begin(r, "callback", "done", account, None, None)
    BY DEF GoogleCallback
  <2>2. [kind |-> "callback", pc |-> "done", account |-> account,
         code |-> None, bank |-> None] \in Request
    BY ProfilesAssumption DEF Request, IInv, TypeOK, Grant, Profile
  <2> QED
    BY <2>1, <2>2, BeginStarts DEF IInv
<1>2. /\ grant' = [exists |-> TRUE, googleEmail |-> account, access |-> account,
                   refresh |-> IF refreshGiven THEN account ELSE None]
      /\ profile' = IF profile.exists
                    THEN [profile EXCEPT !.connected = TRUE, !.googleEmail = account]
                    ELSE profile
      /\ torn' = UnawareInsert
      /\ UNCHANGED settles
  BY DEF GoogleCallback
<1>3. TypeOK'
  <2>1. torn' \in BOOLEAN
    BY DEF GoogleCallback, UnawareInsert
  <2> QED
    BY <1>1, <1>2, <2>1, ProfilesAssumption DEF IInv, TypeOK, Starts, Profile, Grant, NoGrant
<1>4. LeavesOthers(r) /\ RecordsFollow'
  BY <1>1, <1>2, ProfilesAssumption
  DEF IInv, TypeOK, LeavesOthers, RecordsFollow, Starts, Profile, Grant, NoGrant
<1>5. FollowsOne(r)'
  BY <1>1, <1>2 DEF FollowsOne, Starts
<1>6. Connection'
  <2> SUFFICES ASSUME ~torn' PROVE Connection'
    BY DEF Connection
  <2>1. ~UnawareInsert
    BY <1>2
  <2>2. grant'.exists
    BY <1>2
  <2>3. profile'.exists <=> profile.exists
    BY <1>2 DEF IInv, TypeOK, Profile
  <2>4. ASSUME ~profile.exists, NEW q \in Requests, request'[q].pc = "inserting"
        PROVE  request'[q].account # None
    BY <1>1, <2>1, <2>4 DEF UnawareInsert, Starts
  <2>5. profile.exists => profile'.connected
    BY <1>2 DEF IInv, TypeOK, Profile
  <2> QED
    BY <2>2, <2>3, <2>4, <2>5 DEF Connection
<1>7. Payout'
  <2>1. KeepsBank(r)
    BY <1>1, <1>2 DEF KeepsBank, Starts, IInv, TypeOK, Profile
  <2> QED
    BY <1>4, <2>1, PayoutIsKept
<1> QED
  BY <1>3, <1>4, <1>5, <1>6, <1>7, StepKeepsIInv

LEMMA LoginWithCalendarKeepsIInv ==
    ASSUME IInv, NEW r \in Requests, NEW refreshGiven \in BOOLEAN,
           LoginWithCalendar(r, refreshGiven)
    PROVE  IInv'
<1>1. Starts(r, "login", "readProfile", Own, None, None)
  <2>1. Begin(r, "login", "readProfile", Own, None, None)
    BY DEF LoginWithCalendar
  <2>2. [kind |-> "login", pc |-> "readProfile", account |-> Own,
         code |-> None, bank |-> None] \in Request
    BY ProfilesAssumption DEF Request, IInv, TypeOK, Grant, Profile
  <2> QED
    BY <2>1, <2>2, BeginStarts DEF IInv
<1>2. /\ grant' = [exists |-> TRUE, googleEmail |-> Own, access |-> Own,
                   refresh |-> IF refreshGiven THEN Own ELSE grant.refresh]
      /\ torn' = UnawareInsert
      /\ UNCHANGED <<profile, settles>>
  BY DEF LoginWithCalendar
<1>3. TypeOK'
  <2>1. torn' \in BOOLEAN
    BY DEF LoginWithCalendar, UnawareInsert
  <2> QED
    BY <1>1, <1>2, <2>1, ProfilesAssumption DEF IInv, TypeOK, Starts, Profile, Grant, NoGrant
<1>4. LeavesOthers(r) /\ RecordsFollow'
  BY <1>1, <1>2, ProfilesAssumption
  DEF IInv, TypeOK, LeavesOthers, RecordsFollow, Starts, Profile, Grant, NoGrant
<1>5. FollowsOne(r)'
  BY <1>1, <1>2 DEF FollowsOne, Starts
<1>6. Connection'
  <2> SUFFICES ASSUME ~torn' PROVE Connection'
    BY DEF Connection
  <2>1. ~UnawareInsert
    BY <1>2
  <2>2. grant'.exists
    BY <1>2
  <2>3. profile'.exists <=> profile.exists
    BY <1>2 DEF IInv, TypeOK, Profile
  <2>4. ASSUME ~profile.exists, NEW q \in Requests, request'[q].pc = "inserting"
        PROVE  request'[q].account # None
    BY <1>1, <2>1, <2>4 DEF UnawareInsert, Starts
  <2>5. FlagOnItsWay'
    BY <1>1 DEF FlagOnItsWay, Starts
  <2> QED
    BY <2>2, <2>3, <2>4, <2>5 DEF Connection
<1>7. Payout'
  <2>1. KeepsBank(r)
    BY <1>1, <1>2 DEF KeepsBank, Starts, IInv, TypeOK, Profile
  <2> QED
    BY <1>4, <2>1, PayoutIsKept
<1> QED
  BY <1>3, <1>4, <1>5, <1>6, <1>7, StepKeepsIInv

LEMMA DisconnectGoogleKeepsIInv ==
    ASSUME IInv, NEW r \in Requests, DisconnectGoogle(r)
    PROVE  IInv'
<1>0. PICK pc \in {"done", "rejected"} :
             pc = IF profile.exists THEN "done" ELSE "rejected"
  OBVIOUS
<1>1. Starts(r, "disconnect", pc, None, None, None)
  <2>1. Begin(r, "disconnect", pc, None, None, None)
    BY <1>0 DEF DisconnectGoogle
  <2>2. [kind |-> "disconnect", pc |-> pc, account |-> None,
         code |-> None, bank |-> None] \in Request
    BY ProfilesAssumption DEF Request, IInv, TypeOK, Grant, Profile
  <2> QED
    BY <2>1, <2>2, BeginStarts DEF IInv
<1>2. /\ profile' = [profile EXCEPT !.connected = FALSE, !.googleEmail = None]
      /\ grant' = IF profile.exists THEN NoGrant ELSE grant
      /\ torn' = IF profile.exists THEN FlagOnItsWay ELSE torn
      /\ UNCHANGED settles
  BY DEF DisconnectGoogle
<1>3. TypeOK'
  <2>1. torn' \in BOOLEAN
    BY DEF DisconnectGoogle, FlagOnItsWay, IInv, TypeOK
  <2> QED
    BY <1>1, <1>2, <2>1, ProfilesAssumption DEF IInv, TypeOK, Starts, Profile, Grant, NoGrant
<1>4. LeavesOthers(r) /\ RecordsFollow'
  BY <1>1, <1>2, ProfilesAssumption
  DEF IInv, TypeOK, LeavesOthers, RecordsFollow, Starts, Profile, Grant, NoGrant
<1>5. FollowsOne(r)'
  BY <1>0, <1>1, <1>2 DEF FollowsOne, Starts
<1>6. Connection'
  <2> SUFFICES ASSUME ~torn' PROVE Connection'
    BY DEF Connection
  <2>1. FlagOnItsWay' <=> FlagOnItsWay
    BY <1>0, <1>1 DEF FlagOnItsWay, Starts
  <2>2. (profile'.exists <=> profile.exists) /\ ~profile'.connected
    BY <1>2 DEF IInv, TypeOK, Profile
  <2>3. CASE profile.exists
    BY <1>2, <2>1, <2>2, <2>3 DEF Connection, NoGrant
  <2>4. CASE ~profile.exists
    <3>1. ASSUME NEW q \in Requests, request'[q].pc = "inserting"
          PROVE  request'[q] = request[q]
      BY <1>0, <1>1, <3>1 DEF Starts
    <3> QED
      BY <1>2, <2>1, <2>2, <2>4, <3>1 DEF Connection, IInv
  <2> QED
    BY <2>3, <2>4
<1>7. Payout'
  <2>1. KeepsBank(r)
    BY <1>0, <1>1, <1>2 DEF KeepsBank, Starts, IInv, TypeOK, Profile
  <2> QED
    BY <1>4, <2>1, PayoutIsKept
<1> QED
  BY <1>3, <1>4, <1>5, <1>6, <1>7, StepKeepsIInv

LEMMA PushEventKeepsIInv ==
    ASSUME IInv, NEW r \in Requests, PushEvent(r)
    PROVE  IInv'
<1>0. PICK pc \in {"pushing", "done"}, account \in GoogleAccounts \cup {None} :
             /\ pc = IF grant.exists THEN "pushing" ELSE "done"
             /\ account = grant.refresh
  BY DEF IInv, TypeOK, Grant, Profile
<1>1. Starts(r, "push", pc, account, None, None)
  <2>1. Begin(r, "push", pc, account, None, None)
    BY <1>0 DEF PushEvent
  <2>2. [kind |-> "push", pc |-> pc, account |-> account,
         code |-> None, bank |-> None] \in Request
    BY ProfilesAssumption DEF Request, IInv, TypeOK, Grant, Profile
  <2> QED
    BY <2>1, <2>2, BeginStarts DEF IInv
<1>2. UNCHANGED <<profile, grant, settles, torn>>
  BY DEF PushEvent
<1>3. TypeOK'
  BY <1>1, <1>2, ProfilesAssumption DEF IInv, TypeOK, Starts, Profile, Grant, NoGrant
<1>4. LeavesOthers(r) /\ RecordsFollow'
  BY <1>1, <1>2, ProfilesAssumption
  DEF IInv, TypeOK, LeavesOthers, RecordsFollow, Starts, Profile, Grant, NoGrant
<1>5. FollowsOne(r)'
  BY <1>0, <1>1, <1>2 DEF FollowsOne, Starts
<1>6. Connection'
  <2>1. KeepsFlag(r)
    BY <1>0, <1>1, <1>2 DEF KeepsFlag, Starts
  <2> QED
    BY <1>4, <2>1, ConnectionIsKept
<1>7. Payout'
  <2>1. KeepsBank(r)
    BY <1>0, <1>1, <1>2 DEF KeepsBank, Starts, IInv, TypeOK, Profile
  <2> QED
    BY <1>4, <2>1, PayoutIsKept
<1> QED
  BY <1>3, <1>4, <1>5, <1>6, <1>7, StepKeepsIInv

LEMMA UpdatePayoutKeepsIInv ==
    ASSUME IInv, NEW r \in Requests, NEW bank \in BankAccounts, UpdatePayout(r, bank)
    PROVE  IInv'
<1>0. PICK pc \in {"settling", "rejected"}, code \in Requests \cup {None} :
             /\ pc = IF profile.exists THEN "settling" ELSE "rejected"
             /\ code = profile.code
  BY DEF IInv, TypeOK, Grant, Profile
<1>1. Starts(r, "payout", pc, None, code, bank)
  <2>1. Begin(r, "payout", pc, None, code, bank)
    BY <1>0 DEF UpdatePayout
  <2>2. [kind |-> "payout", pc |-> pc, account |-> None,
         code |-> code, bank |-> bank] \in Request
    BY ProfilesAssumption DEF Request, IInv, TypeOK, Grant, Profile
  <2> QED
    BY <2>1, <2>2, BeginStarts DEF IInv
<1>2. UNCHANGED <<profile, grant, settles, torn>>
  BY DEF UpdatePayout
<1>3. TypeOK'
  BY <1>1, <1>2, ProfilesAssumption DEF IInv, TypeOK, Starts, Profile, Grant, NoGrant
<1>4. LeavesOthers(r) /\ RecordsFollow'
  BY <1>1, <1>2, ProfilesAssumption
  DEF IInv, TypeOK, LeavesOthers, RecordsFollow, Starts, Profile, Grant, NoGrant
<1>5. FollowsOne(r)'
  BY <1>0, <1>1, <1>2 DEF FollowsOne, Starts
<1>6. Connection'
  <2>1. KeepsFlag(r)
    BY <1>0, <1>1, <1>2 DEF KeepsFlag, Starts
  <2> QED
    BY <1>4, <2>1, ConnectionIsKept
<1>7. Payout'
  <2>1. KeepsBank(r)
    BY <1>0, <1>1, <1>2 DEF KeepsBank, Starts, IInv, TypeOK, Profile
  <2> QED
    BY <1>4, <2>1, PayoutIsKept
<1> QED
  BY <1>3, <1>4, <1>5, <1>6, <1>7, StepKeepsIInv

-----------------------------------------------------------------------------
(* The steps of Next that go on with one.                                   *)

LEMMA InsertProfileKeepsIInv ==
    ASSUME IInv, NEW r \in Requests, InsertProfile(r)
    PROVE  IInv'
<1>1. GoesOn(r, "done")
  <2>1. GoTo(r, "done")
    BY DEF InsertProfile
  <2> QED
    BY <2>1, GoToGoesOn DEF IInv
<1>2. /\ request[r].pc = "inserting"
      /\ ~profile.exists
      /\ profile' = [NoProfile EXCEPT
             !.exists = TRUE,
             !.connected = request[r].account # None,
             !.googleEmail = request[r].account]
      /\ UNCHANGED <<grant, settles>>
  BY DEF InsertProfile
<1>3. TypeOK'
  BY <1>1, <1>2, ProfilesAssumption
  DEF IInv, TypeOK, GoesOn, Profile, Grant, Request, NoProfile
<1>4. LeavesOthers(r) /\ RecordsFollow'
  BY <1>1, <1>2
  DEF IInv, TypeOK, LeavesOthers, RecordsFollow, FollowsOne, GoesOn, Profile, Grant,
      Request, NoProfile
<1>5. FollowsOne(r)'
  BY <1>1, <1>2 DEF FollowsOne, GoesOn, IInv
<1>6. Connection'
  <2> SUFFICES ASSUME ~torn' PROVE Connection'
    BY DEF Connection
  <2>1. request[r].account # None <=> grant.exists
    BY <1>1, <1>2 DEF GoesOn, IInv, Connection
  <2>2. profile'.exists /\ (profile'.connected <=> grant'.exists)
    BY <1>2, <2>1 DEF NoProfile
  <2>3. FlagOnItsWay' <=> FlagOnItsWay
    BY <1>1, <1>2 DEF FlagOnItsWay, GoesOn
  <2>4. FlagOnItsWay => grant.exists
    BY <1>1 DEF GoesOn, IInv, Connection
  <2> QED
    BY <1>2, <2>2, <2>3, <2>4 DEF Connection
<1>7. Payout'
  <2>1. KeepsBank(r)
    BY <1>1, <1>2 DEF KeepsBank, GoesOn, IInv, TypeOK, Profile, NoProfile
  <2> QED
    BY <1>4, <2>1, PayoutIsKept
<1> QED
  BY <1>3, <1>4, <1>5, <1>6, <1>7, StepKeepsIInv

LEMMA InsertConflictKeepsIInv ==
    ASSUME IInv, NEW r \in Requests, InsertConflict(r)
    PROVE  IInv'
<1>1. GoesOn(r, "rejected")
  <2>1. GoTo(r, "rejected")
    BY DEF InsertConflict
  <2> QED
    BY <2>1, GoToGoesOn DEF IInv
<1>2. request[r].pc = "inserting" /\ UNCHANGED <<profile, grant, settles>>
  BY DEF InsertConflict
<1>3. TypeOK'
  BY <1>1, <1>2, ProfilesAssumption
  DEF IInv, TypeOK, GoesOn, Profile, Grant, Request, NoProfile
<1>4. LeavesOthers(r) /\ RecordsFollow'
  BY <1>1, <1>2
  DEF IInv, TypeOK, LeavesOthers, RecordsFollow, FollowsOne, GoesOn, Profile, Grant,
      Request, NoProfile
<1>5. FollowsOne(r)'
  BY <1>1, <1>2 DEF FollowsOne, GoesOn, IInv
<1>6. Connection'
  <2>1. KeepsFlag(r)
    BY <1>1, <1>2 DEF KeepsFlag, GoesOn, IInv, TypeOK, Profile, Grant
  <2> QED
    BY <1>4, <2>1, ConnectionIsKept
<1>7. Payout'
  <2>1. KeepsBank(r)
    BY <1>1, <1>2 DEF KeepsBank, GoesOn, IInv, TypeOK, Profile, NoProfile
  <2> QED
    BY <1>4, <2>1, PayoutIsKept
<1> QED
  BY <1>3, <1>4, <1>5, <1>6, <1>7, StepKeepsIInv

LEMMA ReadProfileKeepsIInv ==
    ASSUME IInv, NEW r \in Requests, ReadProfile(r)
    PROVE  IInv'
<1>0. PICK pc \in {"flagging", "done"} :
             pc = IF profile.exists /\ ~profile.connected THEN "flagging" ELSE "done"
  OBVIOUS
<1>1. GoesOn(r, pc)
  <2>1. GoTo(r, pc)
    BY <1>0 DEF ReadProfile
  <2> QED
    BY <2>1, GoToGoesOn DEF IInv
<1>2. request[r].pc = "readProfile" /\ UNCHANGED <<profile, grant, settles>>
  BY DEF ReadProfile
<1>3. TypeOK'
  BY <1>1, <1>2, ProfilesAssumption
  DEF IInv, TypeOK, GoesOn, Profile, Grant, Request, NoProfile
<1>4. LeavesOthers(r) /\ RecordsFollow'
  BY <1>1, <1>2
  DEF IInv, TypeOK, LeavesOthers, RecordsFollow, FollowsOne, GoesOn, Profile, Grant,
      Request, NoProfile
<1>5. FollowsOne(r)'
  BY <1>0, <1>1, <1>2 DEF FollowsOne, GoesOn, IInv
<1>6. Connection'
  <2> SUFFICES ASSUME ~torn' PROVE Connection'
    BY DEF Connection
  <2>1. FlagOnItsWay /\ grant.exists
    BY <1>1, <1>2 DEF FlagOnItsWay, GoesOn, IInv, Connection
  <2>2. profile.exists => profile.connected \/ FlagOnItsWay'
    BY <1>0, <1>1 DEF FlagOnItsWay, GoesOn
  <2>3. ASSUME NEW q \in Requests, request'[q].pc = "inserting"
        PROVE  request'[q] = request[q]
    BY <1>0, <1>1, <2>3 DEF GoesOn
  <2> QED
    BY <1>1, <1>2, <2>1, <2>2, <2>3 DEF Connection, GoesOn, IInv
<1>7. Payout'
  <2>1. KeepsBank(r)
    BY <1>0, <1>1, <1>2 DEF KeepsBank, GoesOn, IInv, TypeOK, Profile, NoProfile
  <2> QED
    BY <1>4, <2>1, PayoutIsKept
<1> QED
  BY <1>3, <1>4, <1>5, <1>6, <1>7, StepKeepsIInv

LEMMA FlagConnectedKeepsIInv ==
    ASSUME IInv, NEW r \in Requests, FlagConnected(r)
    PROVE  IInv'
<1>1. GoesOn(r, "done")
  <2>1. GoTo(r, "done")
    BY DEF FlagConnected
  <2> QED
    BY <2>1, GoToGoesOn DEF IInv
<1>2. /\ request[r].pc = "flagging"
      /\ profile' = [profile EXCEPT !.connected = TRUE, !.googleEmail = Own]
      /\ UNCHANGED <<grant, settles>>
  BY DEF FlagConnected
<1>3. TypeOK'
  BY <1>1, <1>2, ProfilesAssumption
  DEF IInv, TypeOK, GoesOn, Profile, Grant, Request, NoProfile
<1>4. LeavesOthers(r) /\ RecordsFollow'
  BY <1>1, <1>2
  DEF IInv, TypeOK, LeavesOthers, RecordsFollow, FollowsOne, GoesOn, Profile, Grant,
      Request, NoProfile
<1>5. FollowsOne(r)'
  BY <1>1, <1>2 DEF FollowsOne, GoesOn, IInv
<1>6. Connection'
  <2> SUFFICES ASSUME ~torn' PROVE Connection'
    BY DEF Connection
  <2>1. grant.exists
    BY <1>1, <1>2 DEF FlagOnItsWay, GoesOn, IInv, Connection
  <2>2. profile'.exists /\ profile'.connected
    BY <1>2 DEF IInv, FollowsOne, TypeOK, Profile
  <2> QED
    BY <1>2, <2>1, <2>2 DEF Connection
<1>7. Payout'
  <2>1. KeepsBank(r)
    BY <1>1, <1>2 DEF KeepsBank, GoesOn, IInv, TypeOK, Profile, NoProfile
  <2> QED
    BY <1>4, <2>1, PayoutIsKept
<1> QED
  BY <1>3, <1>4, <1>5, <1>6, <1>7, StepKeepsIInv

LEMMA PersistRefreshedKeepsIInv ==
    ASSUME IInv, NEW r \in Requests, NEW rotated \in BOOLEAN, PersistRefreshed(r, rotated)
    PROVE  IInv'
<1>1. GoesOn(r, "done")
  <2>1. GoTo(r, "done")
    BY DEF PersistRefreshed
  <2> QED
    BY <2>1, GoToGoesOn DEF IInv
<1>2. /\ request[r].pc = "pushing"
      /\ grant' = IF grant.exists
                  THEN [grant EXCEPT
                           !.access = request[r].account,
                           !.refresh = IF rotated THEN request[r].account ELSE @]
                  ELSE grant
      /\ UNCHANGED <<profile, settles>>
  BY DEF PersistRefreshed
<1>3. TypeOK'
  <2>1. grant \in Grant /\ request[r].account \in GoogleAccounts \cup {None}
    BY DEF IInv, TypeOK, Request
  <2>2. /\ grant'.exists \in BOOLEAN
        /\ grant' = [exists |-> grant.exists, googleEmail |-> grant.googleEmail,
                     access |-> grant'.access, refresh |-> grant'.refresh]
        /\ grant'.access \in {request[r].account, grant.access}
        /\ grant'.refresh \in {request[r].account, grant.refresh}
    BY <1>2, <2>1 DEF Grant
  <2>3. grant' \in Grant
    BY <2>1, <2>2 DEF Grant
  <2> QED
    BY <1>1, <1>2, <2>3 DEF IInv, TypeOK, GoesOn
<1>4. LeavesOthers(r) /\ RecordsFollow'
  BY <1>1, <1>2
  DEF IInv, TypeOK, LeavesOthers, RecordsFollow, FollowsOne, GoesOn, Profile, Grant,
      Request, NoProfile
<1>5. FollowsOne(r)'
  BY <1>1, <1>2 DEF FollowsOne, GoesOn, IInv
<1>6. Connection'
  <2>1. KeepsFlag(r)
    BY <1>1, <1>2 DEF KeepsFlag, GoesOn, IInv, TypeOK, Profile, Grant
  <2> QED
    BY <1>4, <2>1, ConnectionIsKept
<1>7. Payout'
  <2>1. KeepsBank(r)
    BY <1>1, <1>2 DEF KeepsBank, GoesOn, IInv, TypeOK, Profile, NoProfile
  <2> QED
    BY <1>4, <2>1, PayoutIsKept
<1> QED
  BY <1>3, <1>4, <1>5, <1>6, <1>7, StepKeepsIInv

LEMMA FinishPushKeepsIInv ==
    ASSUME IInv, NEW r \in Requests, FinishPush(r)
    PROVE  IInv'
<1>1. GoesOn(r, "done")
  <2>1. GoTo(r, "done")
    BY DEF FinishPush
  <2> QED
    BY <2>1, GoToGoesOn DEF IInv
<1>2. request[r].pc = "pushing" /\ UNCHANGED <<profile, grant, settles>>
  BY DEF FinishPush
<1>3. TypeOK'
  BY <1>1, <1>2, ProfilesAssumption
  DEF IInv, TypeOK, GoesOn, Profile, Grant, Request, NoProfile
<1>4. LeavesOthers(r) /\ RecordsFollow'
  BY <1>1, <1>2
  DEF IInv, TypeOK, LeavesOthers, RecordsFollow, FollowsOne, GoesOn, Profile, Grant,
      Request, NoProfile
<1>5. FollowsOne(r)'
  BY <1>1, <1>2 DEF FollowsOne, GoesOn, IInv
<1>6. Connection'
  <2>1. KeepsFlag(r)
    BY <1>1, <1>2 DEF KeepsFlag, GoesOn, IInv, TypeOK, Profile, Grant
  <2> QED
    BY <1>4, <2>1, ConnectionIsKept
<1>7. Payout'
  <2>1. KeepsBank(r)
    BY <1>1, <1>2 DEF KeepsBank, GoesOn, IInv, TypeOK, Profile, NoProfile
  <2> QED
    BY <1>4, <2>1, PayoutIsKept
<1> QED
  BY <1>3, <1>4, <1>5, <1>6, <1>7, StepKeepsIInv

LEMMA StorePayoutKeepsIInv ==
    ASSUME IInv, NEW r \in Requests, StorePayout(r)
    PROVE  IInv'
<1>1. GoesOn(r, "done")
  <2>1. GoTo(r, "done")
    BY DEF StorePayout
  <2> QED
    BY <2>1, GoToGoesOn DEF IInv
<1>2. /\ request[r].pc = "storing"
      /\ profile' = [profile EXCEPT !.bank = request[r].bank, !.code = request[r].code]
      /\ UNCHANGED <<grant, settles>>
  BY DEF StorePayout
<1>3. TypeOK'
  BY <1>1, <1>2, ProfilesAssumption
  DEF IInv, TypeOK, GoesOn, Profile, Grant, Request, NoProfile
<1>4. LeavesOthers(r) /\ RecordsFollow'
  BY <1>1, <1>2
  DEF IInv, TypeOK, LeavesOthers, RecordsFollow, FollowsOne, GoesOn, Profile, Grant,
      Request, NoProfile
<1>5. FollowsOne(r)'
  BY <1>1, <1>2 DEF FollowsOne, GoesOn, IInv
<1>6. Connection'
  <2>1. KeepsFlag(r)
    BY <1>1, <1>2 DEF KeepsFlag, GoesOn, IInv, TypeOK, Profile, Grant
  <2> QED
    BY <1>4, <2>1, ConnectionIsKept
<1>7. Payout'
  <2> SUFFICES ASSUME ~overtaken' PROVE Payout'
    BY DEF Payout
  <2>1. ~overtaken
    BY <1>1 DEF GoesOn
  <2>2. profile'.bank = request[r].bank /\ profile'.code = request[r].code
    BY <1>2 DEF IInv, TypeOK, Profile
  <2>3. settles[request[r].code] = request[r].bank
    BY <1>2, <2>1 DEF IInv, Payout
  <2>4. ASSUME NEW q \in Requests, request'[q].pc = "storing"
        PROVE  request'[q] = request[q]
    BY <1>1, <2>4 DEF GoesOn
  <2> QED
    BY <1>2, <2>1, <2>2, <2>3, <2>4 DEF Payout, IInv
<1> QED
  BY <1>3, <1>4, <1>5, <1>6, <1>7, StepKeepsIInv

LEMMA ReadGrantKeepsIInv ==
    ASSUME IInv, NEW r \in Requests, ReadGrant(r)
    PROVE  IInv'
<1>1. PICK read \in Request :
          read = [request[r] EXCEPT !.pc = "inserting", !.account = grant.googleEmail]
  <2>1. request[r] \in Request /\ grant.googleEmail \in GoogleAccounts \cup {None}
    BY DEF IInv, TypeOK, Grant
  <2>2. [request[r] EXCEPT !.pc = "inserting", !.account = grant.googleEmail] \in Request
    BY <2>1 DEF Request
  <2> QED
    BY <2>2
<1>2. /\ read.kind = request[r].kind
      /\ read.pc = "inserting"
      /\ read.account = grant.googleEmail
  BY <1>1 DEF IInv, TypeOK, Request
<1>3. /\ request[r].pc = "readGrant"
      /\ request' = [request EXCEPT ![r] = read]
      /\ UNCHANGED <<profile, grant, settles, history, failures>>
  BY <1>1 DEF ReadGrant
<1>4. /\ request' \in [Requests -> Request]
      /\ request'[r] = read
      /\ \A q \in Requests \ {r} : request'[q] = request[q]
  BY <1>3 DEF IInv, TypeOK
<1>5. TypeOK' /\ LeavesOthers(r) /\ RecordsFollow'
  BY <1>3, <1>4 DEF IInv, TypeOK, LeavesOthers, RecordsFollow, history
<1>6. FollowsOne(r)'
  BY <1>2, <1>3, <1>4 DEF IInv, FollowsOne
<1>7. KeepsFlag(r) /\ KeepsBank(r)
  BY <1>2, <1>3, <1>4 DEF KeepsFlag, KeepsBank, history
<1> QED
  BY <1>5, <1>6, <1>7, ConnectionIsKept, PayoutIsKept, StepKeepsIInv

LEMMA CreateOrUpdateSubaccountKeepsIInv ==
    ASSUME IInv, NEW r \in Requests, CreateOrUpdateSubaccount(r)
    PROVE  IInv'
<1>1. PICK code \in Requests :
          code = IF request[r].code = None THEN r ELSE request[r].code
  BY DEF IInv, TypeOK, Request
<1>2. PICK told \in Request :
          told = [request[r] EXCEPT !.pc = "storing", !.code = code]
  BY DEF IInv, TypeOK, Request
<1>3. /\ told.kind = request[r].kind
      /\ told.bank = request[r].bank
      /\ told.pc = "storing"
      /\ told.code = code
  BY <1>2 DEF IInv, TypeOK, Request
<1>4. /\ request[r].pc = "settling"
      /\ settles' = [settles EXCEPT ![code] = request[r].bank]
      /\ request' = [request EXCEPT ![r] = told]
      /\ overtaken' = Overtakes(r, code)
      /\ UNCHANGED <<profile, grant, torn, failures>>
  BY <1>1, <1>2 DEF CreateOrUpdateSubaccount
<1>5. /\ request' \in [Requests -> Request]
      /\ request'[r] = told
      /\ \A q \in Requests \ {r} : request'[q] = request[q]
  BY <1>4 DEF IInv, TypeOK
<1>6. /\ request[r].kind = "payout"
      /\ request[r].bank \in BankAccounts
      /\ request[r].bank # None
      /\ profile.exists
  BY <1>4, ProfilesAssumption DEF IInv, FollowsOne
<1>7. /\ settles' \in [Requests -> BankAccounts \cup {None}]
      /\ settles'[code] = request[r].bank
      /\ \A c \in Requests : settles[c] # None => settles'[c] # None
  BY <1>4, <1>6 DEF IInv, TypeOK
<1>8. TypeOK' /\ LeavesOthers(r) /\ RecordsFollow'
  <2>1. overtaken' \in BOOLEAN
    BY <1>4 DEF Overtakes
  <2> QED
    BY <1>4, <1>5, <1>7, <2>1 DEF IInv, TypeOK, LeavesOthers, RecordsFollow, Profile
<1>9. FollowsOne(r)'
  BY <1>3, <1>4, <1>5, <1>6, <1>7 DEF FollowsOne
<1>10. Connection'
  <2>1. KeepsFlag(r)
    BY <1>3, <1>4, <1>5 DEF KeepsFlag
  <2> QED
    BY <1>8, <2>1, ConnectionIsKept
<1>11. Payout'
  <2> SUFFICES ASSUME ~overtaken' PROVE Payout'
    BY DEF Payout
  <2>1. ASSUME NEW q \in Requests \ {r}, request[q].pc = "storing"
        PROVE  ~overtaken /\ request[q].code # code
    BY <1>4, <2>1 DEF Overtakes
  <2>2. ASSUME NEW q \in Requests \ {r}, request'[q].pc = "storing"
        PROVE  settles'[request'[q].code] = request'[q].bank
    <3>1. request[q].pc = "storing" /\ request'[q] = request[q]
      BY <1>5, <2>2
    <3>2. request[q].code \in Requests /\ settles[request[q].code] = request[q].bank
      BY <2>1, <3>1 DEF IInv, FollowsOne, Payout
    <3>3. settles'[request[q].code] = settles[request[q].code]
      BY <1>4, <2>1, <3>1, <3>2 DEF IInv, TypeOK
    <3> QED
      BY <3>1, <3>2, <3>3
  <2>3. request'[r].pc = "storing" /\ settles'[request'[r].code] = request'[r].bank
    BY <1>3, <1>5, <1>7
  <2> QED
    BY <2>2, <2>3 DEF Payout
<1> QED
  BY <1>8, <1>9, <1>10, <1>11, StepKeepsIInv

LEMMA FailRequestKeepsIInv ==
    ASSUME IInv, NEW r \in Requests, FailRequest(r)
    PROVE  IInv'
<1>1. /\ request' \in [Requests -> Request]
      /\ request'[r].pc = "failed"
      /\ \A q \in Requests \ {r} : request'[q] = request[q]
      /\ torn' = (torn \/ request[r].pc \in {"readProfile", "flagging"})
      /\ overtaken' = (overtaken \/ request[r].pc = "storing")
      /\ UNCHANGED <<profile, grant, settles>>
  BY DEF FailRequest, IInv, TypeOK, Request
<1>2. failures' \in 0 .. MaxFailures
  BY ProfilesAssumption DEF FailRequest, IInv, TypeOK
<1>3. TypeOK' /\ LeavesOthers(r) /\ RecordsFollow'
  <2>1. torn' \in BOOLEAN /\ overtaken' \in BOOLEAN
    BY <1>1
  <2> QED
    BY <1>1, <1>2, <2>1 DEF IInv, TypeOK, LeavesOthers, RecordsFollow
<1>4. FollowsOne(r)'
  BY <1>1 DEF FollowsOne
<1>5. Connection'
  <2> SUFFICES ASSUME ~torn' PROVE Connection'
    BY DEF Connection
  <2>1. ~torn /\ request[r].pc \notin {"readProfile", "flagging"}
    BY <1>1
  <2>2. KeepsFlag(r)
    BY <1>1, <2>1 DEF KeepsFlag, IInv, TypeOK
  <2> QED
    BY <1>3, <2>2, ConnectionIsKept
<1>6. Payout'
  <2> SUFFICES ASSUME ~overtaken' PROVE Payout'
    BY DEF Payout
  <2>1. ~overtaken /\ request[r].pc # "storing"
    BY <1>1
  <2>2. KeepsBank(r)
    BY <1>1, <2>1 DEF KeepsBank, IInv, TypeOK
  <2> QED
    BY <1>3, <2>2, PayoutIsKept
<1> QED
  BY <1>3, <1>4, <1>5, <1>6, StepKeepsIInv

(* Every step keeps the invariant.                                          *)
LEMMA NextKeepsIInv == IInv /\ [Next]_vars => IInv'
<1>1. CASE Next
  BY <1>1, CreateProfileKeepsIInv, ReadGrantKeepsIInv, InsertProfileKeepsIInv,
     InsertConflictKeepsIInv, GoogleCallbackKeepsIInv, LoginWithCalendarKeepsIInv,
     ReadProfileKeepsIInv, FlagConnectedKeepsIInv, DisconnectGoogleKeepsIInv,
     PushEventKeepsIInv, PersistRefreshedKeepsIInv, FinishPushKeepsIInv,
     UpdatePayoutKeepsIInv, CreateOrUpdateSubaccountKeepsIInv,
     StorePayoutKeepsIInv, FailRequestKeepsIInv
  DEF Next
<1>2. CASE UNCHANGED vars
  BY <1>2 DEF vars, history, IInv, TypeOK, FollowsOne, RecordsFollow, Connection,
              Payout, FlagOnItsWay
<1> QED
  BY <1>1, <1>2

LEMMA Invariance == Spec => []IInv
BY InitIInv, NextKeepsIInv, PTL DEF Spec

-----------------------------------------------------------------------------
(* Types are kept by every interleaving of the handlers.                    *)
THEOREM TypesAreKept == Spec => []TypeOK
<1>1. IInv => TypeOK
  BY DEF IInv
<1> QED
  BY <1>1, Invariance, PTL

(* The flag on the profile agrees with the token row, however many requests *)
(* are in flight, but for the races and the crash that ConnectionAgrees     *)
(* names; the next consent or disconnection heals it.                       *)
THEOREM OnlyRacesPartFlagAndToken == Spec => []ConnectionAgrees
<1>1. IInv => ConnectionAgrees
  BY DEF IInv, Connection, ConnectionAgrees
<1> QED
  BY <1>1, Invariance, PTL

(* The bank account on the profile is the one Paystack settles to, but for  *)
(* an update that was overtaken or cut short.                               *)
THEOREM OnlyRacesPartProfileAndPaystack == Spec => []PayoutAgrees
<1>1. IInv => PayoutAgrees
  BY DEF IInv, Payout, PayoutAgrees
<1> QED
  BY <1>1, Invariance, PTL

-----------------------------------------------------------------------------
(* The calendar stays disconnected.                                         *)

Consented ==
    \E r \in Requests :
        /\ request'[r] # request[r]
        /\ request'[r].kind \in {"callback", "login"}

LEMMA NextStaysDisconnected ==
    IInv /\ Disconnected /\ [Next]_vars => Disconnected' \/ Consented
<1> SUFFICES ASSUME IInv, Disconnected, [Next]_vars, ~Disconnected'
             PROVE  Consented
  OBVIOUS
<1>1. \A r \in Requests : request[r] \in Request /\ FollowsOne(r)
  BY DEF IInv, TypeOK
<1>2. profile \in Profile /\ profile.exists /\ ~profile.connected /\ ~grant.exists
  BY DEF Disconnected, IInv, TypeOK
<1>3. ~UNCHANGED <<profile, grant>>
  BY DEF Disconnected
<1>4. ASSUME NEW r \in Requests, NEW account \in GoogleAccounts,
             NEW refreshGiven \in BOOLEAN, GoogleCallback(r, account, refreshGiven)
      PROVE  Consented
  <2>1. request'[r].kind = "callback" /\ request'[r].pc = "done" /\ request[r].pc = "new"
    BY <1>4 DEF GoogleCallback, Begin, IInv, TypeOK
  <2> QED
    BY <2>1 DEF Consented
<1>5. ASSUME NEW r \in Requests, NEW refreshGiven \in BOOLEAN,
             LoginWithCalendar(r, refreshGiven)
      PROVE  Consented
  <2>1. /\ request'[r].kind = "login"
        /\ request'[r].pc = "readProfile"
        /\ request[r].pc = "new"
    BY <1>5 DEF LoginWithCalendar, Begin, IInv, TypeOK
  <2> QED
    BY <2>1 DEF Consented
<1>6. ASSUME NEW r \in Requests, FlagConnected(r)
      PROVE  Consented
  <2>1. request[r].pc = "flagging" /\ request[r].kind = "login"
    BY <1>1, <1>6 DEF FlagConnected, FollowsOne
  <2>2. GoesOn(r, "done")
    BY <1>6, GoToGoesOn DEF FlagConnected, IInv
  <2> QED
    BY <2>1, <2>2 DEF Consented, GoesOn
<1>7. ASSUME NEW r \in Requests, InsertProfile(r)
      PROVE  FALSE
  BY <1>2, <1>7 DEF InsertProfile
<1>8. ASSUME NEW r \in Requests, DisconnectGoogle(r)
      PROVE  FALSE
  BY <1>2, <1>8 DEF DisconnectGoogle, Disconnected, Profile, NoGrant
<1>9. ASSUME NEW r \in Requests, NEW rotated \in BOOLEAN, PersistRefreshed(r, rotated)
      PROVE  FALSE
  BY <1>2, <1>3, <1>9 DEF PersistRefreshed
<1>10. ASSUME NEW r \in Requests, StorePayout(r)
       PROVE  FALSE
  BY <1>2, <1>10 DEF StorePayout, Disconnected, Profile
<1>11. ASSUME NEW r \in Requests,
              \/ CreateProfile(r) \/ ReadGrant(r) \/ InsertConflict(r)
              \/ ReadProfile(r) \/ PushEvent(r) \/ FinishPush(r)
              \/ \E bank \in BankAccounts : UpdatePayout(r, bank)
              \/ CreateOrUpdateSubaccount(r) \/ FailRequest(r)
       PROVE  FALSE
  BY <1>3, <1>11 DEF CreateProfile, ReadGrant, InsertConflict, ReadProfile, PushEvent,
     FinishPush, UpdatePayout, CreateOrUpdateSubaccount, FailRequest
<1>12. CASE UNCHANGED vars
  BY <1>3, <1>12 DEF vars
<1> QED
  BY <1>4, <1>5, <1>6, <1>7, <1>8, <1>9, <1>10, <1>11, <1>12 DEF Next

(* Nothing but the user's consent connects a disconnected calendar: not a   *)
(* profile creation that read the old token, not a push that was under way, *)
(* not a refreshed token.                                                   *)
THEOREM DisconnectedUntilConsent == Spec => DisconnectedStaysSo
<1>1. IInv /\ [Next]_vars =>
          [Disconnected =>
              \/ Disconnected'
              \/ \E r \in Requests :
                    /\ request'[r] # request[r]
                    /\ request'[r].kind \in {"callback", "login"}]_vars
  BY NextStaysDisconnected DEF Consented
<1> QED
  BY <1>1, Invariance, PTL DEF Spec, DisconnectedStaysSo

-----------------------------------------------------------------------------
(* The subaccount stays the only one.                                       *)

Reuses ==
    /\ Configured'
    /\ profile'.code = profile.code
    /\ \A c \in Requests : settles[c] = None => settles'[c] = None

\* What a step of one request must leave for the subaccount to be reused.
LEMMA StepReuses ==
    ASSUME Configured, NEW r \in Requests,
           \A q \in Requests \ {r} : request'[q] = request[q],
           profile'.code = profile.code,
           \A c \in Requests : settles[c] = None => settles'[c] = None,
           request'[r].kind = "payout" /\ InFlight(r)' => request'[r].code = profile.code
    PROVE  Reuses
<1>1. ASSUME NEW q \in Requests, request'[q].kind = "payout", InFlight(q)'
      PROVE  request'[q].code = profile'.code
  <2>1. CASE q = r
    BY <1>1, <2>1
  <2>2. CASE q # r
    BY <1>1, <2>2 DEF Configured, InFlight
  <2> QED
    BY <2>1, <2>2
<1> QED
  BY <1>1 DEF Configured, Reuses

LEMMA NextReuses == IInv /\ Configured /\ [Next]_vars => Reuses
<1> SUFFICES ASSUME IInv, Configured, [Next]_vars
             PROVE  Reuses
  OBVIOUS
<1>1. \A r \in Requests : request[r] \in Request /\ FollowsOne(r)
  BY DEF IInv, TypeOK
<1>2. profile \in Profile /\ profile.exists /\ profile.code \in Requests
      /\ settles[profile.code] # None
  BY DEF Configured, IInv, TypeOK, Profile, RecordsFollow
<1>3. ASSUME NEW r \in Requests, NEW kind \in {"create", "callback", "login", "disconnect", "push"},
             NEW pc, NEW account, NEW code, NEW bank,
             Begin(r, kind, pc, account, code, bank),
             profile'.code = profile.code, settles' = settles
      PROVE  Reuses
  <2>1. /\ request'[r].kind = kind
        /\ \A q \in Requests \ {r} : request'[q] = request[q]
    BY <1>3 DEF Begin, IInv, TypeOK
  <2> QED
    BY <1>3, <2>1, StepReuses
<1>4. ASSUME NEW r \in Requests, UNCHANGED settles, profile'.code = profile.code,
             GoTo(r, "done") \/ GoTo(r, "rejected")
      PROVE  Reuses
  <2>1. /\ request'[r].pc \in {"done", "rejected"}
        /\ \A q \in Requests \ {r} : request'[q] = request[q]
    BY <1>4, GoToGoesOn DEF GoesOn, IInv
  <2> QED
    BY <1>4, <2>1, StepReuses DEF InFlight
<1>5. ASSUME NEW r \in Requests, CreateProfile(r)
      PROVE  Reuses
  BY <1>3, <1>5 DEF CreateProfile
<1>6. ASSUME NEW r \in Requests, ReadGrant(r)
      PROVE  Reuses
  <2>1. request[r].kind = "create"
    BY <1>1, <1>6 DEF ReadGrant, FollowsOne
  <2>2. /\ request'[r].kind = "create"
        /\ \A q \in Requests \ {r} : request'[q] = request[q]
        /\ UNCHANGED <<profile, settles>>
    BY <1>1, <1>6, <2>1 DEF ReadGrant, IInv, TypeOK, Request
  <2> QED
    BY <2>2, StepReuses
<1>7. ASSUME NEW r \in Requests, InsertProfile(r)
      PROVE  Reuses
  BY <1>2, <1>7 DEF InsertProfile
<1>8. ASSUME NEW r \in Requests, InsertConflict(r)
      PROVE  Reuses
  BY <1>4, <1>8 DEF InsertConflict
<1>9. ASSUME NEW r \in Requests, NEW account \in GoogleAccounts,
             NEW refreshGiven \in BOOLEAN, GoogleCallback(r, account, refreshGiven)
      PROVE  Reuses
  <2>1. profile'.code = profile.code
    BY <1>2, <1>9 DEF GoogleCallback, Profile
  <2> QED
    BY <1>3, <1>9, <2>1 DEF GoogleCallback
<1>10. ASSUME NEW r \in Requests, NEW refreshGiven \in BOOLEAN,
              LoginWithCalendar(r, refreshGiven)
       PROVE  Reuses
  BY <1>3, <1>10 DEF LoginWithCalendar
<1>11. ASSUME NEW r \in Requests, ReadProfile(r)
       PROVE  Reuses
  <2>1. request[r].kind = "login"
    BY <1>1, <1>11 DEF ReadProfile, FollowsOne
  <2>2. /\ request'[r].kind = "login"
        /\ \A q \in Requests \ {r} : request'[q] = request[q]
        /\ UNCHANGED <<profile, settles>>
    BY <1>11, <2>1, GoToGoesOn DEF ReadProfile, GoesOn, IInv
  <2> QED
    BY <2>2, StepReuses
<1>12. ASSUME NEW r \in Requests, FlagConnected(r)
       PROVE  Reuses
  BY <1>2, <1>4, <1>12 DEF FlagConnected, Profile
<1>13. ASSUME NEW r \in Requests, DisconnectGoogle(r)
       PROVE  Reuses
  <2>1. profile'.code = profile.code
    BY <1>2, <1>13 DEF DisconnectGoogle, Profile
  <2> QED
    BY <1>3, <1>13, <2>1 DEF DisconnectGoogle
<1>14. ASSUME NEW r \in Requests, PushEvent(r)
       PROVE  Reuses
  BY <1>3, <1>14 DEF PushEvent
<1>15. ASSUME NEW r \in Requests, NEW rotated \in BOOLEAN, PersistRefreshed(r, rotated)
       PROVE  Reuses
  BY <1>4, <1>15 DEF PersistRefreshed
<1>16. ASSUME NEW r \in Requests, FinishPush(r)
       PROVE  Reuses
  BY <1>4, <1>16 DEF FinishPush
<1>17. ASSUME NEW r \in Requests, NEW bank \in BankAccounts, UpdatePayout(r, bank)
       PROVE  Reuses
  <2>1. /\ request'[r].code = profile.code
        /\ \A q \in Requests \ {r} : request'[q] = request[q]
        /\ UNCHANGED <<profile, settles>>
    BY <1>17 DEF UpdatePayout, Begin, IInv, TypeOK
  <2> QED
    BY <2>1, StepReuses
<1>18. ASSUME NEW r \in Requests, CreateOrUpdateSubaccount(r)
       PROVE  Reuses
  <2>1. request[r].pc = "settling" /\ request[r].kind = "payout"
    BY <1>1, <1>18 DEF CreateOrUpdateSubaccount, FollowsOne
  <2>2. request[r].code = profile.code /\ request[r].code # None
    BY <1>2, <2>1, ProfilesAssumption DEF Configured, InFlight
  <2>3. PICK told \in Request :
            told = [request[r] EXCEPT !.pc = "storing", !.code = profile.code]
    BY <1>1, <1>2 DEF Request
  <2>4. told.code = profile.code
    BY <1>1, <2>3 DEF Request
  <2>5. /\ settles' = [settles EXCEPT ![profile.code] = request[r].bank]
        /\ request' = [request EXCEPT ![r] = told]
        /\ UNCHANGED profile
    BY <1>18, <2>2, <2>3 DEF CreateOrUpdateSubaccount
  <2>6. /\ request'[r].code = profile.code
        /\ \A q \in Requests \ {r} : request'[q] = request[q]
    BY <2>4, <2>5 DEF IInv, TypeOK
  <2>7. \A c \in Requests : settles[c] = None => settles'[c] = None
    BY <1>2, <2>5 DEF IInv, TypeOK
  <2> QED
    BY <2>5, <2>6, <2>7, StepReuses
<1>19. ASSUME NEW r \in Requests, StorePayout(r)
       PROVE  Reuses
  <2>1. request[r].pc = "storing" /\ request[r].kind = "payout"
    BY <1>1, <1>19 DEF StorePayout, FollowsOne
  <2>2. request[r].code = profile.code
    BY <2>1 DEF Configured, InFlight
  <2>3. profile'.code = profile.code
    BY <1>2, <1>19, <2>2 DEF StorePayout, Profile
  <2> QED
    BY <1>4, <1>19, <2>3 DEF StorePayout
<1>20. ASSUME NEW r \in Requests, FailRequest(r)
       PROVE  Reuses
  <2>1. /\ request'[r].pc = "failed"
        /\ \A q \in Requests \ {r} : request'[q] = request[q]
        /\ UNCHANGED <<profile, settles>>
    BY <1>1, <1>20 DEF FailRequest, IInv, TypeOK, Request
  <2> QED
    BY <2>1, StepReuses DEF InFlight
<1>21. CASE UNCHANGED vars
  BY <1>21 DEF vars, Configured, Reuses, InFlight
<1> QED
  BY <1>5, <1>6, <1>7, <1>8, <1>9, <1>10, <1>11, <1>12, <1>13, <1>14, <1>15,
     <1>16, <1>17, <1>18, <1>19, <1>20, <1>21
  DEF Next

(* Once every payout update under way knows the subaccount on record, it is *)
(* updated from then on, never doubled.                                     *)
THEOREM OneSubaccount == Spec => SubaccountIsReused
<1>1. IInv /\ [Next]_vars =>
          [Configured =>
              /\ Configured'
              /\ profile'.code = profile.code
              /\ \A c \in Requests : settles[c] = None => settles'[c] = None]_vars
  BY NextReuses DEF Reuses
<1> QED
  BY <1>1, Invariance, PTL DEF Spec, SubaccountIsReused
=============================================================================
