------------------------------- MODULE Sessions -------------------------------
(***************************************************************************)
(* Accounts and their sessions: AuthService.  Refresh tokens are rows that  *)
(* are issued, exchanged for new ones and revoked; a password is changed    *)
(* with a link that has been mailed.                                        *)
(*                                                                          *)
(* Every request runs on its own and stops at each database call; the       *)
(* refresh token a request issues, and the reset link it mails, is named    *)
(* by the request.  Times are relative, as in Bookings: what is left until  *)
(* expiresAt, counted down to -1.                                           *)
(***************************************************************************)
EXTENDS Integers

CONSTANTS
    Requests,     \* calls of the auth controller
    Emails,       \* an account is known by its e-mail address
    Passwords,
    None,         \* no password, no token
    TokenLife,    \* JWT_REFRESH_EXPIRES_IN, in ticks
    ResetLife,    \* the hour a reset link lasts, in ticks
    MaxFailures   \* bound: requests cut short by a crash or an error

ASSUME SessionsAssumption ==
    /\ None \notin Requests \cup Passwords \cup Emails
    /\ TokenLife \in Nat \ {0}
    /\ ResetLife \in Nat \ {0}
    /\ MaxFailures \in Nat

VARIABLES
    user,       \* users rows, by e-mail address
    request,    \* requests in flight
    token,      \* refresh_tokens rows, by the request that issued them
    mailed,     \* the reset links that have been mailed
    failures    \* requests cut short so far

vars == <<user, request, token, mailed, failures>>

User ==
    [exists : BOOLEAN, password : Passwords \cup {None},
     resetToken : Requests \cup {None}, resetFor : -1 .. ResetLife]

NoUser ==
    [exists |-> FALSE, password |-> None, resetToken |-> None, resetFor |-> -1]

\* An account whose user signs in with Google has no password.
Account(password) ==
    [exists |-> TRUE, password |-> password, resetToken |-> None, resetFor |-> -1]

Request ==
    [pc : {"new", "creating", "creatingByGoogle", "revoking", "issuing",
           "storing", "mailing", "resetting",
           "signedIn", "signedOut", "linkSent", "reset", "rejected", "failed"},
     email : Emails \cup {None}, password : Passwords \cup {None},
     token : Requests \cup {None}]

NewRequest == [pc |-> "new", email |-> None, password |-> None, token |-> None]

Token ==
    [status : {"none", "live", "revoked"}, email : Emails \cup {None},
     validFor : -1 .. TokenLife]

NoToken == [status |-> "none", email |-> None, validFor |-> -1]

Init ==
    /\ user \in [Emails -> {NoUser} \cup {Account(p) : p \in Passwords \cup {None}}]
    /\ request = [r \in Requests |-> NewRequest]
    /\ token = [r \in Requests |-> NoToken]
    /\ mailed = {}
    /\ failures = 0

-----------------------------------------------------------------------------
(* Signing in.                                                              *)

Begin(r, pc, email, password, t) ==
    /\ request[r].pc = "new"
    /\ request' = [request EXCEPT ![r] =
           [pc |-> pc, email |-> email, password |-> password, token |-> t]]

GoTo(r, pc) == request' = [request EXCEPT ![r].pc = pc]

Register(r, e, p) ==
    /\ Begin(r, IF user[e].exists THEN "rejected" ELSE "creating", e, p, None)
    /\ UNCHANGED <<user, token, mailed, failures>>

\* The password is compared with the row just read.
Login(r, e, p) ==
    /\ Begin(r, IF user[e].password = p THEN "issuing" ELSE "rejected", e, p, None)
    /\ UNCHANGED <<user, token, mailed, failures>>

\* Google has vouched for the address.
GoogleLogin(r, e) ==
    /\ Begin(r, IF user[e].exists THEN "issuing" ELSE "creatingByGoogle", e, None, None)
    /\ UNCHANGED <<user, token, mailed, failures>>

\* Mutant: the row of an address that is taken meanwhile is overwritten.
CreateOrReplaceUser(r) ==
    /\ request[r].pc \in {"creating", "creatingByGoogle"}
    /\ user' = [user EXCEPT ![request[r].email] = Account(request[r].password)]
    /\ GoTo(r, "issuing")
    /\ UNCHANGED <<token, mailed, failures>>

CreateUser(r) ==
    /\ request[r].pc \in {"creating", "creatingByGoogle"}
    /\ ~user[request[r].email].exists
    /\ user' = [user EXCEPT ![request[r].email] = Account(request[r].password)]
    /\ GoTo(r, "issuing")
    /\ UNCHANGED <<token, mailed, failures>>

\* P2002 of the unique column email: 409 for register, 401 for googleLogin.
CreateConflict(r) ==
    /\ request[r].pc \in {"creating", "creatingByGoogle"}
    /\ user[request[r].email].exists
    /\ GoTo(r, "rejected")
    /\ UNCHANGED <<user, token, mailed, failures>>

\* Mutant: seconds where milliseconds were meant.
IssueTokensInSeconds(r) ==
    /\ request[r].pc = "issuing"
    /\ token' = [token EXCEPT ![r] =
           [status |-> "live", email |-> request[r].email, validFor |-> TokenLife * 1000]]
    /\ GoTo(r, "signedIn")
    /\ UNCHANGED <<user, mailed, failures>>

\* issueTokens: the row of the new refresh token is created.
IssueTokens(r) ==
    /\ request[r].pc = "issuing"
    /\ token' = [token EXCEPT ![r] =
           [status |-> "live", email |-> request[r].email, validFor |-> TokenLife]]
    /\ GoTo(r, "signedIn")
    /\ UNCHANGED <<user, mailed, failures>>

-----------------------------------------------------------------------------
(* Refreshing and signing out.                                              *)

Issued(t) == token[t].status # "none"

\* Mutant: revokedAt is not asked for.
RefreshAnyToken(r, t) ==
    /\ Issued(t)
    /\ Begin(r, IF token[t].validFor > 0 THEN "revoking" ELSE "rejected",
             token[t].email, None, t)
    /\ UNCHANGED <<user, token, mailed, failures>>

\* A row of this token that is neither revoked nor expired is looked for.
Refresh(r, t) ==
    /\ Issued(t)
    /\ Begin(r, IF token[t].status = "live" /\ token[t].validFor > 0
                THEN "revoking" ELSE "rejected",
             token[t].email, None, t)
    /\ UNCHANGED <<user, token, mailed, failures>>

\* Mutant: the new token is issued first and the old one never revoked.
RevokeLater(r) ==
    /\ request[r].pc = "revoking"
    /\ GoTo(r, "issuing")
    /\ UNCHANGED <<user, token, mailed, failures>>

\* The row found is revoked by its id, whatever has happened to it since.
Revoke(r) ==
    /\ request[r].pc = "revoking"
    /\ token' = [token EXCEPT ![request[r].token].status = "revoked"]
    /\ GoTo(r, "issuing")
    /\ UNCHANGED <<user, mailed, failures>>

\* Mutant: the WHERE clause names the user only.
LogoutEverywhere(r, e, t) ==
    /\ Issued(t)
    /\ Begin(r, "signedOut", e, None, t)
    /\ token' = [s \in Requests |-> IF token[s].email = e
                                    THEN [token[s] EXCEPT !.status = "revoked"]
                                    ELSE token[s]]
    /\ UNCHANGED <<user, mailed, failures>>

\* A user signs out with a token, which need not be one of hers.
Logout(r, e, t) ==
    /\ Issued(t)
    /\ Begin(r, "signedOut", e, None, t)
    /\ token' = IF token[t].email = e
                THEN [token EXCEPT ![t].status = "revoked"] ELSE token
    /\ UNCHANGED <<user, mailed, failures>>

-----------------------------------------------------------------------------
(* Forgotten passwords.                                                     *)

\* An address without an account is answered like any other.
ForgotPassword(r, e) ==
    /\ Begin(r, IF user[e].exists THEN "storing" ELSE "linkSent", e, None, None)
    /\ UNCHANGED <<user, token, mailed, failures>>

\* The account's one reset token is replaced.
StoreResetToken(r) ==
    /\ request[r].pc = "storing"
    /\ user' = [user EXCEPT ![request[r].email] = [@ EXCEPT
           !.resetToken = r, !.resetFor = ResetLife]]
    /\ GoTo(r, "mailing")
    /\ UNCHANGED <<token, mailed, failures>>

\* The mail goes out, or its failure is logged.
SendPasswordReset(r) ==
    /\ request[r].pc = "mailing"
    /\ mailed' \in {mailed, mailed \cup {r}}
    /\ GoTo(r, "linkSent")
    /\ UNCHANGED <<user, token, failures>>

\* A link still counts at the very instant of its expiry.
LinkOf(t, e) == user[e].resetToken = t /\ user[e].resetFor >= 0

\* Somebody who has the mail opens its link.
ResetPassword(r, t, p) ==
    /\ t \in mailed
    /\ \/ \E e \in Emails : LinkOf(t, e) /\ Begin(r, "resetting", e, p, t)
       \/ /\ \A e \in Emails : ~LinkOf(t, e)
          /\ Begin(r, "rejected", None, p, t)
    /\ UNCHANGED <<user, token, mailed, failures>>

\* Mutant: the reset token stays where it is.
StorePasswordOnly(r) ==
    /\ request[r].pc = "resetting"
    /\ user' = [user EXCEPT ![request[r].email].password = request[r].password]
    /\ GoTo(r, "reset")
    /\ UNCHANGED <<token, mailed, failures>>

\* The password of the account found is stored, and whatever reset token the
\* account has by now is cleared.
StorePassword(r) ==
    /\ request[r].pc = "resetting"
    /\ user' = [user EXCEPT ![request[r].email] = Account(request[r].password)]
    /\ GoTo(r, "reset")
    /\ UNCHANGED <<token, mailed, failures>>

-----------------------------------------------------------------------------
CountDown(n) == IF n > -1 THEN n - 1 ELSE n

Tick ==
    /\ \/ \E e \in Emails : user[e].resetFor > -1
       \/ \E t \in Requests : token[t].validFor > -1
    /\ user' = [e \in Emails |-> [user[e] EXCEPT !.resetFor = CountDown(@)]]
    /\ token' = [t \in Requests |-> [token[t] EXCEPT !.validFor = CountDown(@)]]
    /\ UNCHANGED <<request, mailed, failures>>

InFlight == {"creating", "creatingByGoogle", "revoking", "issuing", "storing",
             "mailing", "resetting"}

\* A request is cut short at an await; what it has written stays written.
FailRequest(r) ==
    /\ request[r].pc \in InFlight
    /\ failures < MaxFailures
    /\ failures' = failures + 1
    /\ GoTo(r, "failed")
    /\ UNCHANGED <<user, token, mailed>>

Next ==
    \/ \E r \in Requests :
          \/ \E e \in Emails :
                \/ \E p \in Passwords : Register(r, e, p) \/ Login(r, e, p)
                \/ GoogleLogin(r, e)
                \/ ForgotPassword(r, e)
                \/ \E t \in Requests : Logout(r, e, t)
          \/ \E t \in Requests :
                \/ Refresh(r, t)
                \/ \E p \in Passwords : ResetPassword(r, t, p)
          \/ CreateUser(r) \/ CreateConflict(r) \/ IssueTokens(r) \/ Revoke(r)
          \/ StoreResetToken(r) \/ SendPasswordReset(r) \/ StorePassword(r)
          \/ FailRequest(r)
    \/ Tick

Spec == Init /\ [][Next]_vars

-----------------------------------------------------------------------------
(* Every variable holds what the schema and the handlers may put there.     *)
TypeOK ==
    /\ user \in [Emails -> User]
    /\ request \in [Requests -> Request]
    /\ token \in [Requests -> Token]
    /\ mailed \subseteq Requests
    /\ failures \in 0 .. MaxFailures

\* Request r has exchanged token t, or is about to issue the new one.
Exchanges(r, t) ==
    request[r].token = t /\ request[r].pc \in {"issuing", "signedIn"}

(* README.md:70-71, tokens are rotated on use: a refresh token and the one  *)
(* issued for it are never both live, whichever requests race.              *)
RotationRetiresToken ==
    \A r, t \in Requests : Exchanges(r, t) => token[t].status = "revoked"

(* A session ends by its own logout or its own refresh, one that was cut    *)
(* short half-way included: never because of what another session of the    *)
(* same user does, or of another request's failure.                         *)
SessionsEndForAReason ==
    \A t \in Requests : token[t].status = "revoked" =>
        \E r \in Requests :
            /\ request[r].token = t
            /\ request[r].pc \in {"issuing", "signedIn", "signedOut", "failed"}

Retired(t) ==
    /\ token[t].status = "revoked"
    /\ \A r \in Requests :
          request[r].token = t => request[r].pc \notin {"revoking", "issuing"}

(* Once a token is revoked and no refresh that found it live is under way,  *)
(* it is never exchanged again.                                             *)
RetiredStaysRetired == [][\A t \in Requests : Retired(t) => Retired(t)']_vars

(* The password of an account changes only through a link that was mailed   *)
(* to its own address: neither a registration nor a Google login that lost  *)
(* the race for the address touches it.                                     *)
PasswordNeedsMailedLink ==
    [][\A e \in Emails :
          (user[e].exists /\ user'[e].password # user[e].password) =>
              \E r \in Requests :
                  /\ request[r].pc = "resetting"
                  /\ request[r].token \in mailed
                  /\ request[request[r].token].email = e]_vars

Spent(t) ==
    /\ \E r \in Requests : request[r].token = t /\ request[r].pc = "reset"
    /\ \A r \in Requests : request[r].token = t => request[r].pc # "resetting"

(* A link that has been used, and that nobody else had opened by then, does *)
(* not change the password a second time (resetPassword).                   *)
SpentStaysSpent == [][\A t \in Requests : Spent(t) => Spent(t)']_vars
=============================================================================
