---------------------------- MODULE SessionsProofs ----------------------------
(***************************************************************************)
(* Theorems about Sessions, for any number of requests, addresses and       *)
(* passwords.                                                               *)
(***************************************************************************)
EXTENDS Sessions, TLAPS

-----------------------------------------------------------------------------
(* The inductive invariant.  What a request has read ties it to rows that   *)
(* others change; these facts say what no other request can undo.           *)

\* A request issues its token last; one that revokes a token names one that was
\* issued, and one that changes a password names a link mailed to this address.
RequestsFollow ==
    \A r \in Requests :
        /\ request[r].pc # "signedIn" => token[r].status = "none"
        /\ request[r].pc \in {"creating", "creatingByGoogle"} => request[r].token = None
        /\ request[r].pc = "revoking" =>
              request[r].token \in Requests /\ Issued(request[r].token)
        /\ request[r].pc \in {"storing", "mailing", "creating", "creatingByGoogle",
                              "resetting"} => request[r].email \in Emails
        /\ request[r].pc = "resetting" =>
              /\ request[r].token \in mailed
              /\ request[request[r].token].email = request[r].email

\* A reset link was stored by a request for the address it is stored with.
LinksFollow ==
    /\ \A e \in Emails : user[e].resetToken # None =>
          /\ request[user[e].resetToken].email = e
          /\ request[user[e].resetToken].pc # "new"
    /\ \A t \in mailed : request[t].pc = "linkSent"

Sound == RequestsFollow /\ LinksFollow /\ RotationRetiresToken

IInv == TypeOK /\ Sound

(* A new account has no reset link.                                         *)
LEMMA AccountType ==
    ASSUME NEW p \in Passwords \cup {None}
    PROVE  /\ Account(p) \in User
           /\ Account(p).resetToken = None
           /\ Account(p).password = p
           /\ Account(p).exists
BY SessionsAssumption DEF Account, User

(* Initially every variable has its type, and nothing is under way.         *)
LEMMA InitIInv == Init => IInv
<1> SUFFICES ASSUME Init PROVE IInv
  OBVIOUS
<1>1. /\ NoUser \in User /\ NoUser.resetToken = None
      /\ \A p \in Passwords \cup {None} :
            Account(p) \in User /\ Account(p).resetToken = None
      /\ NewRequest \in Request
      /\ NoToken \in Token
  <2>1. NewRequest \in Request
    BY DEF NewRequest, Request
  <2>2. NoToken \in Token
    BY SessionsAssumption DEF NoToken, Token
  <2>3. NoUser \in User /\ NoUser.resetToken = None
    BY SessionsAssumption DEF NoUser, User
  <2> QED
    BY <2>1, <2>2, <2>3, AccountType
<1>2. failures \in 0 .. MaxFailures
  BY SessionsAssumption DEF Init
<1>3. TypeOK
  BY <1>1, <1>2 DEF Init, TypeOK
<1>4. \A e \in Emails : user[e].resetToken = None
  <2> SUFFICES ASSUME NEW e \in Emails PROVE user[e].resetToken = None
    OBVIOUS
  <2>1. user[e] = NoUser \/ \E p \in Passwords \cup {None} : user[e] = Account(p)
    BY DEF Init
  <2> QED
    BY <1>1, <2>1
<1>5. Sound
  BY <1>4 DEF Init, Sound, RequestsFollow, LinksFollow, RotationRetiresToken,
              Exchanges, NewRequest, NoToken
<1> QED
  BY <1>3, <1>5 DEF IInv

-----------------------------------------------------------------------------
(* Steps that only move a request on.                                       *)

\* What the invariant needs to know of a request that comes in.
LEMMA BeginKeepsIInv ==
    ASSUME IInv, NEW r \in Requests,
           NEW pc \in {"creating", "creatingByGoogle", "revoking", "issuing",
                       "storing", "resetting", "linkSent", "signedOut", "rejected"},
           NEW e \in Emails \cup {None}, NEW p \in Passwords \cup {None},
           NEW t \in Requests \cup {None},
           Begin(r, pc, e, p, t), UNCHANGED <<user, mailed, failures>>,
           token' \in [Requests -> Token],
           \A s \in Requests :
              /\ Issued(s)' <=> Issued(s)
              /\ token[s].status = "revoked" => token'[s].status = "revoked",
           pc \in {"creating", "creatingByGoogle", "storing", "resetting"}
              => e \in Emails,
           pc \in {"creating", "creatingByGoogle", "issuing"} => t = None,
           pc = "revoking" => t \in Requests /\ Issued(t),
           pc = "resetting" => t \in mailed /\ request[t].email = e
    PROVE  IInv'
<1> USE DEF IInv, Sound, TypeOK
<1>1. /\ request' \in [Requests -> Request]
      /\ request'[r] = [pc |-> pc, email |-> e, password |-> p, token |-> t]
      /\ \A q \in Requests \ {r} : request'[q] = request[q]
      /\ request[r].pc = "new"
  BY DEF Begin, Request
<1>2. TypeOK'
  BY <1>1
<1>3. RequestsFollow'
  <2> SUFFICES ASSUME NEW q \in Requests
               PROVE  /\ request'[q].pc # "signedIn" => token'[q].status = "none"
                      /\ request'[q].pc \in {"creating", "creatingByGoogle"} =>
                            request'[q].token = None
                      /\ request'[q].pc = "revoking" =>
                            request'[q].token \in Requests /\ Issued(request[q].token)' 
                      /\ request'[q].pc \in
                            {"storing", "mailing", "creating", "creatingByGoogle",
                             "resetting"} => request'[q].email \in Emails
                      /\ request'[q].pc = "resetting" =>
                            /\ request'[q].token \in mailed
                            /\ request'[request'[q].token].email = request'[q].email
    BY DEF RequestsFollow
  <2>1. \A s \in mailed : s # r /\ request'[s] = request[s]
    BY <1>1 DEF LinksFollow
  <2>2. CASE q = r
    BY <1>1, <2>1, <2>2 DEF RequestsFollow, Issued
  <2>3. CASE q # r
    BY <1>1, <2>1, <2>3 DEF RequestsFollow, Issued
  <2> QED
    BY <2>2, <2>3
<1>4. LinksFollow'
  BY <1>1 DEF LinksFollow, User
<1>5. RotationRetiresToken'
  <2> SUFFICES ASSUME NEW q \in Requests, NEW s \in Requests,
                      request'[q].token = s, request'[q].pc \in {"issuing", "signedIn"}
               PROVE  token'[s].status = "revoked"
    BY DEF RotationRetiresToken, Exchanges
  <2>1. q # r
    BY <1>1, SessionsAssumption
  <2> QED
    BY <1>1, <2>1 DEF RotationRetiresToken, Exchanges
<1> QED
  BY <1>2, <1>3, <1>4, <1>5

(* A request that moves on and changes nothing else but its phase.          *)
LEMMA GoToKeepsIInv ==
    ASSUME IInv, NEW r \in Requests,
           NEW pc \in {"issuing", "mailing", "signedIn", "linkSent", "reset",
                       "rejected", "failed"},
           request[r].pc \notin {"new", "signedIn", "linkSent"}, GoTo(r, pc),
           user' \in [Emails -> User], token' \in [Requests -> Token],
           mailed' \in SUBSET Requests, failures' \in 0 .. MaxFailures,
           \A t \in mailed' : t \in mailed \/ (t = r /\ pc = "linkSent"),
           \A t \in mailed : t \in mailed',
           \A e \in Emails :
              \/ user'[e].resetToken = user[e].resetToken
              \/ user'[e].resetToken = None
              \/ user'[e].resetToken = r /\ request[r].email = e,
           \A s \in Requests :
              /\ Issued(s) => Issued(s)'
              /\ s # r => (Issued(s)' => Issued(s))
              /\ token[s].status = "revoked" /\ s # r => token'[s].status = "revoked",
           pc # "signedIn" => ~Issued(r)',
           pc = "mailing" => request[r].email \in Emails,
           pc \in {"issuing", "signedIn"} =>
              \A s \in Requests : request[r].token = s => token'[s].status = "revoked"
    PROVE  IInv'
<1> USE DEF IInv, Sound, TypeOK
<1>1. /\ request' \in [Requests -> Request]
      /\ request'[r].pc = pc
      /\ request'[r].email = request[r].email
      /\ request'[r].token = request[r].token
      /\ \A q \in Requests \ {r} : request'[q] = request[q]
  BY DEF GoTo, Request
<1>2. TypeOK'
  BY <1>1
<1>3. \A q \in Requests :
         /\ request'[q].email = request[q].email
         /\ request'[q].token = request[q].token
         /\ request'[q].pc = "new" => q # r /\ request[q].pc = "new"
  BY <1>1
<1>4. RequestsFollow'
  <2> SUFFICES ASSUME NEW q \in Requests
               PROVE  /\ request'[q].pc # "signedIn" => token'[q].status = "none"
                      /\ request'[q].pc \in {"creating", "creatingByGoogle"} =>
                            request'[q].token = None
                      /\ request'[q].pc = "revoking" =>
                            request'[q].token \in Requests /\ Issued(request[q].token)'
                      /\ request'[q].pc \in
                            {"storing", "mailing", "creating", "creatingByGoogle",
                             "resetting"} => request'[q].email \in Emails
                      /\ request'[q].pc = "resetting" =>
                            /\ request'[q].token \in mailed'
                            /\ request'[request'[q].token].email = request'[q].email
    BY DEF RequestsFollow
  <2>1. CASE q = r
    BY <1>1, <2>1 DEF Issued
  <2>2. CASE q # r
    BY <1>1, <1>3, <2>2 DEF RequestsFollow, Issued
  <2> QED
    BY <2>1, <2>2
<1>5. LinksFollow'
  BY <1>1, <1>3 DEF LinksFollow, User
<1>6. token[r].status = "none"
  BY DEF RequestsFollow
<1>7. RotationRetiresToken'
  <2> SUFFICES ASSUME NEW q \in Requests, NEW s \in Requests, Exchanges(q, s)'
               PROVE  token'[s].status = "revoked"
    BY DEF RotationRetiresToken
  <2>1. CASE q = r
    BY <1>1, <2>1 DEF Exchanges
  <2>2. CASE q # r
    <3>1. token[s].status = "revoked"
      BY <1>1, <2>2 DEF RotationRetiresToken, Exchanges
    <3> QED
      BY <1>6, <3>1
  <2> QED
    BY <2>1, <2>2
<1> QED
  BY <1>2, <1>4, <1>5, <1>7

-----------------------------------------------------------------------------
(* The steps.                                                               *)

(* The clock changes no status, no link and no password.                    *)
LEMMA TickKeepsIInv ==
    ASSUME IInv, Tick
    PROVE  IInv'
<1> USE DEF IInv, Sound, TypeOK
<1>1. \A e \in Emails :
         /\ user'[e] \in User
         /\ user'[e].resetToken = user[e].resetToken
  <2> SUFFICES ASSUME NEW e \in Emails
               PROVE  user'[e] \in User /\ user'[e].resetToken = user[e].resetToken
    OBVIOUS
  <2>1. user[e] \in User /\ user'[e] = [user[e] EXCEPT !.resetFor = CountDown(@)]
    BY DEF Tick
  <2>2. CountDown(user[e].resetFor) \in -1 .. ResetLife
    BY <2>1, SessionsAssumption DEF User, CountDown
  <2> QED
    BY <2>1, <2>2 DEF User
<1>2. \A t \in Requests :
         /\ token'[t] \in Token
         /\ token'[t].status = token[t].status
  <2> SUFFICES ASSUME NEW t \in Requests
               PROVE  token'[t] \in Token /\ token'[t].status = token[t].status
    OBVIOUS
  <2>1. token[t] \in Token /\ token'[t] = [token[t] EXCEPT !.validFor = CountDown(@)]
    BY DEF Tick
  <2>2. CountDown(token[t].validFor) \in -1 .. TokenLife
    BY <2>1, SessionsAssumption DEF Token, CountDown
  <2> QED
    BY <2>1, <2>2 DEF Token
<1>3. TypeOK'
  BY <1>1, <1>2 DEF Tick
<1>4. RequestsFollow'
  BY <1>2 DEF Tick, RequestsFollow, Issued
<1>5. LinksFollow'
  BY <1>1 DEF Tick, LinksFollow
<1>6. RotationRetiresToken'
  BY <1>2 DEF Tick, RotationRetiresToken, Exchanges
<1> QED
  BY <1>3, <1>4, <1>5, <1>6

(* A request comes in.                                                      *)
LEMMA ArrivalKeepsIInv ==
    ASSUME IInv, NEW r \in Requests,
           \/ \E e \in Emails, p \in Passwords : Register(r, e, p) \/ Login(r, e, p)
           \/ \E e \in Emails : GoogleLogin(r, e) \/ ForgotPassword(r, e)
           \/ \E e \in Emails, t \in Requests : Logout(r, e, t)
           \/ \E t \in Requests : Refresh(r, t)
           \/ \E t \in Requests, p \in Passwords : ResetPassword(r, t, p)
    PROVE  IInv'
<1> USE DEF IInv, TypeOK
<1>1. ASSUME NEW e \in Emails, NEW p \in Passwords, Register(r, e, p) \/ Login(r, e, p)
      PROVE  IInv'
  <2>1. CASE Register(r, e, p)
    <3> DEFINE pc == IF user[e].exists THEN "rejected" ELSE "creating"
    <3>1. Begin(r, pc, e, p, None) /\ UNCHANGED <<user, token, mailed, failures>>
      BY <2>1 DEF Register
    <3>2. pc \in {"rejected", "creating"}
      OBVIOUS
    <3> HIDE DEF pc
    <3> QED
      BY <3>1, <3>2, BeginKeepsIInv DEF Issued
  <2>2. CASE Login(r, e, p)
    <3> DEFINE pc == IF user[e].password = p THEN "issuing" ELSE "rejected"
    <3>1. Begin(r, pc, e, p, None) /\ UNCHANGED <<user, token, mailed, failures>>
      BY <2>2 DEF Login
    <3>2. pc \in {"rejected", "issuing"}
      OBVIOUS
    <3> HIDE DEF pc
    <3> QED
      BY <3>1, <3>2, BeginKeepsIInv DEF Issued
  <2> QED
    BY <1>1, <2>1, <2>2
<1>2. ASSUME NEW e \in Emails, GoogleLogin(r, e) \/ ForgotPassword(r, e)
      PROVE  IInv'
  <2>1. CASE GoogleLogin(r, e)
    <3> DEFINE pc == IF user[e].exists THEN "issuing" ELSE "creatingByGoogle"
    <3>1. Begin(r, pc, e, None, None) /\ UNCHANGED <<user, token, mailed, failures>>
      BY <2>1 DEF GoogleLogin
    <3>2. pc \in {"issuing", "creatingByGoogle"}
      OBVIOUS
    <3> HIDE DEF pc
    <3> QED
      BY <3>1, <3>2, BeginKeepsIInv DEF Issued
  <2>2. CASE ForgotPassword(r, e)
    <3> DEFINE pc == IF user[e].exists THEN "storing" ELSE "linkSent"
    <3>1. Begin(r, pc, e, None, None) /\ UNCHANGED <<user, token, mailed, failures>>
      BY <2>2 DEF ForgotPassword
    <3>2. pc \in {"storing", "linkSent"}
      OBVIOUS
    <3> HIDE DEF pc
    <3> QED
      BY <3>1, <3>2, BeginKeepsIInv DEF Issued
  <2> QED
    BY <1>2, <2>1, <2>2
<1>3. ASSUME NEW e \in Emails, NEW t \in Requests, Logout(r, e, t)
      PROVE  IInv'
  <2>1. /\ token' \in [Requests -> Token]
        /\ \A s \in Requests :
              /\ Issued(s)' <=> Issued(s)
              /\ token[s].status = "revoked" => token'[s].status = "revoked"
    BY <1>3 DEF Logout, Issued, Token
  <2>2. Begin(r, "signedOut", e, None, t) /\ UNCHANGED <<user, mailed, failures>>
    BY <1>3 DEF Logout
  <2> QED
    BY <2>1, <2>2, BeginKeepsIInv
<1>4. ASSUME NEW t \in Requests, Refresh(r, t)
      PROVE  IInv'
  <2> DEFINE pc == IF token[t].status = "live" /\ token[t].validFor > 0
                   THEN "revoking" ELSE "rejected"
  <2>1. /\ Begin(r, pc, token[t].email, None, t)
        /\ UNCHANGED <<user, token, mailed, failures>>
        /\ Issued(t)
    BY <1>4 DEF Refresh
  <2>2. pc \in {"revoking", "rejected"}
    OBVIOUS
  <2>3. token[t].email \in Emails \cup {None}
    BY DEF Token
  <2> HIDE DEF pc
  <2> QED
    BY <2>1, <2>2, <2>3, BeginKeepsIInv DEF Issued
<1>5. ASSUME NEW t \in Requests, NEW p \in Passwords, ResetPassword(r, t, p)
      PROVE  IInv'
  <2>1. t \in mailed /\ UNCHANGED <<user, token, mailed, failures>>
    BY <1>5 DEF ResetPassword
  <2>2. ASSUME NEW e \in Emails, LinkOf(t, e), Begin(r, "resetting", e, p, t)
        PROVE  IInv'
    <3>1. request[t].email = e
      BY <2>2, SessionsAssumption DEF LinkOf, Sound, LinksFollow
    <3> QED
      BY <2>1, <2>2, <3>1, BeginKeepsIInv DEF Issued
  <2>3. ASSUME Begin(r, "rejected", None, p, t)
        PROVE  IInv'
    BY <2>1, <2>3, BeginKeepsIInv DEF Issued
  <2> QED
    BY <1>5, <2>2, <2>3 DEF ResetPassword
<1> QED
  BY <1>1, <1>2, <1>3, <1>4, <1>5

(* A request goes on, or is cut short.                                      *)
LEMMA ProgressKeepsIInv ==
    ASSUME IInv, NEW r \in Requests,
           \/ CreateUser(r) \/ CreateConflict(r) \/ IssueTokens(r) \/ Revoke(r)
           \/ StoreResetToken(r) \/ SendPasswordReset(r) \/ StorePassword(r)
           \/ FailRequest(r)
    PROVE  IInv'
<1> USE DEF IInv, TypeOK
<1> DEFINE e == request[r].email
           t == request[r].token
<1>1. /\ request[r] \in Request
      /\ request[r].pc # "signedIn" => token[r].status = "none"
      /\ request[r].pc \in {"storing", "mailing", "creating", "creatingByGoogle",
                            "resetting"} => e \in Emails
  BY DEF Sound, RequestsFollow
<1>2. request[r].password \in Passwords \cup {None}
  BY <1>1 DEF Request
<1>3. CASE CreateUser(r)
  <2>1. /\ user' \in [Emails -> User]
        /\ \A a \in Emails : user'[a].resetToken = user[a].resetToken
                               \/ user'[a].resetToken = None
    BY <1>1, <1>2, <1>3, AccountType DEF CreateUser
  <2>2. t \notin Requests
    BY <1>3, SessionsAssumption DEF CreateUser, Sound, RequestsFollow
  <2> QED
    BY <1>1, <1>3, <2>1, <2>2, GoToKeepsIInv DEF CreateUser, Issued
<1>4. CASE CreateConflict(r)
  BY <1>1, <1>4, GoToKeepsIInv DEF CreateConflict, Issued
<1>5. CASE IssueTokens(r)
  <2> DEFINE new == [status |-> "live", email |-> e, validFor |-> TokenLife]
  <2>1. new \in Token
    BY <1>1, SessionsAssumption DEF Request, Token
  <2>2. /\ token' \in [Requests -> Token]
        /\ token'[r].status = "live"
        /\ \A s \in Requests \ {r} : token'[s] = token[s]
    BY <1>5, <2>1 DEF IssueTokens
  <2>3. \A s \in Requests : t = s => token'[s].status = "revoked"
    BY <1>1, <1>5, <2>2 DEF IssueTokens, Sound, RotationRetiresToken, Exchanges
  <2> QED
    BY <1>1, <1>5, <2>2, <2>3, GoToKeepsIInv DEF IssueTokens, Issued
<1>6. CASE Revoke(r)
  <2>1. t \in Requests /\ Issued(t) /\ t # r
    BY <1>1, <1>6 DEF Revoke, Sound, RequestsFollow, Issued
  <2>2. /\ token' \in [Requests -> Token]
        /\ token'[t].status = "revoked"
        /\ \A s \in Requests \ {t} : token'[s] = token[s]
    BY <1>6, <2>1 DEF Revoke, Token
  <2> QED
    BY <1>1, <1>6, <2>1, <2>2, GoToKeepsIInv DEF Revoke, Issued
<1>7. CASE StoreResetToken(r)
  <2>1. /\ user' \in [Emails -> User]
        /\ \A a \in Emails : \/ user'[a].resetToken = user[a].resetToken
                             \/ user'[a].resetToken = r /\ e = a
    <3> DEFINE row == [user[e] EXCEPT !.resetToken = r, !.resetFor = ResetLife]
    <3>1. e \in Emails /\ user[e] \in User /\ user' = [user EXCEPT ![e] = row]
      BY <1>1, <1>7 DEF StoreResetToken
    <3>2. row \in User /\ row.resetToken = r
      <4>1. ResetLife \in -1 .. ResetLife /\ r \in Requests \cup {None}
        BY SessionsAssumption
      <4> DEFINE first == [user[e] EXCEPT !.resetToken = r]
      <4>2. first \in User /\ first.resetToken = r
        BY <3>1, <4>1 DEF User
      <4>3. row = [first EXCEPT !.resetFor = ResetLife]
        OBVIOUS
      <4> HIDE DEF first, row
      <4> QED
        BY <4>1, <4>2, <4>3 DEF User
    <3> HIDE DEF row
    <3> QED
      BY <3>1, <3>2
  <2> QED
    BY <1>1, <1>7, <2>1, GoToKeepsIInv DEF StoreResetToken, Issued
<1>8. CASE SendPasswordReset(r)
  BY <1>1, <1>8, GoToKeepsIInv DEF SendPasswordReset, Issued
<1>9. CASE StorePassword(r)
  <2>1. /\ user' \in [Emails -> User]
        /\ \A a \in Emails : user'[a].resetToken = user[a].resetToken
                               \/ user'[a].resetToken = None
    BY <1>1, <1>2, <1>9, AccountType DEF StorePassword
  <2> QED
    BY <1>1, <1>9, <2>1, GoToKeepsIInv DEF StorePassword, Issued
<1>10. CASE FailRequest(r)
  <2>1. failures' \in 0 .. MaxFailures
    BY <1>10, SessionsAssumption DEF FailRequest
  <2> QED
    BY <1>1, <1>10, <2>1, GoToKeepsIInv DEF FailRequest, InFlight, Issued
<1> QED
  BY <1>3, <1>4, <1>5, <1>6, <1>7, <1>8, <1>9, <1>10

(* Every step keeps the invariant.                                          *)
LEMMA NextKeepsIInv == IInv /\ [Next]_vars => IInv'
<1> SUFFICES ASSUME IInv, [Next]_vars
             PROVE  IInv'
  OBVIOUS
<1>1. CASE UNCHANGED vars
  BY <1>1 DEF vars, IInv, TypeOK, Sound, RequestsFollow, LinksFollow,
              RotationRetiresToken, Exchanges, Issued
<1>2. CASE Tick
  BY <1>2, TickKeepsIInv
<1> QED
  BY <1>1, <1>2, ArrivalKeepsIInv, ProgressKeepsIInv DEF Next

(* The invariant holds in every reachable state.                            *)
THEOREM Invariance == Spec => []IInv
BY InitIInv, NextKeepsIInv, PTL DEF Spec

(* Every reachable state of Sessions is well typed.                         *)
THEOREM TypeCorrect == Spec => []TypeOK
<1>1. IInv => TypeOK
  BY DEF IInv
<1> QED
  BY <1>1, Invariance, PTL

(* README.md:70-71: a refresh token and the one issued for it are never     *)
(* both live, however many refreshes of one token race.                     *)
THEOREM TokensRotate == Spec => []RotationRetiresToken
<1>1. IInv => RotationRetiresToken
  BY DEF IInv, Sound
<1> QED
  BY <1>1, Invariance, PTL

-----------------------------------------------------------------------------
(* What a step may never do.                                                *)

(* Only StorePassword changes the password of an account that exists.       *)
LEMMA NextNeedsMailedLink ==
    ASSUME IInv, [Next]_vars, NEW e \in Emails,
           user[e].exists, user'[e].password # user[e].password
    PROVE  \E r \in Requests :
              /\ request[r].pc = "resetting"
              /\ request[r].token \in mailed
              /\ request[request[r].token].email = e
<1> USE DEF IInv, TypeOK
<1>1. user[e] \in User /\ user' # user
  OBVIOUS
<1>2. ~Tick
  BY <1>1 DEF Tick, User
<1>3. PICK r \in Requests : CreateUser(r) \/ StoreResetToken(r) \/ StorePassword(r)
  BY <1>1, <1>2
     DEF Next, vars, Register, Login, GoogleLogin, ForgotPassword, Logout, Refresh,
         ResetPassword, CreateConflict, IssueTokens, Revoke, SendPasswordReset,
         FailRequest
<1>4. CASE CreateUser(r)
  BY <1>4 DEF CreateUser
<1>5. CASE StoreResetToken(r)
  BY <1>1, <1>5 DEF StoreResetToken, User
<1>6. CASE StorePassword(r)
  <2>1. request[r].email = e
    BY <1>6 DEF StorePassword
  <2> QED
    BY <1>6, <2>1 DEF StorePassword, Sound, RequestsFollow
<1> QED
  BY <1>3, <1>4, <1>5, <1>6

(* The password of an account changes only through a link that was mailed   *)
(* to its own address, whichever registrations, logins and resets race.     *)
THEOREM PasswordsNeedLinks == Spec => PasswordNeedsMailedLink
<1>1. IInv /\ [Next]_vars =>
         [\A e \in Emails :
             (user[e].exists /\ user'[e].password # user[e].password) =>
                 \E r \in Requests :
                     /\ request[r].pc = "resetting"
                     /\ request[r].token \in mailed
                     /\ request[request[r].token].email = e]_vars
  BY NextNeedsMailedLink
<1> QED
  BY <1>1, Invariance, PTL DEF Spec, PasswordNeedsMailedLink

(* A token that is revoked stays so.                                        *)
LEMMA RevokedStaysRevoked ==
    ASSUME IInv, [Next]_vars, NEW t \in Requests, token[t].status = "revoked"
    PROVE  token'[t].status = "revoked"
<1> USE DEF IInv, TypeOK
<1>1. CASE token' = token
  BY <1>1
<1>2. CASE Tick
  BY <1>2 DEF Tick, Token
<1>3. ASSUME NEW r \in Requests, IssueTokens(r)
      PROVE  token'[t].status = "revoked"
  <2>1. r # t
    BY <1>3 DEF IssueTokens, Sound, RequestsFollow
  <2> QED
    BY <1>3, <2>1 DEF IssueTokens
<1>4. ASSUME NEW r \in Requests, Revoke(r)
      PROVE  token'[t].status = "revoked"
  BY <1>4 DEF Revoke, Token
<1>5. ASSUME NEW r \in Requests, NEW e \in Emails, NEW s \in Requests, Logout(r, e, s)
      PROVE  token'[t].status = "revoked"
  BY <1>5 DEF Logout, Token
<1> QED
  BY <1>1, <1>2, <1>3, <1>4, <1>5
     DEF Next, vars, Register, Login, GoogleLogin, ForgotPassword, Refresh,
         ResetPassword, CreateUser, CreateConflict, StoreResetToken,
         SendPasswordReset, StorePassword, FailRequest

(* No request starts to exchange a revoked token, and none goes on to       *)
(* exchange one that it has not revoked itself.                             *)
LEMMA NextRetires ==
    ASSUME IInv, [Next]_vars, NEW t \in Requests, Retired(t)
    PROVE  Retired(t)'
<1> USE DEF IInv, TypeOK
<1>1. token[t].status = "revoked" /\ token'[t].status = "revoked"
  BY RevokedStaysRevoked DEF Retired
<1>2. ASSUME NEW q \in Requests, request'[q].token = t
      PROVE  request'[q].pc \notin {"revoking", "issuing"}
  <2>1. CASE request'[q] = request[q]
    BY <1>2, <2>1 DEF Retired
  <2>2. ASSUME NEW r \in Requests, NEW pc, NEW e, NEW p, NEW s, Begin(r, pc, e, p, s),
               s = t => pc \notin {"revoking", "issuing"}
        PROVE  request'[q].pc \notin {"revoking", "issuing"}
    BY <1>2, <2>2 DEF Begin, Retired
  <2>3. ASSUME NEW r \in Requests, NEW pc, GoTo(r, pc),
               request[r].token = t => pc \notin {"revoking", "issuing"}
        PROVE  request'[q].pc \notin {"revoking", "issuing"}
    BY <1>2, <2>3 DEF GoTo, Retired, Request
  <2>4. ASSUME NEW r \in Requests, NEW e \in Emails,
               \/ \E p \in Passwords : Register(r, e, p) \/ Login(r, e, p)
               \/ GoogleLogin(r, e) \/ ForgotPassword(r, e)
        PROVE  request'[q].pc \notin {"revoking", "issuing"}
    BY <2>2, <2>4, SessionsAssumption DEF Register, Login, GoogleLogin, ForgotPassword
  <2>5. ASSUME NEW r \in Requests, NEW e \in Emails, NEW s \in Requests, Logout(r, e, s)
        PROVE  request'[q].pc \notin {"revoking", "issuing"}
    BY <2>2, <2>5 DEF Logout
  <2>6. ASSUME NEW r \in Requests, NEW s \in Requests, Refresh(r, s)
        PROVE  request'[q].pc \notin {"revoking", "issuing"}
    BY <1>1, <2>2, <2>6 DEF Refresh
  <2>7. ASSUME NEW r \in Requests, NEW s \in Requests, NEW p \in Passwords,
               ResetPassword(r, s, p)
        PROVE  request'[q].pc \notin {"revoking", "issuing"}
    BY <2>2, <2>7 DEF ResetPassword
  <2>8. ASSUME NEW r \in Requests, CreateUser(r) \/ Revoke(r)
        PROVE  request'[q].pc \notin {"revoking", "issuing"}
    <3>1. request[r].token # t
      BY <1>1, <2>8, SessionsAssumption
         DEF CreateUser, Revoke, Retired, Sound, RequestsFollow
    <3> QED
      BY <2>3, <2>8, <3>1 DEF CreateUser, Revoke
  <2>9. ASSUME NEW r \in Requests,
               \/ CreateConflict(r) \/ IssueTokens(r) \/ StoreResetToken(r)
               \/ SendPasswordReset(r) \/ StorePassword(r) \/ FailRequest(r)
        PROVE  request'[q].pc \notin {"revoking", "issuing"}
    BY <2>3, <2>9 DEF CreateConflict, IssueTokens, StoreResetToken,
                      SendPasswordReset, StorePassword, FailRequest
  <2> QED
    BY <2>1, <2>4, <2>5, <2>6, <2>7, <2>8, <2>9 DEF Next, vars, Tick
<1> QED
  BY <1>1, <1>2 DEF Retired

(* Once a token is revoked and no refresh that found it live is under way,  *)
(* no refresh, however late, exchanges it.                                  *)
THEOREM TokensRetire == Spec => RetiredStaysRetired
<1>1. IInv /\ [Next]_vars => [\A t \in Requests : Retired(t) => Retired(t)']_vars
  BY NextRetires
<1> QED
  BY <1>1, Invariance, PTL DEF Spec, RetiredStaysRetired

-----------------------------------------------------------------------------
(* Why sessions end.                                                        *)

\* Request r has ended the session of token t, or may have before it was cut short.
Ends(r, t) ==
    request[r].token = t
    /\ request[r].pc \in {"issuing", "signedIn", "signedOut", "failed"}

(* A request that has ended a session remains as the reason.                *)
LEMMA ReasonStays ==
    ASSUME IInv, [Next]_vars, NEW r \in Requests, NEW t \in Requests, Ends(r, t)
    PROVE  Ends(r, t)'
<1> USE DEF IInv, TypeOK
<1>1. CASE request'[r] = request[r]
  BY <1>1 DEF Ends
<1>2. CASE IssueTokens(r) \/ FailRequest(r)
  BY <1>2 DEF IssueTokens, FailRequest, GoTo, Ends, Request
<1>3. ASSUME NEW q \in Requests, NEW pc, GoTo(q, pc),
             q # r \/ request[q].pc \notin {"issuing", "signedIn", "signedOut", "failed"}
      PROVE  request'[r] = request[r]
  BY <1>3 DEF GoTo, Ends
<1>4. ASSUME NEW q \in Requests, NEW pc, NEW e, NEW p, NEW s, Begin(q, pc, e, p, s)
      PROVE  request'[r] = request[r]
  BY <1>4 DEF Begin, Ends
<1>5. ASSUME NEW q \in Requests, NEW e \in Emails,
             \/ \E p \in Passwords : Register(q, e, p) \/ Login(q, e, p)
             \/ GoogleLogin(q, e) \/ ForgotPassword(q, e)
             \/ \E s \in Requests : Logout(q, e, s)
      PROVE  request'[r] = request[r]
  BY <1>4, <1>5 DEF Register, Login, GoogleLogin, ForgotPassword, Logout
<1>6. ASSUME NEW q \in Requests, NEW s \in Requests,
             Refresh(q, s) \/ \E p \in Passwords : ResetPassword(q, s, p)
      PROVE  request'[r] = request[r]
  BY <1>4, <1>6 DEF Refresh, ResetPassword
<1>7. ASSUME NEW q \in Requests,
             \/ CreateUser(q) \/ CreateConflict(q) \/ Revoke(q)
             \/ StoreResetToken(q) \/ SendPasswordReset(q) \/ StorePassword(q)
             \/ (IssueTokens(q) \/ FailRequest(q)) /\ q # r
      PROVE  request'[r] = request[r]
  BY <1>3, <1>7 DEF CreateUser, CreateConflict, Revoke, StoreResetToken,
                    SendPasswordReset, StorePassword, IssueTokens, FailRequest
<1>8. CASE Tick \/ UNCHANGED vars
  BY <1>1, <1>8 DEF Tick, vars
<1> QED
  BY <1>1, <1>2, <1>5, <1>6, <1>7, <1>8 DEF Next

(* Only a refresh or a logout of this very token revokes it.                *)
LEMMA RevokedForAReason ==
    ASSUME IInv, [Next]_vars, NEW t \in Requests,
           token[t].status # "revoked", token'[t].status = "revoked"
    PROVE  \E r \in Requests : Ends(r, t)'
<1> USE DEF IInv, TypeOK
<1>1. CASE Tick
  BY <1>1 DEF Tick, Token
<1>2. ASSUME NEW r \in Requests, IssueTokens(r)
      PROVE  FALSE
  BY <1>2 DEF IssueTokens
<1>3. ASSUME NEW r \in Requests, Revoke(r)
      PROVE  Ends(r, t)'
  <2>1. request[r].token = t
    BY <1>3 DEF Revoke
  <2> QED
    BY <1>3, <2>1 DEF Revoke, GoTo, Ends, Request
<1>4. ASSUME NEW r \in Requests, NEW e \in Emails, NEW s \in Requests, Logout(r, e, s)
      PROVE  Ends(r, t)'
  <2>1. s = t
    BY <1>4 DEF Logout
  <2> QED
    BY <1>4, <2>1 DEF Logout, Begin, Ends
<1> QED
  BY <1>1, <1>2, <1>3, <1>4
     DEF Next, vars, Register, Login, GoogleLogin, ForgotPassword, Refresh,
         ResetPassword, CreateUser, CreateConflict, StoreResetToken,
         SendPasswordReset, StorePassword, FailRequest

(* A session ends by its own logout or its own refresh, complete or cut     *)
(* short: no other session of the user takes it along.                      *)
THEOREM SessionsEndByThemselves == Spec => []SessionsEndForAReason
<1>1. Init => SessionsEndForAReason
  BY DEF Init, SessionsEndForAReason, NoToken
<1>2. IInv /\ SessionsEndForAReason /\ [Next]_vars => SessionsEndForAReason'
  <2> SUFFICES ASSUME IInv, SessionsEndForAReason, [Next]_vars, NEW t \in Requests,
                      token'[t].status = "revoked"
               PROVE  \E r \in Requests : Ends(r, t)'
    BY DEF SessionsEndForAReason, Ends
  <2>1. CASE token[t].status # "revoked"
    BY <2>1, RevokedForAReason
  <2>2. CASE token[t].status = "revoked"
    <3>1. \E r \in Requests : Ends(r, t)
      BY <2>2 DEF SessionsEndForAReason, Ends
    <3> QED
      BY <3>1, ReasonStays
  <2> QED
    BY <2>1, <2>2
<1> QED
  BY <1>1, <1>2, Invariance, PTL DEF Spec

-----------------------------------------------------------------------------
(* Reset links.                                                             *)

\* A link that has been used is on no account.
UsedLinksAreGone ==
    \A r \in Requests : request[r].pc = "reset" =>
        /\ request[r].token \in mailed
        /\ \A e \in Emails : user[e].resetToken # request[r].token

(* Only a request that has just been accepted stores a link, and only a     *)
(* request that holds a link uses it up.                                    *)
LEMMA NextKeepsLinksGone ==
    ASSUME IInv, UsedLinksAreGone, [Next]_vars
    PROVE  UsedLinksAreGone'
<1> USE DEF IInv, TypeOK, UsedLinksAreGone
<1>1. mailed \subseteq mailed'
  BY DEF Next, vars, Register, Login, GoogleLogin, ForgotPassword, Logout, Refresh,
         ResetPassword, CreateUser, CreateConflict, IssueTokens, Revoke,
         StoreResetToken, SendPasswordReset, StorePassword, FailRequest, Tick
<1>2. ASSUME \A r \in Requests : request'[r].pc = "reset" => request'[r] = request[r],
             \A e \in Emails : \/ user'[e].resetToken = user[e].resetToken
                               \/ user'[e].resetToken \notin mailed
      PROVE  UsedLinksAreGone'
  BY <1>1, <1>2
<1>3. None \notin mailed
  BY SessionsAssumption
<1>4. ASSUME NEW r \in Requests, NEW pc, NEW e, NEW p, NEW t, Begin(r, pc, e, p, t),
             pc # "reset"
      PROVE  \A q \in Requests : request'[q].pc = "reset" => request'[q] = request[q]
  BY <1>4 DEF Begin
<1>5. ASSUME NEW r \in Requests, NEW pc, GoTo(r, pc), pc # "reset"
      PROVE  \A q \in Requests : request'[q].pc = "reset" => request'[q] = request[q]
  BY <1>5 DEF GoTo, Request
<1>6. ASSUME NEW r \in Requests,
             \/ \E e \in Emails, p \in Passwords : Register(r, e, p) \/ Login(r, e, p)
             \/ \E e \in Emails : GoogleLogin(r, e) \/ ForgotPassword(r, e)
             \/ \E e \in Emails, t \in Requests : Logout(r, e, t)
             \/ \E t \in Requests : Refresh(r, t)
             \/ \E t \in Requests, p \in Passwords : ResetPassword(r, t, p)
      PROVE  UsedLinksAreGone'
  BY <1>2, <1>4, <1>6 DEF Register, Login, GoogleLogin, ForgotPassword, Logout,
                          Refresh, ResetPassword
<1>7. ASSUME NEW r \in Requests,
             \/ CreateConflict(r) \/ IssueTokens(r) \/ Revoke(r)
             \/ SendPasswordReset(r) \/ FailRequest(r)
      PROVE  UsedLinksAreGone'
  BY <1>2, <1>5, <1>7 DEF CreateConflict, IssueTokens, Revoke, SendPasswordReset,
                          FailRequest
<1>8. ASSUME NEW r \in Requests, CreateUser(r)
      PROVE  UsedLinksAreGone'
  <2>1. request[r].password \in Passwords \cup {None}
    BY DEF Request
  <2>2. \A e \in Emails : \/ user'[e].resetToken = user[e].resetToken
                          \/ user'[e].resetToken = None
    BY <1>8, <2>1, AccountType DEF CreateUser
  <2> QED
    BY <1>2, <1>3, <1>5, <1>8, <2>2 DEF CreateUser
<1>9. ASSUME NEW r \in Requests, StoreResetToken(r)
      PROVE  UsedLinksAreGone'
  <2>1. r \notin mailed
    BY <1>9 DEF StoreResetToken, Sound, LinksFollow
  <2>2. \A e \in Emails : \/ user'[e].resetToken = user[e].resetToken
                          \/ user'[e].resetToken = r
    BY <1>9 DEF StoreResetToken, User
  <2> QED
    BY <1>2, <1>5, <1>9, <2>1, <2>2 DEF StoreResetToken
<1>10. ASSUME NEW r \in Requests, StorePassword(r)
       PROVE  UsedLinksAreGone'
  <2> DEFINE a == request[r].email
             t == request[r].token
  <2>1. /\ a \in Emails /\ t \in mailed /\ request[t].email = a
        /\ request[r].password \in Passwords \cup {None}
    BY <1>10 DEF StorePassword, Sound, RequestsFollow, Request
  <2>2. /\ user'[a].resetToken = None
        /\ \A e \in Emails \ {a} : user'[e] = user[e]
    BY <1>10, <2>1, AccountType DEF StorePassword
  <2>3. \A e \in Emails : user'[e].resetToken # t
    BY <1>3, <2>1, <2>2 DEF Sound, LinksFollow
  <2>4. /\ request'[r].token = t
        /\ \A q \in Requests \ {r} : request'[q] = request[q]
    BY <1>10 DEF StorePassword, GoTo, Request
  <2>5. mailed' = mailed
    BY <1>10 DEF StorePassword
  <2> QED
    BY <1>3, <2>1, <2>2, <2>3, <2>4, <2>5
<1>11. CASE Tick
  <2>1. \A e \in Emails : user'[e].resetToken = user[e].resetToken
    BY <1>11 DEF Tick, User
  <2> QED
    BY <1>2, <1>11, <2>1 DEF Tick
<1>12. CASE UNCHANGED vars
  BY <1>12 DEF vars
<1> QED
  BY <1>6, <1>7, <1>8, <1>9, <1>10, <1>11, <1>12 DEF Next

(* A link that nobody holds any more, and that is on no account, is found   *)
(* by nobody.                                                               *)
LEMMA NextSpends ==
    ASSUME IInv, UsedLinksAreGone, [Next]_vars, NEW t \in Requests, Spent(t)
    PROVE  Spent(t)'
<1> USE DEF IInv, TypeOK
<1>1. PICK r \in Requests : request[r].token = t /\ request[r].pc = "reset"
  BY DEF Spent
<1>2. \A e \in Emails : ~LinkOf(t, e)
  BY <1>1 DEF UsedLinksAreGone, LinkOf
<1>3. ASSUME NEW q \in Requests, NEW pc, NEW e, NEW p, NEW s, Begin(q, pc, e, p, s),
             s = t => pc # "resetting"
      PROVE  Spent(t)'
  BY <1>1, <1>3 DEF Begin, Spent
<1>4. ASSUME NEW q \in Requests, NEW pc, GoTo(q, pc), request[q].pc # "reset",
             pc # "resetting"
      PROVE  Spent(t)'
  BY <1>1, <1>4 DEF GoTo, Spent, Request
<1>5. ASSUME NEW q \in Requests, NEW e \in Emails,
             \/ \E p \in Passwords : Register(q, e, p) \/ Login(q, e, p)
             \/ GoogleLogin(q, e) \/ ForgotPassword(q, e)
             \/ \E s \in Requests : Logout(q, e, s)
      PROVE  Spent(t)'
  BY <1>3, <1>5 DEF Register, Login, GoogleLogin, ForgotPassword, Logout
<1>6. ASSUME NEW q \in Requests, NEW s \in Requests, Refresh(q, s)
      PROVE  Spent(t)'
  BY <1>3, <1>6 DEF Refresh
<1>7. ASSUME NEW q \in Requests, NEW s \in Requests, NEW p \in Passwords,
             ResetPassword(q, s, p)
      PROVE  Spent(t)'
  BY <1>2, <1>3, <1>7 DEF ResetPassword
<1>8. ASSUME NEW q \in Requests,
             \/ CreateUser(q) \/ CreateConflict(q) \/ IssueTokens(q) \/ Revoke(q)
             \/ StoreResetToken(q) \/ SendPasswordReset(q) \/ StorePassword(q)
             \/ FailRequest(q)
      PROVE  Spent(t)'
  BY <1>4, <1>8 DEF CreateUser, CreateConflict, IssueTokens, Revoke,
                    StoreResetToken, SendPasswordReset, StorePassword, FailRequest,
                    InFlight
<1>9. CASE Tick \/ UNCHANGED vars
  BY <1>9 DEF Tick, vars, Spent
<1> QED
  BY <1>5, <1>6, <1>7, <1>8, <1>9 DEF Next

(* A reset link that has been used, and that nobody else had opened by      *)
(* then, does not change the password a second time.                        *)
THEOREM LinksAreSpent == Spec => SpentStaysSpent
<1>1. Init => UsedLinksAreGone
  BY DEF Init, UsedLinksAreGone, NewRequest
<1>2. IInv /\ UsedLinksAreGone /\ [Next]_vars => UsedLinksAreGone'
  BY NextKeepsLinksGone
<1>3. IInv /\ UsedLinksAreGone /\ [Next]_vars
         => [\A t \in Requests : Spent(t) => Spent(t)']_vars
  BY NextSpends
<1> QED
  BY <1>1, <1>2, <1>3, Invariance, PTL DEF Spec, SpentStaysSpent
=============================================================================
