------------------------------ MODULE Directory ------------------------------
(***************************************************************************)
(* Who can be booked, and for what: ProfessionalsService.create,            *)
(* ServicesService and InquiriesService.  A request reads what it needs,     *)
(* awaits, and writes; meanwhile other requests do the same.                *)
(*                                                                          *)
(* Usernames are taken as already cleaned (no @, lower case).  The calendar  *)
(* and payout part of a profile is the subject of Profiles; what a service   *)
(* costs and how long it takes is the subject of Bookings.                  *)
(***************************************************************************)
EXTENDS Naturals, Sequences

CONSTANTS
    Users,         \* accounts that may come to exist
    Usernames,
    Names,         \* names of services
    Requests,      \* requests that may run at the same time
    None,          \* nobody, nothing, or a field that is not given
    MaxServices    \* bound: rows of the services table

ASSUME DirectoryAssumption ==
    /\ None \notin Users \cup Usernames \cup Names
    /\ MaxServices \in Nat

VARIABLES
    users,       \* the accounts that exist
    owner,       \* owner[u]: whose professional_profiles row has username u
    services,    \* the services table, oldest row first
    inquiries,   \* inquiries[u]: inquiries kept for the profile u
    request      \* requests in flight

directoryVars == <<users, owner, services, inquiries, request>>

\* History: who inserted the row, and whether it has been given a new name.
Service ==
    [professional : Usernames, name : Names, active : BOOLEAN,
     by : {"seed", "professional"}, renamed : BOOLEAN]

\* The fields a PATCH carries.
Changes == [name : Names \cup {None}, active : BOOLEAN \cup {None}]

\* What DELETE writes.
Removal == [name |-> None, active |-> FALSE]

Request ==
    [pc : {"new", "profile", "service", "update", "inquiry", "answered"},
     user : Users \cup {None}, username : Usernames \cup {None},
     row : 0 .. MaxServices, change : Changes]

NewRequest ==
    [pc |-> "new", user |-> None, username |-> None, row |-> 0,
     change |-> [name |-> None, active |-> None]]

DirectoryTypeOK ==
    /\ users \subseteq Users
    /\ owner \in [Usernames -> Users \cup {None}]
    /\ services \in Seq(Service)
    /\ inquiries \in [Usernames -> Nat]
    /\ request \in [Requests -> Request]

DirectoryInit ==
    /\ users = {}
    /\ owner = [u \in Usernames |-> None]
    /\ services = <<>>
    /\ inquiries = [u \in Usernames |-> 0]
    /\ request = [r \in Requests |-> NewRequest]

-----------------------------------------------------------------------------
Answered == [NewRequest EXCEPT !.pc = "answered"]

\* A request that is cut short at an await is one that is never answered.
Answer(r) == request' = [request EXCEPT ![r] = Answered]

\* What r remembers of its first reads.
Begin(r, pc, user, username, row, change) ==
    /\ request[r].pc = "new"
    /\ request' = [request EXCEPT ![r] =
           [pc |-> pc, user |-> user, username |-> username, row |-> row,
            change |-> change]]

\* 403, 404 or 409 at once.
Reject(r) == request[r].pc = "new" /\ Answer(r)

HasProfile(user) == \E u \in Usernames : owner[u] = user

Nothing == NewRequest.change

\* AuthService.register, for the present purpose.
Register(user) ==
    /\ user \notin users
    /\ users' = users \cup {user}
    /\ UNCHANGED <<owner, services, inquiries, request>>

-----------------------------------------------------------------------------
(* Profiles.                                                                *)

CreateProfile(r, user, username) ==
    /\ user \in users
    /\ IF HasProfile(user) THEN Reject(r)
       ELSE Begin(r, "profile", user, username, 0, Nothing)
    /\ UNCHANGED <<users, owner, services, inquiries>>

\* Both userId and username are unique: the database refuses a second row.
InsertProfile(r) ==
    /\ request[r].pc = "profile"
    /\ IF owner[request[r].username] = None /\ ~HasProfile(request[r].user)
       THEN owner' = [owner EXCEPT ![request[r].username] = request[r].user]
       ELSE UNCHANGED owner
    /\ Answer(r)
    /\ UNCHANGED <<users, services, inquiries>>

-----------------------------------------------------------------------------
(* Services.                                                                *)

NewService(username, name, active, by) ==
    /\ Len(services) < MaxServices
    /\ services' = Append(services,
           [professional |-> username, name |-> name, active |-> active,
            by |-> by, renamed |-> FALSE])

\* getMine, which answers 404 to somebody without a profile.
CreateService(r, user, change) ==
    /\ \E u \in Usernames :
          owner[u] = user /\ Begin(r, "service", user, u, 0, change)
    /\ UNCHANGED <<users, owner, services, inquiries>>

\* Mutant: isActive is stored as it comes.
InsertServiceAsGiven(r) ==
    /\ request[r].pc = "service"
    /\ NewService(request[r].username, request[r].change.name,
                  request[r].change.active, "professional")
    /\ Answer(r)
    /\ UNCHANGED <<users, owner, inquiries>>

\* isActive is true unless given.
InsertService(r) ==
    /\ request[r].pc = "service"
    /\ NewService(request[r].username, request[r].change.name,
                  request[r].change.active # FALSE, "professional")
    /\ Answer(r)
    /\ UNCHANGED <<users, owner, inquiries>>

\* assertOwned reads the service and the user's profile; neither ever changes
\* hands.
UpdateService(r, user, row, change) ==
    /\ row \in DOMAIN services
    /\ IF owner[services[row].professional] = user
       THEN Begin(r, "update", user, None, row, change)
       ELSE Reject(r)
    /\ UNCHANGED <<users, owner, services, inquiries>>

\* Mutant: what is not given gets the default it gets in create.
UpdatedWithDefaults(row, change) ==
    [row EXCEPT !.name = IF change.name = None THEN @ ELSE change.name,
                !.active = change.active # FALSE,
                !.renamed = @ \/ change.name # None]

\* Only the fields given are written, not the row that assertOwned has read.
Updated(row, change) ==
    [row EXCEPT !.name = IF change.name = None THEN @ ELSE change.name,
                !.active = IF change.active = None THEN @ ELSE change.active,
                !.renamed = @ \/ change.name # None]

\* remove is an update that says so.
RemoveService(r, user, row) == UpdateService(r, user, row, Removal)

WriteService(r) ==
    /\ request[r].pc = "update"
    /\ services' = [services EXCEPT ![request[r].row] = Updated(@, request[r].change)]
    /\ Answer(r)
    /\ UNCHANGED <<users, owner, inquiries>>

-----------------------------------------------------------------------------
(* Inquiries.                                                               *)

CreateInquiry(r, username) ==
    /\ IF owner[username] = None THEN Reject(r)
       ELSE Begin(r, "inquiry", None, username, 0, Nothing)
    /\ UNCHANGED <<users, owner, services, inquiries>>

\* sendSpecialInquiryEmail comes next, and leaves no trace here: its errors are
\* logged, and the inquiry is in the professional's list either way.
InsertInquiry(r) ==
    /\ request[r].pc = "inquiry"
    /\ inquiries' = [inquiries EXCEPT ![request[r].username] = @ + 1]
    /\ Answer(r)
    /\ UNCHANGED <<users, owner, services>>

-----------------------------------------------------------------------------
DirectoryNext ==
    \/ \E user \in Users : Register(user)
    \/ \E r \in Requests :
          \/ \E user \in users :
                \/ \E u \in Usernames : CreateProfile(r, user, u)
                \/ \E change \in Changes :
                      \/ change.name # None /\ CreateService(r, user, change)
                      \/ \E row \in DOMAIN services :
                            UpdateService(r, user, row, change)
                \/ \E row \in DOMAIN services : RemoveService(r, user, row)
          \/ \E u \in Usernames : CreateInquiry(r, u)
          \/ InsertProfile(r) \/ InsertService(r) \/ WriteService(r)
          \/ InsertInquiry(r)

-----------------------------------------------------------------------------
\* r writes an update that says the service is active.
Reactivates(r, row) ==
    /\ request[r].pc = "update" /\ request'[r].pc = "answered"
    /\ request[r].row = row /\ request[r].change.active = TRUE

(* A service that has been removed is offered again only by an update that  *)
(* says so: not by one that has read the row before and changes something   *)
(* else, not by the seed, which comes across its name.                      *)
RemovedStaysRemoved ==
    [][\A row \in DOMAIN services :
          (~services[row].active /\ services'[row].active)
              => \E r \in Requests : Reactivates(r, row)]_directoryVars
=============================================================================
