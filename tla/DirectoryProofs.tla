--------------------------- MODULE DirectoryProofs ---------------------------
(***************************************************************************)
(* The tables of Directory stay well-formed under any requests and any runs  *)
(* of the seed, a removed service is not brought back by accident, and      *)
(* running the seed again completes what is missing and doubles nothing.    *)
(*                                                                          *)
(* What a request remembers across its await must still fit the tables when *)
(* it writes: the profile or the name of a service to be inserted           *)
(* (Remembered).  What the seed does next must be within its data           *)
(* (OnItsWay), and a payment comes only after its booking.                  *)
(***************************************************************************)
EXTENDS Seed, SequenceTheorems, FiniteSetTheorems, TLAPS

Remembered ==
    \A r \in Requests :
        /\ request[r].pc = "profile" =>
              request[r].user \in Users /\ request[r].username \in Usernames
        /\ request[r].pc = "service" =>
              request[r].username \in Usernames /\ request[r].change.name \in Names
        /\ request[r].pc = "inquiry" => request[r].username \in Usernames

TablesInv ==
    /\ DirectoryTypeOK
    /\ Len(services) <= MaxServices
    /\ Remembered

SeedPcs ==
    {"idle", "user", "profile", "find", "create", "rule", "services", "booking",
     "payment", "done", "exited"}

OnItsWay ==
    /\ seed \in [pc : SeedPcs, demo : 1 .. Len(Demo) + 1, item : Nat \ {0},
                 runs : 0 .. MaxRuns]
    /\ seed.pc \in {"user", "profile", "find", "create", "rule"}
          => seed.demo \in 1 .. Len(Demo)
    /\ seed.pc \in {"find", "create"} => seed.item \in 1 .. Len(Current.services)
    /\ seed.pc = "rule" => seed.item \in 1 .. Len(Days)
    /\ seed.pc \in {"booking", "payment"} => seed.item \in 1 .. Len(Samples)
    /\ seed.pc = "payment" => Samples[seed.item] \in bookings

SeedInv ==
    /\ rules \in [Usernames -> SUBSET ToSet(Days)]
    /\ bookings \subseteq SampleSet
    /\ payments \subseteq bookings
    /\ OnItsWay

-----------------------------------------------------------------------------
(* Requests.                                                                *)

LEMMA AnswerKeeps ==
    ASSUME TablesInv, NEW r \in Requests, Answer(r)
    PROVE  request' \in [Requests -> Request] /\ Remembered'
<1>1. Answered \in Request
  BY DirectoryAssumption DEF Answered, NewRequest, Request, Changes
<1>2. request' \in [Requests -> Request]
  BY <1>1 DEF Answer, TablesInv, DirectoryTypeOK
<1>3. Answered.pc = "answered"
  BY DEF Answered, NewRequest
<1>4. \A q \in Requests : request'[q] = IF q = r THEN Answered ELSE request[q]
  BY DEF Answer, TablesInv, DirectoryTypeOK
<1> QED BY <1>2, <1>3, <1>4 DEF Remembered, TablesInv

LEMMA BeginKeeps ==
    ASSUME TablesInv, NEW r \in Requests,
           NEW pc \in {"profile", "service", "update", "inquiry"},
           NEW user \in Users \cup {None}, NEW username \in Usernames \cup {None},
           NEW row \in 0 .. MaxServices, NEW change \in Changes,
           Begin(r, pc, user, username, row, change),
           pc = "profile" => user \in Users,
           pc \in {"profile", "service", "inquiry"} => username \in Usernames,
           pc = "service" => change.name \in Names
    PROVE  request' \in [Requests -> Request] /\ Remembered'
<1> DEFINE new == [pc |-> pc, user |-> user, username |-> username, row |-> row,
                   change |-> change]
<1>1. new \in Request
  BY DEF Request
<1>2. request' \in [Requests -> Request]
  BY <1>1 DEF Begin, TablesInv, DirectoryTypeOK
<1>3. \A q \in Requests : request'[q] = IF q = r THEN new ELSE request[q]
  BY DEF Begin, TablesInv, DirectoryTypeOK
<1> QED BY <1>2, <1>3 DEF Remembered, TablesInv

\* A row keeps its owner and its origin, and its name as long as it counts as
\* not renamed.
Ages(row) ==
    /\ row \in DOMAIN services'
    /\ services'[row].professional = services[row].professional
    /\ services'[row].by = services[row].by
    /\ services[row].renamed => services'[row].renamed
    /\ ~services'[row].renamed => services'[row].name = services[row].name

(* A row inserted by a request or by the seed.                              *)
LEMMA NewServiceKeeps ==
    ASSUME TablesInv, NEW username \in Usernames, NEW name \in Names,
           NEW active \in BOOLEAN, NEW by \in {"seed", "professional"},
           NewService(username, name, active, by)
    PROVE  /\ services' \in Seq(Service)
           /\ Len(services') <= MaxServices
           /\ \A row \in DOMAIN services :
                 row \in DOMAIN services' /\ services'[row] = services[row]
           /\ DOMAIN services' = DOMAIN services \cup {Len(services) + 1}
           /\ services'[Len(services) + 1] =
                 [professional |-> username, name |-> name, active |-> active,
                  by |-> by, renamed |-> FALSE]
<1> DEFINE new == [professional |-> username, name |-> name, active |-> active,
                   by |-> by, renamed |-> FALSE]
<1>1. new \in Service
  BY DEF Service
<1>2. services \in Seq(Service) /\ services' = Append(services, new)
      /\ Len(services) < MaxServices
  BY DEF NewService, TablesInv, DirectoryTypeOK
<1>3. Len(services) \in Nat /\ MaxServices \in Nat /\ DOMAIN services = 1 .. Len(services)
  BY <1>2, DirectoryAssumption
<1> QED BY <1>1, <1>2, <1>3, AppendProperties

(* The row an update writes: active only if it was or is to be.             *)
LEMMA UpdatedRow ==
    ASSUME NEW row \in Service, NEW change \in Changes
    PROVE  /\ Updated(row, change) \in Service
           /\ (~row.active /\ Updated(row, change).active) => change.active = TRUE
           /\ Updated(row, change).professional = row.professional
           /\ Updated(row, change).by = row.by
           /\ row.renamed => Updated(row, change).renamed
           /\ ~Updated(row, change).renamed => Updated(row, change).name = row.name
BY DEF Updated, Service, Changes

LEMMA WriteServiceKeeps ==
    ASSUME TablesInv, NEW r \in Requests, WriteService(r)
    PROVE  /\ services' \in Seq(Service)
           /\ Len(services') <= MaxServices
           /\ \A row \in DOMAIN services :
                 (~services[row].active /\ services'[row].active)
                     => request[r].row = row /\ request[r].change.active = TRUE
           /\ DOMAIN services' = DOMAIN services
           /\ \A row \in DOMAIN services : Ages(row)
<1> DEFINE i == request[r].row
           new == Updated(services[i], request[r].change)
<1>1. services \in Seq(Service) /\ request[r] \in Request
  BY DEF TablesInv, DirectoryTypeOK
<1>2. services' = [services EXCEPT ![i] = new]
  BY DEF WriteService
<1>3. CASE i \in 1 .. Len(services)
  <2>0. services[i] \in Service /\ request[r].change \in Changes
    BY <1>1, <1>3 DEF Request
  <2>1. /\ new \in Service
        /\ (~services[i].active /\ new.active) => request[r].change.active = TRUE
        /\ new.professional = services[i].professional /\ new.by = services[i].by
        /\ services[i].renamed => new.renamed
        /\ ~new.renamed => new.name = services[i].name
    BY <2>0, UpdatedRow, Zenon
  <2>2. /\ services' \in Seq(Service)
        /\ Len(services') = Len(services)
        /\ \A j \in 1 .. Len(services) :
              services'[j] = IF j = i THEN new ELSE services[j]
    BY <1>1, <1>2, <1>3, <2>1, ExceptSeq
  <2>3. DOMAIN services = 1 .. Len(services)
    BY <1>1
  <2>4. DOMAIN services' = DOMAIN services
    BY <1>1, <2>2
  <2> HIDE DEF new, i
  <2>5. ASSUME NEW row \in DOMAIN services
        PROVE  Ages(row)
    BY <2>1, <2>2, <2>3, <2>4, <2>5 DEF Ages
  <2> QED BY <2>1, <2>2, <2>3, <2>4, <2>5 DEF TablesInv, i
<1>4. CASE i \notin 1 .. Len(services)
  <2>1. i \notin DOMAIN services
    BY <1>1, <1>4
  <2>2. services' = services
    BY <1>1, <1>2, <2>1
  <2> QED BY <1>1, <2>2 DEF TablesInv, Ages
<1> QED BY <1>3, <1>4

-----------------------------------------------------------------------------
(* One step per operation of Directory.                                     *)
LEMMA DirectoryKeeps ==
    ASSUME TablesInv, DirectoryNext
    PROVE  TablesInv'
<1>1. ASSUME NEW user \in Users, Register(user)
      PROVE  TablesInv'
  BY <1>1 DEF Register, TablesInv, DirectoryTypeOK, Remembered
<1>2. ASSUME NEW r \in Requests, NEW user \in users, NEW u \in Usernames,
             CreateProfile(r, user, u)
      PROVE  TablesInv'
  <2>1. user \in Users /\ Nothing \in Changes /\ 0 \in 0 .. MaxServices
    BY DirectoryAssumption
       DEF TablesInv, DirectoryTypeOK, Nothing, NewRequest, Changes
  <2>2. request' \in [Requests -> Request] /\ Remembered'
    BY <1>2, <2>1, AnswerKeeps, BeginKeeps DEF CreateProfile, Reject
  <2> QED BY <1>2, <2>2 DEF CreateProfile, TablesInv, DirectoryTypeOK
<1>3. ASSUME NEW r \in Requests, NEW user \in users, NEW change \in Changes,
             change.name # None, CreateService(r, user, change)
      PROVE  TablesInv'
  <2>1. user \in Users /\ change.name \in Names /\ 0 \in 0 .. MaxServices
    BY <1>3, DirectoryAssumption DEF TablesInv, DirectoryTypeOK, Changes
  <2>2. request' \in [Requests -> Request] /\ Remembered'
    BY <1>3, <2>1, BeginKeeps DEF CreateService
  <2> QED BY <1>3, <2>2 DEF CreateService, TablesInv, DirectoryTypeOK
<1>4. ASSUME NEW r \in Requests, NEW user \in users, NEW change \in Changes,
             NEW row \in DOMAIN services, UpdateService(r, user, row, change)
      PROVE  TablesInv'
  <2>1. user \in Users /\ row \in 0 .. MaxServices
    BY DirectoryAssumption DEF TablesInv, DirectoryTypeOK
  <2>2. request' \in [Requests -> Request] /\ Remembered'
    BY <1>4, <2>1, AnswerKeeps, BeginKeeps DEF UpdateService, Reject
  <2> QED BY <1>4, <2>2 DEF UpdateService, TablesInv, DirectoryTypeOK
<1>5. Removal \in Changes
  BY DEF Removal, Changes
<1>6. ASSUME NEW r \in Requests, NEW u \in Usernames, CreateInquiry(r, u)
      PROVE  TablesInv'
  <2>1. Nothing \in Changes /\ 0 \in 0 .. MaxServices
    BY DirectoryAssumption DEF Nothing, NewRequest, Changes
  <2>2. request' \in [Requests -> Request] /\ Remembered'
    BY <1>6, <2>1, AnswerKeeps, BeginKeeps DEF CreateInquiry, Reject
  <2> QED BY <1>6, <2>2 DEF CreateInquiry, TablesInv, DirectoryTypeOK
<1>7. ASSUME NEW r \in Requests, InsertProfile(r)
      PROVE  TablesInv'
  <2>1. request' \in [Requests -> Request] /\ Remembered'
    BY <1>7, AnswerKeeps DEF InsertProfile
  <2>2. owner' \in [Usernames -> Users \cup {None}]
    BY <1>7 DEF InsertProfile, TablesInv, DirectoryTypeOK, Remembered
  <2> QED BY <1>7, <2>1, <2>2 DEF InsertProfile, TablesInv, DirectoryTypeOK
<1>8. ASSUME NEW r \in Requests, InsertService(r)
      PROVE  TablesInv'
  <2>1. request' \in [Requests -> Request] /\ Remembered'
    BY <1>8, AnswerKeeps DEF InsertService
  <2>2. services' \in Seq(Service) /\ Len(services') <= MaxServices
    BY <1>8, NewServiceKeeps DEF InsertService, TablesInv, Remembered
  <2> QED BY <1>8, <2>1, <2>2 DEF InsertService, TablesInv, DirectoryTypeOK
<1>9. ASSUME NEW r \in Requests, WriteService(r)
      PROVE  TablesInv'
  <2>1. request' \in [Requests -> Request] /\ Remembered'
    BY <1>9, AnswerKeeps DEF WriteService
  <2> QED BY <1>9, <2>1, WriteServiceKeeps DEF WriteService, TablesInv, DirectoryTypeOK
<1>10. ASSUME NEW r \in Requests, InsertInquiry(r)
       PROVE  TablesInv'
  <2>1. request' \in [Requests -> Request] /\ Remembered'
    BY <1>10, AnswerKeeps DEF InsertInquiry
  <2>2. inquiries' \in [Usernames -> Nat]
    BY <1>10 DEF InsertInquiry, TablesInv, DirectoryTypeOK, Remembered
  <2> QED BY <1>10, <2>1, <2>2 DEF InsertInquiry, TablesInv, DirectoryTypeOK
<1> QED
  BY <1>1, <1>2, <1>3, <1>4, <1>5, <1>6, <1>7, <1>8, <1>9, <1>10
     DEF DirectoryNext, RemoveService

-----------------------------------------------------------------------------
(* The seed.                                                                *)

\* What the seed works through is within its data.
LEMMA SeedData ==
    /\ Demo \in Seq([user : Users, username : Usernames,
                      services : Seq(Names) \ {<<>>}])
    /\ Len(Demo) \in Nat \ {0} /\ Len(Days) \in Nat \ {0}
    /\ Len(Samples) \in Nat \ {0} /\ MaxRuns \in Nat
    /\ \A i \in 1 .. Len(Days) : Days[i] \in ToSet(Days)
    /\ \A i \in 1 .. Len(Samples) : Samples[i] \in SampleSet
<1>1. Demo \in Seq([user : Users, username : Usernames,
                    services : Seq(Names) \ {<<>>}]) /\ MaxRuns \in Nat
  BY SeedAssumption
<1>2. Len(Demo) \in Nat \ {0} /\ Len(Days) \in Nat \ {0} /\ Len(Samples) \in Nat \ {0}
  BY SeedAssumption, EmptySeq
<1>3. DOMAIN Days = 1 .. Len(Days) /\ DOMAIN Samples = 1 .. Len(Samples)
  BY SeedAssumption
<1> QED BY <1>1, <1>2, <1>3 DEF ToSet, SampleSet

LEMMA CurrentData ==
    ASSUME seed.demo \in 1 .. Len(Demo)
    PROVE  /\ Current.user \in Users /\ Current.username \in Usernames
           /\ Current.services \in Seq(Names) /\ Len(Current.services) \in Nat \ {0}
<1> DEFINE Data == [user : Users, username : Usernames, services : Seq(Names) \ {<<>>}]
<1>1. Demo \in Seq(Data)
  BY SeedData
<1>2. Demo[seed.demo] \in Data
  <2> HIDE DEF Data
  <2> QED BY <1>1, ElementOfSeq
<1>3. /\ Current.user \in Users /\ Current.username \in Usernames
      /\ Current.services \in Seq(Names) /\ Current.services # <<>>
  BY <1>2 DEF Current
<1> QED BY <1>3, EmptySeq

\* A position within the data.
Within(pc, demo, item, booked) ==
    /\ pc \in SeedPcs /\ demo \in 1 .. Len(Demo) + 1 /\ item \in Nat \ {0}
    /\ pc \in {"user", "profile", "find", "create", "rule"} => demo \in 1 .. Len(Demo)
    /\ pc \in {"find", "create"} => item \in 1 .. Len(Demo[demo].services)
    /\ pc = "rule" => item \in 1 .. Len(Days)
    /\ pc \in {"booking", "payment"} => item \in 1 .. Len(Samples)
    /\ pc = "payment" => Samples[item] \in booked

LEMMA MoveKeeps ==
    ASSUME OnItsWay, NEW pc, NEW demo, NEW item, SeedAt(pc, demo, item),
           Within(pc, demo, item, bookings')
    PROVE  OnItsWay'
<1>1. seed' = [pc |-> pc, demo |-> demo, item |-> item, runs |-> seed.runs]
  BY DEF OnItsWay, SeedAt
<1>2. seed.runs \in 0 .. MaxRuns
  BY DEF OnItsWay
<1>3. seed'.pc = pc /\ seed'.demo = demo /\ seed'.item = item
  BY <1>1
<1>4. seed' \in [pc : SeedPcs, demo : 1 .. Len(Demo) + 1, item : Nat \ {0},
                 runs : 0 .. MaxRuns]
  BY <1>1, <1>2 DEF Within
<1>5. Current' = Demo[demo]
  BY <1>3 DEF Current
<1> QED BY <1>3, <1>4, <1>5 DEF Within, OnItsWay

\* Where the seed goes from an item that is in its place.
LEMMA NextItemKeeps ==
    ASSUME OnItsWay, seed.demo \in 1 .. Len(Demo),
           seed.item \in 1 .. Len(Current.services),
           NextItem("find", Len(Current.services), "rule")
    PROVE  OnItsWay'
<1>1. Len(Current.services) \in Nat /\ Len(Days) \in Nat \ {0} /\ Len(Demo) \in Nat
  BY CurrentData, SeedData
<1>2. CASE seed.item < Len(Current.services)
  <2>1. Within("find", seed.demo, seed.item + 1, bookings')
    BY <1>1, <1>2 DEF Within, SeedPcs, Current
  <2> QED BY <1>2, <2>1, MoveKeeps DEF NextItem
<1>3. CASE ~(seed.item < Len(Current.services))
  <2>1. Within("rule", seed.demo, 1, bookings')
    BY <1>1 DEF Within, SeedPcs
  <2> QED BY <1>3, <2>1, MoveKeeps DEF NextItem
<1> QED BY <1>2, <1>3

LEMMA SeedKeeps ==
    ASSUME TablesInv, SeedInv, SeedNext
    PROVE  TablesInv' /\ SeedInv'
<1>d. /\ Len(Demo) \in Nat \ {0} /\ Len(Days) \in Nat \ {0}
      /\ Len(Samples) \in Nat \ {0} /\ MaxRuns \in Nat
      /\ \A i \in 1 .. Len(Days) : Days[i] \in ToSet(Days)
      /\ \A i \in 1 .. Len(Samples) : Samples[i] \in SampleSet
  BY SeedData
<1>t. directoryVars' = directoryVars => TablesInv'
  BY DEF directoryVars, TablesInv, DirectoryTypeOK, Remembered
<1>s. /\ rules \in [Usernames -> SUBSET ToSet(Days)]
      /\ bookings \subseteq SampleSet /\ payments \subseteq bookings /\ OnItsWay
  BY DEF SeedInv
<1>1. CASE RunSeed
  <2>1. /\ seed' = [pc |-> "user", demo |-> 1, item |-> 1, runs |-> seed.runs + 1]
        /\ seed.runs + 1 \in 0 .. MaxRuns
    BY <1>1, <1>d, <1>s DEF RunSeed, OnItsWay
  <2>2. seed' \in [pc : SeedPcs, demo : 1 .. Len(Demo) + 1, item : Nat \ {0},
                   runs : 0 .. MaxRuns]
    BY <2>1, <1>d DEF SeedPcs
  <2>3. seed'.pc = "user" /\ seed'.demo = 1
    BY <2>1
  <2>4. OnItsWay'
    BY <2>2, <2>3, <1>d DEF OnItsWay
  <2> QED BY <1>1, <1>t, <1>s, <2>4 DEF RunSeed, SeedInv
<1>2. CASE SeedUser
  <2>1. seed.demo \in 1 .. Len(Demo)
    BY <1>2, <1>s DEF SeedUser, OnItsWay
  <2>2. OnItsWay'
    <3>1. Within("profile", seed.demo, 1, bookings')
      BY <2>1, <1>d DEF Within, SeedPcs
    <3> QED BY <1>2, <1>s, <3>1, MoveKeeps DEF SeedUser
  <2>3. users' \subseteq Users
    BY <1>2, <2>1, CurrentData DEF SeedUser, TablesInv, DirectoryTypeOK
  <2> QED BY <1>2, <1>s, <2>2, <2>3
          DEF SeedUser, SeedInv, TablesInv, DirectoryTypeOK, Remembered
<1>3. CASE SeedProfile
  <2>1. seed.demo \in 1 .. Len(Demo)
    BY <1>3, <1>s DEF SeedProfile, OnItsWay
  <2>2. Current.user \in Users /\ Current.username \in Usernames
        /\ Len(Current.services) \in Nat \ {0}
    BY <2>1, CurrentData
  <2>3. OnItsWay'
    <3>1. Within("find", seed.demo, 1, bookings') /\ Within("exited", 1, 1, bookings')
      BY <2>1, <2>2, <1>d DEF Within, SeedPcs, Current
    <3> QED BY <1>3, <1>s, <3>1, MoveKeeps DEF SeedProfile
  <2>4. owner' \in [Usernames -> Users \cup {None}]
    BY <1>3, <2>2 DEF SeedProfile, TablesInv, DirectoryTypeOK
  <2> QED BY <1>3, <1>s, <2>3, <2>4
          DEF SeedProfile, SeedInv, TablesInv, DirectoryTypeOK, Remembered
<1>4. CASE FindService
  <2>1. seed.demo \in 1 .. Len(Demo) /\ seed.item \in 1 .. Len(Current.services)
    BY <1>4, <1>s DEF FindService, OnItsWay
  <2>2. OnItsWay'
    <3>1. Within("create", seed.demo, seed.item, bookings')
      BY <2>1, <1>s, <1>d DEF Within, SeedPcs, Current, OnItsWay
    <3> QED BY <1>4, <1>s, <2>1, <3>1, MoveKeeps, NextItemKeeps DEF FindService
  <2> QED BY <1>4, <1>t, <1>s, <2>2 DEF FindService, SeedInv
<1>5. CASE SeedService
  <2>1. seed.demo \in 1 .. Len(Demo) /\ seed.item \in 1 .. Len(Current.services)
    BY <1>5, <1>s DEF SeedService, OnItsWay
  <2>2. OnItsWay'
    BY <1>5, <2>1, <1>s, NextItemKeeps DEF SeedService
  <2>3. Current.username \in Usernames /\ Current.services[seed.item] \in Names
    BY <2>1, CurrentData
  <2>4. services' \in Seq(Service) /\ Len(services') <= MaxServices
    BY <1>5, <2>3, NewServiceKeeps DEF SeedService
  <2> QED BY <1>5, <1>s, <2>2, <2>4
          DEF SeedService, SeedInv, TablesInv, DirectoryTypeOK, Remembered
<1>6. CASE SeedRule
  <2>1. seed.demo \in 1 .. Len(Demo) /\ seed.item \in 1 .. Len(Days)
    BY <1>6, <1>s DEF SeedRule, OnItsWay
  <2>2. OnItsWay'
    <3>1. seed.item < Len(Days) => Within("rule", seed.demo, seed.item + 1, bookings')
      BY <2>1, <1>d DEF Within, SeedPcs
    <3>2. /\ seed.demo < Len(Demo) => Within("user", seed.demo + 1, 1, bookings')
          /\ Within("services", seed.demo + 1, 1, bookings')
      BY <2>1, <1>d DEF Within, SeedPcs
    <3> QED BY <1>6, <1>s, <3>1, <3>2, MoveKeeps DEF SeedRule
  <2>3. rules' \in [Usernames -> SUBSET ToSet(Days)]
    BY <1>6, <1>d, <1>s, <2>1 DEF SeedRule
  <2> QED BY <1>6, <1>t, <1>s, <2>2, <2>3 DEF SeedRule, SeedInv
<1>7. CASE FindServices
  <2>1. seed.demo \in 1 .. Len(Demo) + 1
    BY <1>s DEF OnItsWay
  <2>2. Within("booking", seed.demo, 1, bookings') /\ Within("done", 1, 1, bookings')
    BY <2>1, <1>d DEF Within, SeedPcs
  <2>3. OnItsWay'
    BY <1>7, <1>s, <2>2, MoveKeeps DEF FindServices
  <2> QED BY <1>7, <1>t, <1>s, <2>3 DEF FindServices, SeedInv
<1>8. CASE SeedBooking
  <2>1. seed.demo \in 1 .. Len(Demo) + 1 /\ seed.item \in 1 .. Len(Samples)
    BY <1>8, <1>s DEF SeedBooking, OnItsWay
  <2>2. bookings' = bookings \cup {Samples[seed.item]}
    BY <1>8 DEF SeedBooking
  <2>3. Within("payment", seed.demo, seed.item, bookings')
    BY <2>1, <2>2, <1>d DEF Within, SeedPcs
  <2>4. OnItsWay'
    BY <1>8, <1>s, <2>3, MoveKeeps DEF SeedBooking
  <2> QED BY <1>8, <1>t, <1>s, <1>d, <2>1, <2>2, <2>4 DEF SeedBooking, SeedInv
<1>9. CASE SeedPayment
  <2>1. /\ seed.demo \in 1 .. Len(Demo) + 1 /\ seed.item \in 1 .. Len(Samples)
        /\ Samples[seed.item] \in bookings
    BY <1>9, <1>s DEF SeedPayment, OnItsWay
  <2>2. /\ seed.item < Len(Samples)
              => Within("booking", seed.demo, seed.item + 1, bookings')
        /\ Within("done", 1, 1, bookings')
    BY <2>1, <1>d DEF Within, SeedPcs
  <2>3. OnItsWay'
    BY <1>9, <1>s, <2>2, MoveKeeps DEF SeedPayment
  <2> QED BY <1>9, <1>t, <1>s, <2>1, <2>3 DEF SeedPayment, SeedInv
<1>10. CASE SeedExits
  <2>1. Within("exited", 1, 1, bookings')
    BY <1>d DEF Within, SeedPcs
  <2>2. OnItsWay'
    BY <1>10, <1>s, <2>1, MoveKeeps DEF SeedExits
  <2> QED BY <1>10, <1>t, <1>s, <2>2 DEF SeedExits, SeedInv
<1> QED
  BY <1>1, <1>2, <1>3, <1>4, <1>5, <1>6, <1>7, <1>8, <1>9, <1>10 DEF SeedNext

-----------------------------------------------------------------------------
LEMMA InitKeeps ==
    ASSUME Init
    PROVE  TablesInv /\ SeedInv
<1>1. NewRequest \in Request /\ NewRequest.pc = "new"
  BY DirectoryAssumption DEF NewRequest, Request, Changes
<1>2. services \in Seq(Service) /\ Len(services) <= MaxServices
  BY DirectoryAssumption, EmptySeq DEF Init, DirectoryInit
<1>3. TablesInv
  BY <1>1, <1>2 DEF Init, DirectoryInit, TablesInv, DirectoryTypeOK, Remembered
<1>4. OnItsWay
  BY SeedData DEF Init, SeedInit, OnItsWay, SeedPcs
<1>5. SeedInv
  BY <1>4 DEF Init, SeedInit, SeedInv
<1> QED BY <1>3, <1>5

LEMMA StepKeeps ==
    ASSUME TablesInv, SeedInv, [Next]_allVars
    PROVE  TablesInv' /\ SeedInv'
<1>1. CASE SeedNext
  BY <1>1, SeedKeeps
<1>2. CASE DirectoryNext /\ UNCHANGED seedVars
  <2>1. SeedInv'
    BY <1>2 DEF seedVars, SeedInv, OnItsWay, Current
  <2> QED BY <1>2, <2>1, DirectoryKeeps
<1>3. CASE UNCHANGED allVars
  BY <1>3 DEF allVars, directoryVars, seedVars, TablesInv, DirectoryTypeOK,
              Remembered, SeedInv, OnItsWay, Current
<1> QED BY <1>1, <1>2, <1>3 DEF Next

(* The tables and the seed's position are well-formed: a request inserts for *)
(* a profile that existed, the seed stays within its data, and a sample      *)
(* payment never comes without its booking.                                 *)
THEOREM SeedTypeCorrect == Spec => []SeedTypeOK
<1>1. Init => TablesInv /\ SeedInv
  BY InitKeeps
<1>2. TablesInv /\ SeedInv /\ [Next]_allVars => (TablesInv /\ SeedInv)'
  BY StepKeeps
<1>3. TablesInv /\ SeedInv => SeedTypeOK
  BY DEF TablesInv, SeedInv, OnItsWay, SeedPcs, SeedTypeOK
<1> QED BY <1>1, <1>2, <1>3, PTL DEF Spec

-----------------------------------------------------------------------------
\* What RemovedStaysRemoved says of one step.
BackOnlyByRequest ==
    \A row \in DOMAIN services :
        (~services[row].active /\ services'[row].active)
            => \E r \in Requests : Reactivates(r, row)

LEMMA RowsKept ==
    ASSUME \A row \in DOMAIN services : services'[row] = services[row]
    PROVE  BackOnlyByRequest
BY DEF BackOnlyByRequest

LEMMA StepBringsNothingBack ==
    ASSUME TablesInv, SeedInv, [Next]_allVars
    PROVE  BackOnlyByRequest
<1>1. CASE UNCHANGED services
  BY <1>1, RowsKept
<1>2. ASSUME NEW r \in Requests, InsertService(r)
      PROVE  BackOnlyByRequest
  BY <1>2, RowsKept, NewServiceKeeps DEF InsertService, TablesInv, Remembered
<1>3. CASE SeedService
  <2>1. Current.username \in Usernames /\ Current.services[seed.item] \in Names
    BY <1>3, CurrentData DEF SeedService, SeedInv, OnItsWay
  <2> QED BY <1>3, <2>1, RowsKept, NewServiceKeeps DEF SeedService
<1>4. ASSUME NEW r \in Requests, WriteService(r)
      PROVE  BackOnlyByRequest
  <2>1. request[r].pc = "update" /\ request'[r] = Answered
    BY <1>4 DEF WriteService, Answer, TablesInv, DirectoryTypeOK
  <2>2. Answered.pc = "answered"
    BY DEF Answered, NewRequest
  <2>3. \A row \in DOMAIN services :
           (~services[row].active /\ services'[row].active)
               => request[r].row = row /\ request[r].change.active = TRUE
    BY <1>4, WriteServiceKeeps
  <2> QED BY <2>1, <2>2, <2>3 DEF BackOnlyByRequest, Reactivates
<1>5. SeedNext => SeedService \/ UNCHANGED services
  BY DEF SeedNext, RunSeed, SeedUser, SeedProfile, FindService, SeedRule,
         FindServices, SeedBooking, SeedPayment, SeedExits, directoryVars
<1>6. DirectoryNext => \/ \E r \in Requests : InsertService(r) \/ WriteService(r)
                       \/ UNCHANGED services
  BY DEF DirectoryNext, Register, CreateProfile, CreateService, RemoveService,
         UpdateService, CreateInquiry, InsertProfile, InsertInquiry
<1>7. UNCHANGED allVars => UNCHANGED services
  BY DEF allVars, directoryVars
<1> QED BY <1>1, <1>2, <1>3, <1>4, <1>5, <1>6, <1>7 DEF Next

(* A removed service is offered again only by an update that says so,        *)
(* however updates, removals, inserts and seed runs interleave.             *)
THEOREM RemovalIsRespected == Spec => RemovedStaysRemoved
<1>1. Init => TablesInv /\ SeedInv
  BY InitKeeps
<1>2. TablesInv /\ SeedInv /\ [Next]_allVars => (TablesInv /\ SeedInv)'
  BY StepKeeps
<1>3. TablesInv /\ SeedInv /\ [Next]_allVars => [BackOnlyByRequest]_directoryVars
  BY StepBringsNothingBack
<1>4. [][BackOnlyByRequest]_directoryVars => RemovedStaysRemoved
  BY PTL DEF RemovedStaysRemoved, BackOnlyByRequest
<1> QED BY <1>1, <1>2, <1>3, <1>4, PTL DEF Spec

-----------------------------------------------------------------------------
(* Running the seed again.  Between the look-up of a service and its insert *)
(* requests come and go, so the seed's step alone does not show that the    *)
(* row is the first of its kind: what helps is that requests only add rows  *)
(* of their own and rename others (SeedsOnce, and "create" in ProgressAt).   *)
(* And what the seed has passed it has left in place (ProgressAt), whoever  *)
(* put it there.                                                            *)

Original(row) == services[row].by = "seed" /\ ~services[row].renamed

\* No two rows of one name that the seed has made and nobody has renamed.
SeedsOnce ==
    \A i, j \in DOMAIN services :
        (/\ Original(i) /\ Original(j)
         /\ services[i].professional = services[j].professional
         /\ services[i].name = services[j].name) => i = j

Has(d, name) == Seeded(d, name) # {} \/ Edited(d)

Complete(d) ==
    /\ d.user \in users /\ owner[d.username] # None
    /\ \A name \in ToSet(d.services) : Has(d, name)
    /\ rules[d.username] = ToSet(Days)

ProgressAt(pc, demo, item) ==
    /\ pc \in {"user", "profile", "find", "create", "rule"} =>
          \A j \in 1 .. demo - 1 : Complete(Demo[j])
    /\ pc \in {"services", "booking", "payment", "done"} =>
          \A j \in 1 .. Len(Demo) : Complete(Demo[j])
    /\ pc \in {"profile", "find", "create", "rule"} => Demo[demo].user \in users
    /\ pc \in {"find", "create", "rule"} => owner[Demo[demo].username] # None
    /\ pc \in {"find", "create"} =>
          \A i \in 1 .. item - 1 : Has(Demo[demo], Demo[demo].services[i])
    /\ pc = "create" =>
          \A i \in DOMAIN services :
             ~(/\ Original(i)
               /\ services[i].professional = Demo[demo].username
               /\ services[i].name = Demo[demo].services[item])
    /\ pc = "rule" =>
          /\ \A name \in ToSet(Demo[demo].services) : Has(Demo[demo], name)
          /\ \A i \in 1 .. item - 1 : Days[i] \in rules[Demo[demo].username]
    /\ pc \in {"booking", "payment"} =>
          \A i \in 1 .. item - 1 : Samples[i] \in payments
    /\ pc = "done" => payments = SampleSet \/ Edited(Demo[1])

Progress == ProgressAt(seed.pc, seed.demo, seed.item)

RerunInv == TablesInv /\ SeedInv /\ SeedsOnce /\ Progress

\* Nothing that is there goes away.
Grows ==
    /\ users \subseteq users'
    /\ \A u \in Usernames : owner[u] # None => owner'[u] # None
    /\ \A row \in DOMAIN services : Ages(row)
    /\ \A u \in Usernames : rules[u] \subseteq rules'[u]
    /\ payments \subseteq payments'

\* The rows that are added are a request's.
AddedByRequests ==
    \A row \in DOMAIN services' :
        row \in DOMAIN services \/ services'[row].by = "professional"

\* The seed's row for the service it is at.
AddedBySeed(username, name) ==
    /\ DOMAIN services' = DOMAIN services \cup {Len(services) + 1}
    /\ services'[Len(services) + 1].professional = username
    /\ services'[Len(services) + 1].name = name
    /\ services'[Len(services) + 1].by = "seed"
    /\ ~services'[Len(services) + 1].renamed

LEMMA SameRowsAge ==
    ASSUME \A row \in DOMAIN services :
              row \in DOMAIN services' /\ services'[row] = services[row]
    PROVE  \A row \in DOMAIN services : Ages(row)
BY DEF Ages

LEMMA RequestsGrow ==
    ASSUME TablesInv, SeedInv, DirectoryNext, UNCHANGED seedVars
    PROVE  Grows /\ AddedByRequests
<1>1. UNCHANGED services =>
          /\ \A row \in DOMAIN services : Ages(row)
          /\ AddedByRequests
  BY SameRowsAge DEF AddedByRequests
<1>2. ASSUME NEW r \in Requests, InsertService(r)
      PROVE  /\ \A row \in DOMAIN services : Ages(row)
             /\ AddedByRequests
  <2> DEFINE active == request[r].change.active # FALSE
  <2>0. /\ request[r].username \in Usernames
        /\ request[r].change.name \in Names
        /\ NewService(request[r].username, request[r].change.name, active, "professional")
    BY <1>2 DEF InsertService, TablesInv, Remembered
  <2>1. active \in BOOLEAN
    OBVIOUS
  <2> HIDE DEF active
  <2>2. /\ \A row \in DOMAIN services :
              row \in DOMAIN services' /\ services'[row] = services[row]
        /\ DOMAIN services' = DOMAIN services \cup {Len(services) + 1}
        /\ services'[Len(services) + 1] =
              [professional |-> request[r].username, name |-> request[r].change.name,
               active |-> active, by |-> "professional", renamed |-> FALSE]
    BY <2>0, <2>1, NewServiceKeeps
  <2>3. services'[Len(services) + 1].by = "professional"
    BY <2>2
  <2> QED
    BY <2>2, <2>3, SameRowsAge DEF AddedByRequests
<1>3. ASSUME NEW r \in Requests, WriteService(r)
      PROVE  /\ \A row \in DOMAIN services : Ages(row)
             /\ AddedByRequests
  BY <1>3, WriteServiceKeeps DEF AddedByRequests
<1>4. \/ \E r \in Requests : InsertService(r) \/ WriteService(r)
      \/ UNCHANGED services
  BY DEF DirectoryNext, Register, CreateProfile, CreateService, RemoveService,
         UpdateService, CreateInquiry, InsertProfile, InsertInquiry
<1>5. users \subseteq users'
  BY DEF DirectoryNext, Register, CreateProfile, CreateService, RemoveService,
         UpdateService, CreateInquiry, InsertProfile, InsertInquiry, InsertService,
         WriteService
<1>6. \A u \in Usernames : owner[u] # None => owner'[u] # None
  <2>1. ASSUME NEW r \in Requests, InsertProfile(r)
        PROVE  \A u \in Usernames : owner[u] # None => owner'[u] # None
    BY <2>1 DEF InsertProfile, TablesInv, DirectoryTypeOK
  <2>2. (\E r \in Requests : InsertProfile(r)) \/ UNCHANGED owner
    BY DEF DirectoryNext, Register, CreateProfile, CreateService, RemoveService,
           UpdateService, CreateInquiry, InsertInquiry, InsertService, WriteService
  <2> QED
    BY <2>1, <2>2
<1> QED
  BY <1>1, <1>2, <1>3, <1>4, <1>5, <1>6 DEF Grows, seedVars

LEMMA SeedGrows ==
    ASSUME TablesInv, SeedInv, SeedNext
    PROVE  /\ Grows
           /\ ~SeedService => AddedByRequests
           /\ SeedService => AddedBySeed(Current.username, Current.services[seed.item])
<1>1. CASE SeedService
  <2>1. seed.demo \in 1 .. Len(Demo) /\ seed.item \in 1 .. Len(Current.services)
    BY <1>1 DEF SeedService, SeedInv, OnItsWay
  <2>2. Current.username \in Usernames /\ Current.services[seed.item] \in Names
    BY <2>1, CurrentData
  <2>3. /\ \A row \in DOMAIN services :
              row \in DOMAIN services' /\ services'[row] = services[row]
        /\ DOMAIN services' = DOMAIN services \cup {Len(services) + 1}
        /\ services'[Len(services) + 1] =
              [professional |-> Current.username, name |-> Current.services[seed.item],
               active |-> TRUE, by |-> "seed", renamed |-> FALSE]
    BY <1>1, <2>2, NewServiceKeeps DEF SeedService
  <2>4. AddedBySeed(Current.username, Current.services[seed.item])
    BY <2>3 DEF AddedBySeed
  <2>5. \A row \in DOMAIN services : Ages(row)
    BY <2>3, SameRowsAge
  <2> QED
    BY <1>1, <2>4, <2>5 DEF SeedService, Grows
<1>2. CASE ~SeedService
  <2>1. UNCHANGED services
    BY <1>2 DEF SeedNext, RunSeed, SeedUser, SeedProfile, FindService, SeedRule,
                FindServices, SeedBooking, SeedPayment, SeedExits, directoryVars
  <2>2. /\ \A row \in DOMAIN services : Ages(row)
        /\ AddedByRequests
    BY <2>1, SameRowsAge DEF AddedByRequests
  <2>3. users \subseteq users' /\ payments \subseteq payments'
    BY <1>2 DEF SeedNext, RunSeed, SeedUser, SeedProfile, FindService, SeedRule,
                FindServices, SeedBooking, SeedPayment, SeedExits, directoryVars
  <2>4. \A u \in Usernames : owner[u] # None => owner'[u] # None
    <3>1. CASE SeedProfile
      BY <3>1 DEF SeedProfile, TablesInv, DirectoryTypeOK
    <3>2. CASE ~SeedProfile
      <4>1. UNCHANGED owner
        BY <1>2, <3>2 DEF SeedNext, RunSeed, SeedUser, FindService, SeedRule,
                FindServices, SeedBooking, SeedPayment, SeedExits, directoryVars
      <4> QED
        BY <4>1
    <3> QED
      BY <3>1, <3>2
  <2>5. \A u \in Usernames : rules[u] \subseteq rules'[u]
    <3>1. CASE SeedRule
      BY <3>1 DEF SeedRule, SeedInv
    <3>2. CASE ~SeedRule
      <4>1. UNCHANGED rules
        BY <1>2, <3>2 DEF SeedNext, RunSeed, SeedUser, SeedProfile, FindService,
                FindServices, SeedBooking, SeedPayment, SeedExits
      <4> QED
        BY <4>1
    <3> QED
      BY <3>1, <3>2
  <2> QED
    BY <1>2, <2>2, <2>3, <2>4, <2>5 DEF Grows
<1> QED
  BY <1>1, <1>2

-----------------------------------------------------------------------------
(* What stays.                                                              *)

LEMMA EditedStays ==
    ASSUME \A row \in DOMAIN services : Ages(row), NEW d, Edited(d)
    PROVE  Edited(d)'
BY DEF Ages, Edited

LEMMA HasStays ==
    ASSUME \A row \in DOMAIN services : Ages(row), NEW d, NEW name, Has(d, name)
    PROVE  Has(d, name)'
<1>1. CASE Edited(d)
  BY <1>1, EditedStays DEF Has
<1>2. CASE Seeded(d, name) # {}
  <2>1. PICK row \in DOMAIN services : row \in Seeded(d, name)
    BY <1>2 DEF Seeded
  <2>2. /\ Ages(row)
        /\ services[row].professional = d.username /\ services[row].name = name
        /\ services[row].by = "seed"
    BY <2>1 DEF Seeded
  <2>3. CASE services'[row].renamed
    <3>1. Edited(d)'
      BY <2>2, <2>3 DEF Ages, Edited
    <3> QED
      BY <3>1 DEF Has
  <2>4. CASE ~services'[row].renamed
    <3>1. row \in Seeded(d, name)'
      BY <2>2, <2>4 DEF Ages, Seeded
    <3> QED
      BY <3>1 DEF Has
  <2> QED
    BY <2>3, <2>4
<1> QED
  BY <1>1, <1>2 DEF Has

LEMMA DemoData ==
    ASSUME NEW j \in 1 .. Len(Demo)
    PROVE  /\ Demo[j].user \in Users /\ Demo[j].username \in Usernames
           /\ Demo[j].services \in Seq(Names) /\ Len(Demo[j].services) \in Nat \ {0}
           /\ ToSet(Demo[j].services) =
                 {Demo[j].services[i] : i \in 1 .. Len(Demo[j].services)}
<1> DEFINE Data == [user : Users, username : Usernames, services : Seq(Names) \ {<<>>}]
<1>1. Demo \in Seq(Data)
  BY SeedData
<1>2. Demo[j] \in Data
  <2> HIDE DEF Data
  <2> QED BY <1>1, ElementOfSeq
<1>3. /\ Demo[j].user \in Users /\ Demo[j].username \in Usernames
      /\ Demo[j].services \in Seq(Names) /\ Demo[j].services # <<>>
  BY <1>2
<1>4. Len(Demo[j].services) \in Nat \ {0}
  BY <1>3, EmptySeq
<1>5. DOMAIN Demo[j].services = 1 .. Len(Demo[j].services)
  BY <1>3
<1> QED BY <1>3, <1>4, <1>5 DEF ToSet

LEMMA CompleteStays ==
    ASSUME Grows, rules' \in [Usernames -> SUBSET ToSet(Days)],
           NEW j \in 1 .. Len(Demo), Complete(Demo[j])
    PROVE  Complete(Demo[j])'
<1>1. Demo[j].username \in Usernames
  BY DemoData
<1>2. \A name \in ToSet(Demo[j].services) : Has(Demo[j], name)'
  BY HasStays DEF Complete, Grows
<1>3. rules'[Demo[j].username] = ToSet(Days)
  BY <1>1 DEF Complete, Grows
<1> QED BY <1>1, <1>2, <1>3 DEF Complete, Grows

\* What the seed has left behind stays, whoever takes a step.
LEMMA ProgressStays ==
    ASSUME Grows, rules' \in [Usernames -> SUBSET ToSet(Days)], payments' \subseteq SampleSet,
           NEW pc, NEW demo \in 1 .. Len(Demo) + 1, NEW item,
           pc \in {"user", "profile", "find", "create", "rule"} => demo \in 1 .. Len(Demo),
           pc = "create" => AddedByRequests,
           ProgressAt(pc, demo, item)
    PROVE  ProgressAt(pc, demo, item)'
<1>0. Len(Demo) \in Nat \ {0}
  BY SeedData
<1>1. pc \in {"user", "profile", "find", "create", "rule"} =>
          \A j \in 1 .. demo - 1 : Complete(Demo[j])'
  <2> SUFFICES ASSUME pc \in {"user", "profile", "find", "create", "rule"},
                      NEW j \in 1 .. demo - 1
               PROVE  Complete(Demo[j])'
    OBVIOUS
  <2>1. j \in 1 .. Len(Demo)
    BY <1>0
  <2>2. Complete(Demo[j])
    BY DEF ProgressAt
  <2> QED BY <2>1, <2>2, CompleteStays
<1>2. pc \in {"services", "booking", "payment", "done"} =>
          \A j \in 1 .. Len(Demo) : Complete(Demo[j])'
  BY CompleteStays DEF ProgressAt
<1>3. pc \in {"profile", "find", "create", "rule"} => Demo[demo].user \in users'
  BY DEF ProgressAt, Grows
<1>4. pc \in {"find", "create", "rule"} => owner'[Demo[demo].username] # None
  BY DemoData DEF ProgressAt, Grows
<1>5. pc \in {"find", "create"} =>
          \A i \in 1 .. item - 1 : Has(Demo[demo], Demo[demo].services[i])'
  BY HasStays DEF ProgressAt, Grows
<1>6. pc = "create" =>
          \A i \in DOMAIN services' :
             ~(/\ Original(i)'
               /\ services'[i].professional = Demo[demo].username
               /\ services'[i].name = Demo[demo].services[item])
  <2> SUFFICES ASSUME pc = "create", NEW i \in DOMAIN services', Original(i)',
                      services'[i].professional = Demo[demo].username,
                      services'[i].name = Demo[demo].services[item]
               PROVE  FALSE
    OBVIOUS
  <2>1. i \in DOMAIN services
    BY DEF AddedByRequests, Original
  <2>2. Ages(i)
    BY <2>1 DEF Grows
  <2>3. /\ Original(i) /\ services[i].professional = Demo[demo].username
        /\ services[i].name = Demo[demo].services[item]
    BY <2>2 DEF Ages, Original
  <2> QED BY <2>1, <2>3 DEF ProgressAt
<1>7. pc = "rule" =>
          /\ \A name \in ToSet(Demo[demo].services) : Has(Demo[demo], name)'
          /\ \A i \in 1 .. item - 1 : Days[i] \in rules'[Demo[demo].username]
  <2> SUFFICES ASSUME pc = "rule"
               PROVE  /\ \A name \in ToSet(Demo[demo].services) : Has(Demo[demo], name)'
                      /\ \A i \in 1 .. item - 1 : Days[i] \in rules'[Demo[demo].username]
    OBVIOUS
  <2>1. Demo[demo].username \in Usernames
    BY DemoData
  <2>2. \A name \in ToSet(Demo[demo].services) : Has(Demo[demo], name)'
    BY HasStays DEF ProgressAt, Grows
  <2> QED BY <2>1, <2>2 DEF ProgressAt, Grows
<1>8. pc \in {"booking", "payment"} =>
          \A i \in 1 .. item - 1 : Samples[i] \in payments'
  BY DEF ProgressAt, Grows
<1>9. pc = "done" => payments' = SampleSet \/ Edited(Demo[1])'
  BY EditedStays DEF ProgressAt, Grows
<1> QED BY <1>1, <1>2, <1>3, <1>4, <1>5, <1>6, <1>7, <1>8, <1>9 DEF ProgressAt

-----------------------------------------------------------------------------
(* What the seed adds.                                                      *)

LEMMA SeedsOnceStays ==
    ASSUME RerunInv, Grows,
           \/ AddedByRequests
           \/ /\ seed.pc = "create"
              /\ AddedBySeed(Current.username, Current.services[seed.item])
    PROVE  SeedsOnce'
<1> SUFFICES ASSUME NEW i \in DOMAIN services', NEW j \in DOMAIN services',
                    Original(i)', Original(j)',
                    services'[i].professional = services'[j].professional,
                    services'[i].name = services'[j].name
             PROVE  i = j
  BY DEF SeedsOnce
<1>1. ASSUME NEW row \in DOMAIN services, Original(row)'
      PROVE  /\ Original(row)
             /\ services[row].professional = services'[row].professional
             /\ services[row].name = services'[row].name
  BY <1>1 DEF Grows, Ages, Original
<1>2. CASE i \in DOMAIN services /\ j \in DOMAIN services
  BY <1>1, <1>2 DEF RerunInv, SeedsOnce
<1>3. CASE AddedByRequests
  BY <1>2, <1>3 DEF AddedByRequests, Original
<1>4. CASE /\ seed.pc = "create"
           /\ AddedBySeed(Current.username, Current.services[seed.item])
  <2>1. ASSUME NEW row \in DOMAIN services, Original(row)',
               services'[row].professional = Current.username,
               services'[row].name = Current.services[seed.item]
        PROVE  FALSE
    BY <1>1, <1>4, <2>1 DEF RerunInv, Progress, ProgressAt, Current
  <2>2. /\ i \in DOMAIN services \/ i = Len(services) + 1
        /\ j \in DOMAIN services \/ j = Len(services) + 1
    BY <1>4 DEF AddedBySeed
  <2>3. CASE i = Len(services) + 1 /\ j \in DOMAIN services
    BY <1>4, <2>1, <2>3 DEF AddedBySeed
  <2>4. CASE j = Len(services) + 1 /\ i \in DOMAIN services
    BY <1>4, <2>1, <2>4 DEF AddedBySeed
  <2> QED
    BY <1>2, <2>2, <2>3, <2>4
<1> QED
  BY <1>3, <1>4

LEMMA MovesOn ==
    ASSUME OnItsWay, NEW pc, NEW demo, NEW item, SeedAt(pc, demo, item),
           ProgressAt(pc, demo, item)'
    PROVE  Progress'
<1>1. seed'.pc = pc /\ seed'.demo = demo /\ seed'.item = item
  BY DEF OnItsWay, SeedAt
<1> QED BY <1>1 DEF Progress, ProgressAt

\* A service of the list is in its place: to the next one, or to the rules.
LEMMA NextItemMovesOn ==
    ASSUME OnItsWay, NEW demo \in 1 .. Len(Demo), NEW item \in 1 .. Len(Demo[demo].services),
           demo = seed.demo, item = seed.item,
           NextItem("find", Len(Current.services), "rule"),
           ProgressAt("find", demo, item)',
           Has(Demo[demo], Demo[demo].services[item])'
    PROVE  Progress'
<1>1. /\ Len(Demo[demo].services) \in Nat \ {0}
      /\ ToSet(Demo[demo].services) =
            {Demo[demo].services[i] : i \in 1 .. Len(Demo[demo].services)}
  BY DemoData
<1>2. \A i \in 1 .. item : Has(Demo[demo], Demo[demo].services[i])'
  <2>1. \A i \in 1 .. item - 1 : Has(Demo[demo], Demo[demo].services[i])'
    BY DEF ProgressAt
  <2> QED BY <1>1, <2>1
<1>3. CASE item < Len(Demo[demo].services)
  <2>1. SeedAt("find", demo, item + 1)
    BY <1>3 DEF NextItem, Current
  <2>2. (item + 1) - 1 = item
    BY <1>1
  <2>3. ProgressAt("find", demo, item + 1)'
    BY <1>2, <2>2 DEF ProgressAt
  <2> QED BY <2>1, <2>3, MovesOn
<1>4. CASE ~(item < Len(Demo[demo].services))
  <2>1. SeedAt("rule", demo, 1)
    BY <1>4 DEF NextItem, Current
  <2>2. item = Len(Demo[demo].services)
    BY <1>1, <1>4
  <2>3. \A name \in ToSet(Demo[demo].services) : Has(Demo[demo], name)'
    BY <1>1, <1>2, <2>2
  <2>4. ProgressAt("rule", demo, 1)'
    BY <2>3 DEF ProgressAt
  <2> QED BY <2>1, <2>4, MovesOn
<1> QED BY <1>3, <1>4

LEMMA SeedProgress ==
    ASSUME RerunInv, SeedNext
    PROVE  Progress'
<1>1. /\ Grows
      /\ ~SeedService => AddedByRequests
      /\ SeedService => AddedBySeed(Current.username, Current.services[seed.item])
  BY SeedGrows DEF RerunInv
<1>2. /\ TablesInv' /\ SeedInv' /\ TablesInv /\ SeedInv /\ OnItsWay /\ Progress
  BY SeedKeeps DEF RerunInv, SeedInv
<1>3. /\ rules' \in [Usernames -> SUBSET ToSet(Days)]
      /\ payments' \subseteq SampleSet
      /\ \A u \in Usernames : rules'[u] \subseteq ToSet(Days)
  BY <1>2 DEF SeedInv
<1>4. /\ Len(Demo) \in Nat \ {0} /\ Len(Days) \in Nat \ {0} /\ Len(Samples) \in Nat \ {0}
      /\ ToSet(Days) = {Days[i] : i \in 1 .. Len(Days)}
      /\ SampleSet = {Samples[i] : i \in 1 .. Len(Samples)}
  <2>1. DOMAIN Days = 1 .. Len(Days) /\ DOMAIN Samples = 1 .. Len(Samples)
    BY SeedAssumption
  <2> QED BY <2>1, SeedData DEF ToSet, SampleSet
<1>5. PICK demo \in 1 .. Len(Demo) + 1, item \in Nat \ {0} :
          demo = seed.demo /\ item = seed.item
  BY <1>2 DEF OnItsWay
<1> DEFINE d == Demo[demo]
<1>6. ASSUME NEW pc, pc = seed.pc,
             pc \in {"user", "profile", "find", "create", "rule"} => demo \in 1 .. Len(Demo),
             pc = "create" => ~SeedService
      PROVE  ProgressAt(pc, demo, item)'
  <2>1. ProgressAt(pc, demo, item)
    BY <1>2, <1>5, <1>6 DEF Progress
  <2> QED BY <1>1, <1>3, <1>6, <2>1, ProgressStays
<1>7. ProgressAt("exited", 1, 1)'
  BY DEF ProgressAt
<1>8. CASE RunSeed
  <2>1. seed'.pc = "user" /\ seed'.demo = 1
    BY <1>8 DEF RunSeed
  <2> QED BY <2>1 DEF Progress, ProgressAt
<1>9. CASE SeedUser
  <2>1. seed.pc = "user" /\ demo \in 1 .. Len(Demo) /\ SeedAt("profile", demo, 1)
    BY <1>2, <1>5, <1>9 DEF SeedUser, OnItsWay
  <2>2. ProgressAt("user", demo, item)'
    BY <1>6, <2>1
  <2>3. d.user \in users'
    BY <1>5, <1>9 DEF SeedUser, Current
  <2>4. ProgressAt("profile", demo, 1)'
    BY <2>2, <2>3 DEF ProgressAt
  <2> QED BY <1>2, <2>1, <2>4, MovesOn
<1>10. CASE SeedProfile
  <2>1. seed.pc = "profile" /\ demo \in 1 .. Len(Demo)
    BY <1>2, <1>5, <1>10 DEF SeedProfile, OnItsWay
  <2>2. ProgressAt("profile", demo, item)'
    BY <1>6, <2>1
  <2>3. CASE SeedAt("find", demo, 1) /\ owner'[d.username] # None
    <3>1. ProgressAt("find", demo, 1)'
      BY <2>2, <2>3 DEF ProgressAt
    <3> QED BY <1>2, <2>3, <3>1, MovesOn
  <2>4. CASE SeedAt("exited", 1, 1)
    BY <1>2, <1>7, <2>4, MovesOn
  <2>5. d.user # None /\ d.username \in Usernames
    BY <2>1, DemoData, DirectoryAssumption
  <2>6. owner \in [Usernames -> Users \cup {None}]
    BY <1>2 DEF TablesInv, DirectoryTypeOK
  <2> QED BY <1>5, <1>10, <2>3, <2>4, <2>5, <2>6 DEF SeedProfile, Current
<1>11. CASE FindService
  <2>1. /\ seed.pc = "find" /\ demo \in 1 .. Len(Demo)
        /\ item \in 1 .. Len(Demo[demo].services)
    BY <1>2, <1>5, <1>11 DEF FindService, OnItsWay, Current
  <2>2. ProgressAt("find", demo, item)'
    BY <1>6, <2>1
  <2>3. CASE IsThere(Current.services[seed.item])
    <3>1. PICK i \in DOMAIN services :
              services[i].professional = d.username /\ services[i].name = d.services[item]
      BY <1>5, <2>3 DEF IsThere, Current
    <3>2. services[i] \in Service
      BY <1>2 DEF TablesInv, DirectoryTypeOK
    <3>3. services[i].by = "professional" \/ services[i].renamed => Edited(d)
      BY <3>1 DEF Edited
    <3>4. services[i].by = "seed" /\ ~services[i].renamed => i \in Seeded(d, d.services[item])
      BY <3>1 DEF Seeded
    <3>5. services[i].by \in {"seed", "professional"}
      BY <3>2 DEF Service
    <3>6. Has(d, d.services[item])
      BY <3>3, <3>4, <3>5 DEF Has
    <3>7. Has(d, d.services[item])'
      BY <1>1, <3>6, HasStays DEF Grows
    <3>8. NextItem("find", Len(Current.services), "rule")
      BY <1>11, <2>3 DEF FindService
    <3> QED BY <1>2, <1>5, <2>1, <2>2, <3>7, <3>8, NextItemMovesOn
  <2>4. CASE ~IsThere(Current.services[seed.item])
    <3>1. SeedAt("create", demo, item) /\ UNCHANGED services
      BY <1>5, <1>11, <2>4 DEF FindService, directoryVars
    <3>2. \A i \in DOMAIN services :
             ~(services[i].professional = d.username /\ services[i].name = d.services[item])
      BY <1>5, <2>4 DEF IsThere, Current
    <3>3. ProgressAt("create", demo, item)'
      BY <2>2, <3>1, <3>2 DEF ProgressAt
    <3> QED BY <1>2, <3>1, <3>3, MovesOn
  <2> QED BY <2>3, <2>4
<1>12. CASE SeedService
  <2>1. /\ seed.pc = "create" /\ demo \in 1 .. Len(Demo)
        /\ item \in 1 .. Len(Demo[demo].services)
        /\ NextItem("find", Len(Current.services), "rule")
    BY <1>2, <1>5, <1>12 DEF SeedService, OnItsWay, Current
  <2>2. ProgressAt("find", demo, item)'
    <3>1. ProgressAt("find", demo, item)
      BY <1>2, <1>5, <2>1 DEF Progress, ProgressAt
    <3> QED BY <1>1, <1>3, <2>1, <3>1, ProgressStays
  <2>3. Has(d, d.services[item])'
    <3>1. AddedBySeed(d.username, d.services[item])
      BY <1>1, <1>5, <1>12 DEF Current
    <3>2. Len(services) + 1 \in Seeded(d, d.services[item])'
      BY <3>1 DEF AddedBySeed, Seeded
    <3> QED BY <3>2 DEF Has
  <2> QED BY <1>2, <1>5, <2>1, <2>2, <2>3, NextItemMovesOn
<1>13. CASE SeedRule
  <2>1. seed.pc = "rule" /\ demo \in 1 .. Len(Demo) /\ item \in 1 .. Len(Days)
    BY <1>2, <1>5, <1>13 DEF SeedRule, OnItsWay
  <2>2. ProgressAt("rule", demo, item)'
    BY <1>6, <2>1
  <2>3. Days[item] \in rules'[d.username] /\ d.username \in Usernames
    <3>1. d.username \in Usernames
      BY <2>1, DemoData
    <3> QED BY <1>2, <1>5, <1>13, <3>1 DEF SeedRule, Current, SeedInv
  <2>4. \A i \in 1 .. item : Days[i] \in rules'[d.username]
    <3>1. \A i \in 1 .. item - 1 : Days[i] \in rules'[d.username]
      BY <2>2 DEF ProgressAt
    <3> QED BY <2>1, <2>3, <3>1, <1>4
  <2>5. CASE item < Len(Days)
    <3>1. SeedAt("rule", demo, item + 1) /\ (item + 1) - 1 = item
      BY <1>5, <1>13, <2>1, <2>5, <1>4 DEF SeedRule
    <3>2. ProgressAt("rule", demo, item + 1)'
      BY <2>2, <2>4, <3>1 DEF ProgressAt
    <3> QED BY <1>2, <3>1, <3>2, MovesOn
  <2>6. CASE ~(item < Len(Days))
    <3>1. item = Len(Days)
      BY <2>1, <2>6, <1>4
    <3>2. rules'[d.username] = ToSet(Days)
      BY <1>3, <1>4, <2>3, <2>4, <3>1
    <3>3. Complete(d)'
      BY <2>2, <3>2 DEF ProgressAt, Complete
    <3>4. \A j \in 1 .. demo : Complete(Demo[j])'
      <4>1. \A j \in 1 .. demo - 1 : Complete(Demo[j])'
        BY <2>2 DEF ProgressAt
      <4>2. ASSUME NEW j \in 1 .. demo
            PROVE  Complete(Demo[j])'
        <5>1. j \in 1 .. demo - 1 \/ j = demo
          BY <2>1, <1>4
        <5> QED BY <3>3, <4>1, <5>1
      <4> QED BY <4>2
    <3>5. CASE demo < Len(Demo)
      <4>1. SeedAt("user", demo + 1, 1) /\ (demo + 1) - 1 = demo
        BY <1>5, <1>13, <2>6, <3>5 DEF SeedRule
      <4>2. ProgressAt("user", demo + 1, 1)'
        BY <3>4, <4>1 DEF ProgressAt
      <4> QED BY <1>2, <4>1, <4>2, MovesOn
    <3>6. CASE ~(demo < Len(Demo))
      <4>1. SeedAt("services", demo + 1, 1) /\ demo = Len(Demo)
        BY <1>4, <1>5, <1>13, <2>1, <2>6, <3>6 DEF SeedRule
      <4>2. ProgressAt("services", demo + 1, 1)'
        BY <3>4, <4>1 DEF ProgressAt
      <4> QED BY <1>2, <4>1, <4>2, MovesOn
    <3> QED BY <3>5, <3>6
  <2> QED BY <2>5, <2>6
<1>14. CASE FindServices
  <2>1. seed.pc = "services"
    BY <1>14 DEF FindServices
  <2>2. ProgressAt("services", demo, item)' /\ ProgressAt("services", demo, item)
    BY <1>2, <1>5, <1>6, <2>1 DEF Progress
  <2>3. CASE SeedAt("booking", demo, 1)
    <3>1. ProgressAt("booking", demo, 1)'
      BY <2>2 DEF ProgressAt
    <3> QED BY <1>2, <2>3, <3>1, MovesOn
  <2>4. CASE /\ SeedAt("done", 1, 1)
             /\ ~ \A s \in SampleSet : IsFound(s.word)
    <3>0. PICK s \in ToSet(Samples) : ~IsFound(s.word)
      BY <2>4 DEF SampleSet
    <3>1. PICK name \in ToSet(Demo[1].services) :
              \A i \in DOMAIN services :
                 services[i].professional = Demo[1].username => services[i].name # name
      BY <3>0, SeedAssumption DEF IsFound
    <3>2. Has(Demo[1], name)
      <4>1. 1 \in 1 .. Len(Demo)
        BY <1>4
      <4>2. Complete(Demo[1])
        BY <2>2, <4>1 DEF ProgressAt
      <4> QED BY <4>2 DEF Complete
    <3>3. Edited(Demo[1])
      BY <3>1, <3>2 DEF Has, Seeded
    <3>4. Edited(Demo[1])'
      BY <1>1, <3>3, EditedStays DEF Grows
    <3>5. ProgressAt("done", 1, 1)'
      BY <2>2, <3>4 DEF ProgressAt
    <3> QED BY <1>2, <2>4, <3>5, MovesOn
  <2> QED BY <1>5, <1>14, <2>3, <2>4 DEF FindServices
<1>15. CASE SeedBooking
  <2>1. seed.pc = "booking" /\ SeedAt("payment", demo, item)
    BY <1>5, <1>15 DEF SeedBooking
  <2>2. ProgressAt("booking", demo, item)'
    BY <1>6, <2>1
  <2>3. ProgressAt("payment", demo, item)'
    BY <2>2 DEF ProgressAt
  <2> QED BY <1>2, <2>1, <2>3, MovesOn
<1>16. CASE SeedPayment
  <2>1. seed.pc = "payment" /\ item \in 1 .. Len(Samples)
    BY <1>2, <1>5, <1>16 DEF SeedPayment, OnItsWay
  <2>2. ProgressAt("payment", demo, item)'
    BY <1>6, <2>1
  <2>3. \A i \in 1 .. item : Samples[i] \in payments'
    <3>1. \A i \in 1 .. item - 1 : Samples[i] \in payments'
      BY <2>2 DEF ProgressAt
    <3>2. Samples[item] \in payments'
      BY <1>5, <1>16 DEF SeedPayment
    <3> QED BY <2>1, <3>1, <3>2, <1>4
  <2>4. CASE item < Len(Samples)
    <3>1. SeedAt("booking", demo, item + 1) /\ (item + 1) - 1 = item
      BY <1>5, <1>16, <2>4 DEF SeedPayment
    <3>2. ProgressAt("booking", demo, item + 1)'
      BY <2>2, <2>3, <3>1 DEF ProgressAt
    <3> QED BY <1>2, <3>1, <3>2, MovesOn
  <2>5. CASE ~(item < Len(Samples))
    <3>1. SeedAt("done", 1, 1) /\ item = Len(Samples)
      BY <1>4, <1>5, <1>16, <2>1, <2>5 DEF SeedPayment
    <3>2. payments' = SampleSet
      BY <1>3, <1>4, <2>3, <3>1
    <3>3. ProgressAt("done", 1, 1)'
      BY <2>2, <3>2 DEF ProgressAt
    <3> QED BY <1>2, <3>1, <3>3, MovesOn
  <2> QED BY <2>4, <2>5
<1>17. CASE SeedExits
  BY <1>2, <1>7, <1>17, MovesOn DEF SeedExits
<1> QED
  BY <1>8, <1>9, <1>10, <1>11, <1>12, <1>13, <1>14, <1>15, <1>16, <1>17 DEF SeedNext

LEMMA NextKeepsRerun ==
    ASSUME RerunInv, [Next]_allVars
    PROVE  RerunInv'
<1>1. TablesInv' /\ SeedInv'
  BY StepKeeps DEF RerunInv
<1>2. CASE SeedNext
  <2>1. /\ Grows
        /\ ~SeedService => AddedByRequests
        /\ SeedService => AddedBySeed(Current.username, Current.services[seed.item])
    BY <1>2, SeedGrows DEF RerunInv
  <2>2. SeedsOnce'
    BY <2>1, SeedsOnceStays DEF SeedService
  <2> QED BY <1>1, <1>2, <2>2, SeedProgress DEF RerunInv
<1>3. CASE (DirectoryNext \/ UNCHANGED directoryVars) /\ UNCHANGED seedVars
  <2>1. Grows /\ AddedByRequests
    <3>1. CASE DirectoryNext
      BY <1>3, <3>1, RequestsGrow DEF RerunInv
    <3>2. CASE UNCHANGED directoryVars
      BY <1>3, <3>2, SameRowsAge DEF Grows, AddedByRequests, directoryVars, seedVars
    <3> QED BY <1>3, <3>1, <3>2
  <2>2. SeedsOnce'
    BY <2>1, SeedsOnceStays
  <2>3. PICK pc, demo, item : pc = seed.pc /\ demo = seed.demo /\ item = seed.item
    OBVIOUS
  <2>4. /\ rules' \in [Usernames -> SUBSET ToSet(Days)]
        /\ payments' \subseteq SampleSet
        /\ demo \in 1 .. Len(Demo) + 1
        /\ pc \in {"user", "profile", "find", "create", "rule"} => demo \in 1 .. Len(Demo)
        /\ ProgressAt(pc, demo, item)
    BY <1>1, <2>3 DEF RerunInv, SeedInv, OnItsWay, Progress
  <2>5. ProgressAt(pc, demo, item)'
    BY <2>1, <2>4, ProgressStays
  <2>6. seed' = seed
    BY <1>3 DEF seedVars
  <2>7. Progress'
    BY <2>3, <2>5, <2>6 DEF Progress, ProgressAt
  <2> QED BY <1>1, <2>2, <2>7 DEF RerunInv
<1> QED BY <1>2, <1>3 DEF Next, allVars

(* prisma/seed.ts:68: the check before the create keeps re-runs idempotent, *)
(* for any demo data, wherever and however often a run has stopped, and     *)
(* whatever requests insert, rename and remove between its awaits.          *)
THEOREM RerunsAreIdempotent == Spec => []SeedIsIdempotent
<1>1. Init => RerunInv
  <2> SUFFICES ASSUME Init
               PROVE  SeedsOnce /\ Progress
    BY InitKeeps DEF RerunInv
  <2>1. DOMAIN services = {}
    BY DEF Init, DirectoryInit
  <2>2. seed.pc = "idle"
    BY DEF Init, SeedInit
  <2> QED BY <2>1, <2>2 DEF SeedsOnce, Progress, ProgressAt
<1>2. RerunInv /\ [Next]_allVars => RerunInv'
  BY NextKeepsRerun
<1>3. RerunInv => SeedIsIdempotent
  <2> SUFFICES ASSUME RerunInv, NEW d \in ToSet(Demo)
               PROVE  /\ \A name \in ToSet(d.services) : Cardinality(Seeded(d, name)) <= 1
                      /\ seed.pc = "done" =>
                            /\ d.user \in users /\ owner[d.username] # None
                            /\ \A name \in ToSet(d.services) :
                                  Seeded(d, name) # {} \/ Edited(d)
                            /\ rules[d.username] = ToSet(Days)
                            /\ payments = SampleSet \/ Edited(Demo[1])
    BY DEF SeedIsIdempotent
  <2>1. ASSUME NEW name
        PROVE  Cardinality(Seeded(d, name)) <= 1
    <3>1. CASE Seeded(d, name) = {}
      BY <3>1, FS_EmptySet
    <3>2. ASSUME NEW i \in Seeded(d, name)
          PROVE  Cardinality(Seeded(d, name)) <= 1
      <4>1. ASSUME NEW j \in Seeded(d, name)
            PROVE  j = i
        BY <3>2, <4>1 DEF RerunInv, SeedsOnce, Original, Seeded
      <4>2. Seeded(d, name) = {i}
        BY <3>2, <4>1
      <4>3. Cardinality({i}) = 1
        BY FS_Singleton
      <4> QED BY <4>2, <4>3
    <3> QED BY <3>1, <3>2
  <2>2. PICK j \in 1 .. Len(Demo) : d = Demo[j]
    <3>1. DOMAIN Demo = 1 .. Len(Demo)
      BY SeedAssumption
    <3> QED BY <3>1 DEF ToSet
  <2>3. ASSUME seed.pc = "done"
        PROVE  /\ Complete(d)
               /\ payments = SampleSet \/ Edited(Demo[1])
    BY <2>2, <2>3 DEF RerunInv, Progress, ProgressAt
  <2> QED BY <2>1, <2>3 DEF Complete, Has
<1> QED BY <1>1, <1>2, <1>3, PTL DEF Spec
=============================================================================
