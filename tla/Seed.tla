--------------------------------- MODULE Seed ---------------------------------
(***************************************************************************)
(* prisma/seed.ts, run against the tables of Directory while the server is  *)
(* up.  It is a plain sequence of awaits without a transaction: it may stop  *)
(* at any of them, and is started again by hand.  Runs do not overlap.      *)
(*                                                                          *)
(* Nothing is deleted, and what exists is left alone: users, profiles,       *)
(* rules, bookings and payments are upserted by a unique key with an empty  *)
(* update, services are looked up by name.                                  *)
(***************************************************************************)
EXTENDS Directory, FiniteSets, SequencesExt

CONSTANTS
    Demo,       \* the demo professionals, in order
    Days,       \* the days of the week, in order
    Samples,    \* the sample bookings of the first of them, in order
    Mentions,   \* <<name, word>>: the name of a service includes the word
    MaxRuns     \* bound: how often the seed is run

ASSUME SeedAssumption ==
    /\ Demo \in Seq([user : Users, username : Usernames,
                     services : Seq(Names) \ {<<>>}])
    /\ Demo # <<>> /\ Days # <<>> /\ Samples # <<>>
    /\ Days \in Seq(ToSet(Days)) /\ Samples \in Seq(ToSet(Samples))
    /\ \A s \in ToSet(Samples) :
          \E name \in ToSet(Demo[1].services) : <<name, s.word>> \in Mentions
    /\ MaxRuns \in Nat

VARIABLES
    rules,       \* rules[u]: the days for which u has an availability_rules row
    bookings,    \* the sample bookings that exist, by reference
    payments,    \* those that have a paystack_transactions row
    seed         \* the seed run: where it is, and whose profile it has

seedVars == <<rules, bookings, payments, seed>>
allVars == <<directoryVars, seedVars>>

SampleSet == ToSet(Samples)

\* demo and item: indexes into Demo, and into its services, the days or the
\* samples.
SeedTypeOK ==
    /\ DirectoryTypeOK
    /\ rules \in [Usernames -> SUBSET ToSet(Days)]
    /\ bookings \subseteq SampleSet
    /\ payments \subseteq bookings
    /\ seed.pc \in {"idle", "user", "profile", "find", "create", "rule",
                    "services", "booking", "payment", "done", "exited"}
    /\ seed.demo \in 1 .. Len(Demo) + 1
    /\ seed.item \in Nat \ {0}
    /\ seed.runs \in 0 .. MaxRuns

SeedInit ==
    /\ rules = [u \in Usernames |-> {}]
    /\ bookings = {}
    /\ payments = {}
    /\ seed = [pc |-> "idle", demo |-> 1, item |-> 1, runs |-> 0]

-----------------------------------------------------------------------------
Current == Demo[seed.demo]

SeedAt(pc, demo, item) ==
    seed' = [seed EXCEPT !.pc = pc, !.demo = demo, !.item = item]

\* The next of the items 1 .. count at pc, or where to go after the last.
NextItem(pc, count, after) ==
    IF seed.item < count THEN SeedAt(pc, seed.demo, seed.item + 1)
                         ELSE SeedAt(after, seed.demo, 1)

RunSeed ==
    /\ seed.pc \in {"idle", "done", "exited"}
    /\ seed.runs < MaxRuns
    /\ seed' = [pc |-> "user", demo |-> 1, item |-> 1, runs |-> seed.runs + 1]
    /\ UNCHANGED <<directoryVars, rules, bookings, payments>>

SeedUser ==
    /\ seed.pc = "user"
    /\ users' = users \cup {Current.user}
    /\ SeedAt("profile", seed.demo, 1)
    /\ UNCHANGED <<owner, services, inquiries, request, rules, bookings, payments>>

\* The profile of this username is found, whoever's it is, or made for the
\* demo user -- who must not have one under another name (P2002: exit).
SeedProfile ==
    /\ seed.pc = "profile"
    /\ IF owner[Current.username] # None
       THEN UNCHANGED owner /\ SeedAt("find", seed.demo, 1)
       ELSE IF HasProfile(Current.user)
            THEN UNCHANGED owner /\ SeedAt("exited", 1, 1)
            ELSE /\ owner' = [owner EXCEPT ![Current.username] = Current.user]
                 /\ SeedAt("find", seed.demo, 1)
    /\ UNCHANGED <<users, services, inquiries, request, rules, bookings, payments>>

\* Mutant: only services that are offered count.
IsOffered(name) ==
    \E i \in DOMAIN services :
        /\ services[i].professional = Current.username /\ services[i].name = name
        /\ services[i].active

\* A row of the profile with this name, offered or not.
IsThere(name) ==
    \E i \in DOMAIN services :
        services[i].professional = Current.username /\ services[i].name = name

FindService ==
    /\ seed.pc = "find"
    /\ IF IsThere(Current.services[seed.item])
       THEN NextItem("find", Len(Current.services), "rule")
       ELSE SeedAt("create", seed.demo, seed.item)
    /\ UNCHANGED <<directoryVars, rules, bookings, payments>>

SeedService ==
    /\ seed.pc = "create"
    /\ NewService(Current.username, Current.services[seed.item], TRUE, "seed")
    /\ NextItem("find", Len(Current.services), "rule")
    /\ UNCHANGED <<users, owner, inquiries, request, rules, bookings, payments>>

\* One day's rule; after the last day, the next professional, and after the
\* last of those the sample bookings.
SeedRule ==
    /\ seed.pc = "rule"
    /\ rules' = [rules EXCEPT ![Current.username] = @ \cup {Days[seed.item]}]
    /\ IF seed.item < Len(Days)
       THEN SeedAt("rule", seed.demo, seed.item + 1)
       ELSE SeedAt(IF seed.demo < Len(Demo) THEN "user" ELSE "services",
                   seed.demo + 1, 1)
    /\ UNCHANGED <<directoryVars, bookings, payments>>

\* A service of the first professional, whoever put it in, has a name that
\* includes the word.
IsFound(word) ==
    \E i \in DOMAIN services :
        /\ services[i].professional = Demo[1].username
        /\ <<services[i].name, word>> \in Mentions

\* Each sample booking needs a service; the professional may have renamed one.
FindServices ==
    /\ seed.pc = "services"
    /\ IF \A s \in SampleSet : IsFound(s.word)
       THEN SeedAt("booking", seed.demo, 1)
       ELSE SeedAt("done", 1, 1)
    /\ UNCHANGED <<directoryVars, rules, bookings, payments>>

SeedBooking ==
    /\ seed.pc = "booking"
    /\ bookings' = bookings \cup {Samples[seed.item]}
    /\ SeedAt("payment", seed.demo, seed.item)
    /\ UNCHANGED <<directoryVars, rules, payments>>

SeedPayment ==
    /\ seed.pc = "payment"
    /\ payments' = payments \cup {Samples[seed.item]}
    /\ IF seed.item < Len(Samples) THEN SeedAt("booking", seed.demo, seed.item + 1)
                                   ELSE SeedAt("done", 1, 1)
    /\ UNCHANGED <<directoryVars, rules, bookings>>

\* The process dies, the database does not answer, or it refuses a sample
\* booking because a customer holds its slot (P2002): exit(1).
SeedExits ==
    /\ seed.pc \notin {"idle", "done", "exited"}
    /\ SeedAt("exited", 1, 1)
    /\ UNCHANGED <<directoryVars, rules, bookings, payments>>

SeedNext ==
    \/ RunSeed \/ SeedUser \/ SeedProfile \/ FindService \/ SeedService
    \/ SeedRule \/ FindServices \/ SeedBooking \/ SeedPayment \/ SeedExits

Init == DirectoryInit /\ SeedInit

Next == SeedNext \/ (DirectoryNext /\ UNCHANGED seedVars)

Spec == Init /\ [][Next]_allVars

-----------------------------------------------------------------------------
\* The rows the seed has inserted for a service, and nobody has renamed.
Seeded(demo, name) ==
    {i \in DOMAIN services :
        /\ services[i].professional = demo.username /\ services[i].name = name
        /\ services[i].by = "seed" /\ ~services[i].renamed}

\* The professional has put in or renamed services of the profile.
Edited(demo) ==
    \E i \in DOMAIN services :
        /\ services[i].professional = demo.username
        /\ services[i].by = "professional" \/ services[i].renamed

(* prisma/seed.ts:68: the check before the create keeps re-runs idempotent. *)
(* However many runs have stopped half-way, no service is seeded twice; and *)
(* the one that comes to its end has left nothing out: every demo           *)
(* professional has a profile, the services (unless they were renamed) and  *)
(* the rules, and the sample bookings are there and paid -- unless a        *)
(* service they are looked up by was renamed in time.                       *)
SeedIsIdempotent ==
    \A d \in ToSet(Demo) :
        /\ \A name \in ToSet(d.services) : Cardinality(Seeded(d, name)) <= 1
        /\ seed.pc = "done" =>
              /\ d.user \in users /\ owner[d.username] # None
              /\ \A name \in ToSet(d.services) : Seeded(d, name) # {} \/ Edited(d)
              /\ rules[d.username] = ToSet(Days)
              /\ payments = SampleSet \/ Edited(Demo[1])
=============================================================================
