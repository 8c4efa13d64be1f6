------------------------ MODULE MaintenanceSafetyProofs ------------------------
(***************************************************************************)
(* The safety invariants of Maintenance, for every value of the constants. *)
(* They rest on one fact, Consistent, about every version the controller   *)
(* holds in its store, in flight, or in the hands of a goroutine: how it   *)
(* relates to the stored object of its name.                               *)
(***************************************************************************)
EXTENDS MaintenanceTypeProofs, FiniteSetTheorems

-----------------------------------------------------------------------------
\* The inductive invariant.

\* The version h against the stored object o of the same name.
Good(h, o, time) ==
    /\ PhasesInOrder(h, time)
    /\ h.rv <= o.rv
    /\ h.rv = o.rv => h = Nothing \/ Extends(h, o)
    /\ h.uid <= o.uid
    /\ h.uid = o.uid /\ h.admitted =>
          o.admitted /\ h.since = o.since /\ h.until = o.until

\* Every stored object, and what the informer has of it.
Consistent ==
    \A m \in Names :
        /\ PhasesInOrder(api[m], now)
        /\ Live(m) => api[m].rv > 0
        /\ Good(seen[m], api[m], now)
        /\ \A h \in watch[m] : Good(h, api[m], now)

HeldConsistent == \A t \in Threads : Good(Held(t), api[key[t]], now)

\* What a goroutine knows of the version it is about to send.
AboutToAdmit ==
    pc["worker"] = "admit" =>
        copy["worker"].admitted /\ copy["worker"].since < copy["worker"].until

VInv == TInv /\ Consistent /\ HeldConsistent /\ AboutToAdmit

-----------------------------------------------------------------------------
\* Facts about Good.

LEMMA GoodNothing ==
    ASSUME NEW o \in Object, NEW time \in Nat
    PROVE  Good(Nothing, o, time)
<1>1. o.rv \in Nat /\ o.uid \in Nat
    BY FieldTypes
<1> QED
    BY <1>1, NothingFacts DEF Good, PhasesInOrder, Scheduled

LEMMA GoodSelf ==
    ASSUME NEW o \in Object, NEW time \in Nat, PhasesInOrder(o, time)
    PROVE  Good(o, o, time)
<1>1. o.rv \in Nat /\ o.uid \in Nat /\ o.finished \in BOOLEAN
    BY FieldTypes
<1> QED
    BY <1>1 DEF Good, Extends, Scheduled

LEMMA InOrderLater ==
    ASSUME NEW h \in Object, NEW time \in Nat, NEW later \in Nat, time <= later,
           PhasesInOrder(h, time)
    PROVE  PhasesInOrder(h, later)
<1>1. h.since \in Nat /\ h.until \in Nat
    BY FieldTypes
<1> QED
    BY <1>1 DEF PhasesInOrder, Started, Expired

\* What a write to the API server may make of the stored object o.
Continues(o, p) ==
    \/ p.uid > o.uid
    \/ /\ p.uid = o.uid
       /\ o.admitted => p.admitted /\ p.since = o.since /\ p.until = o.until

\* Versions that were good stay good when an object is stored, and with time.
LEMMA GoodAfterWrite ==
    ASSUME NEW h \in Object, NEW o \in Object, NEW p \in Object,
           NEW time \in Nat, NEW later \in Nat, time <= later,
           Good(h, o, time), p.rv > o.rv, Continues(o, p)
    PROVE  Good(h, p, later)
<1>1. /\ h.rv \in Nat /\ o.rv \in Nat /\ p.rv \in Nat
      /\ h.uid \in Nat /\ o.uid \in Nat /\ p.uid \in Nat
    BY FieldTypes
<1>2. PhasesInOrder(h, later)
    BY InOrderLater DEF Good
<1>3. /\ h.rv <= o.rv /\ h.uid <= o.uid
      /\ h.uid = o.uid /\ h.admitted =>
            o.admitted /\ h.since = o.since /\ h.until = o.until
    BY DEF Good
<1>4. h.rv < p.rv /\ h.uid <= p.uid
    BY <1>1, <1>3 DEF Continues
<1>5. h.uid = p.uid /\ h.admitted =>
            p.admitted /\ h.since = p.since /\ h.until = p.until
    BY <1>1, <1>3 DEF Continues
<1> QED
    BY <1>1, <1>2, <1>4, <1>5 DEF Good

LEMMA GoodLater ==
    ASSUME NEW h \in Object, NEW o, NEW time \in Nat, NEW later \in Nat,
           time <= later, Good(h, o, time)
    PROVE  Good(h, o, later)
BY InOrderLater DEF Good

LEMMA HeldType == TypeOK => \A t \in Threads : Held(t) \in Object
<1> SUFFICES ASSUME TypeOK, NEW t \in Threads PROVE Held(t) \in Object
    OBVIOUS
<1>1. copy[t] \in Object
    BY DEF TypeOK
<1> QED
    BY <1>1, UnadmittedFacts DEF Held

-----------------------------------------------------------------------------
\* A step of the whole system, one part of the state at a time.

\* What is stored: an object is replaced by one that continues it, or not at all.
ApiGrows ==
    \A n \in Names :
        \/ api'[n] = api[n]
        \/ /\ api'[n].rv > api[n].rv
           /\ Continues(api[n], api'[n])
           /\ PhasesInOrder(api'[n], now)

LEMMA WriteGrows ==
    ASSUME TInv, NEW m \in Names, NEW o \in Object,
           api' = [api EXCEPT ![m] = Stored(m, o)],
           Continues(api[m], o), PhasesInOrder(o, now)
    PROVE  ApiGrows
<1>1. api[m] \in Object /\ api[m].rv \in Nat
    BY FieldTypes DEF TInv, TypeOK
<1>2. /\ Stored(m, o).rv > api[m].rv
      /\ Continues(api[m], Stored(m, o))
      /\ PhasesInOrder(Stored(m, o), now)
    BY <1>1, StoredFacts DEF Continues, PhasesInOrder, Scheduled, Started, Expired
<1> QED
    BY <1>1, <1>2 DEF ApiGrows, TInv, TypeOK

\* A version held by a goroutine that UpdateStatus would accept only adds to
\* the stored object.
LEMMA AcceptedExtends ==
    ASSUME VInv, NEW m \in Names, NEW h \in Object, Good(h, api[m], now), Accepts(m, h)
    PROVE  Extends(h, api[m])
<1>1. api[m].rv \in Nat /\ api[m].rv > 0 /\ api[m].rv = h.rv
    BY FieldTypes DEF VInv, TInv, TypeOK, Consistent, Accepts
<1>2. h # Nothing
    BY <1>1, NothingFacts
<1> QED
    BY <1>1, <1>2 DEF Good

LEMMA StatusGrows ==
    ASSUME VInv, NEW m \in Names, NEW h \in Object, Good(h, api[m], now), Accepts(m, h)
    PROVE  /\ WithStatus(api[m], h) \in Object
           /\ Continues(api[m], WithStatus(api[m], h))
           /\ PhasesInOrder(WithStatus(api[m], h), now)
<1>1. api[m] \in Object /\ Extends(h, api[m]) /\ PhasesInOrder(h, now)
    BY AcceptedExtends DEF VInv, TInv, TypeOK, Good
<1> QED
    BY <1>1, WithStatusFacts
    DEF Extends, Continues, PhasesInOrder, Scheduled, Started, Expired

\* The admission: the version read was the unadmitted one.
LEMMA AdmissionGrows ==
    ASSUME VInv, pc["worker"] = "admit", NEW m, m = key["worker"],
           NEW h, h = copy["worker"], Accepts(m, h)
    PROVE  /\ m \in Names /\ h \in Object
           /\ Extends(Unadmitted(h), api[m])
           /\ h.admitted /\ h.since < h.until
           /\ h.snapshot = NoSpec /\ ~h.finished
           /\ ~api[m].admitted /\ api[m].snapshot = NoSpec /\ ~api[m].finished
           /\ Continues(api[m], WithStatus(api[m], h))
           /\ PhasesInOrder(WithStatus(api[m], h), now)
<1>1. m \in Names /\ h \in Object /\ api[m] \in Object /\ "worker" \in Threads
    BY DEF VInv, TInv, TypeOK, Threads
<1>2. Good(Unadmitted(h), api[m], now)
    BY <1>1 DEF VInv, HeldConsistent, Held
<1>3. Accepts(m, Unadmitted(h)) /\ Unadmitted(h) \in Object
    BY <1>1, UnadmittedFacts DEF Accepts
<1>4. Extends(Unadmitted(h), api[m])
    BY <1>1, <1>2, <1>3, AcceptedExtends
<1>5. h.admitted /\ h.since < h.until
    BY DEF VInv, AboutToAdmit
<1>6. h.snapshot = NoSpec /\ ~h.finished
    BY <1>1, <1>2, UnadmittedFacts
    DEF Good, PhasesInOrder, Scheduled, Started, Expired
<1>7. ~api[m].admitted /\ api[m].snapshot = NoSpec /\ ~api[m].finished
    BY <1>1, <1>4, UnadmittedFacts DEF Extends, VInv, Consistent,
       PhasesInOrder, Scheduled, Started, Expired
<1>8. /\ Continues(api[m], WithStatus(api[m], h))
      /\ PhasesInOrder(WithStatus(api[m], h), now)
    BY <1>1, <1>5, <1>6, <1>7, WithStatusFacts
    DEF Continues, PhasesInOrder, Scheduled
<1> QED
    BY <1>1, <1>4, <1>5, <1>6, <1>7, <1>8

\* What users and the garbage collector store.
LEMMA UsersGrow ==
    ASSUME VInv, NEW m \in Names,
           \/ \E s \in Specs : Create(m, s) \/ EditSpec(m, s)
           \/ Delete(m) \/ CollectGarbage(m)
    PROVE  ApiGrows
<1>1. /\ api[m] \in Object /\ now \in Nat /\ PhasesInOrder(api[m], now)
      /\ api[m].uid \in Nat
    BY FieldTypes DEF VInv, TInv, TypeOK, Consistent
<1>2. ASSUME NEW s \in Specs
      PROVE  /\ Fresh(api[m], s) \in Object /\ Edited(api[m], s) \in Object
             /\ Continues(api[m], Fresh(api[m], s))
             /\ Continues(api[m], Edited(api[m], s))
             /\ PhasesInOrder(Fresh(api[m], s), now)
             /\ PhasesInOrder(Edited(api[m], s), now)
    <2>1. /\ Fresh(api[m], s) \in Object
          /\ Continues(api[m], Fresh(api[m], s))
          /\ PhasesInOrder(Fresh(api[m], s), now)
        <3> DEFINE f == Fresh(api[m], s)
        <3>1. /\ f \in Object /\ f.uid = api[m].uid + 1 /\ f.admitted = FALSE
              /\ f.since = 0 /\ f.until = 0 /\ f.snapshot = NoSpec /\ f.finished = FALSE
            BY <1>1, FreshFacts
        <3> HIDE DEF f
        <3>2. Continues(api[m], f)
            BY <1>1, <3>1 DEF Continues
        <3>3. PhasesInOrder(f, now)
            BY <3>1 DEF PhasesInOrder, Scheduled
        <3> QED
            BY <3>1, <3>2, <3>3 DEF f
    <2>2. /\ Edited(api[m], s) \in Object
          /\ Continues(api[m], Edited(api[m], s))
          /\ PhasesInOrder(Edited(api[m], s), now)
        BY <1>1, EditedFacts DEF Continues, PhasesInOrder, Scheduled, Started, Expired
    <2> QED
        BY <2>1, <2>2
<1>3. /\ Removed(api[m]) \in Object /\ Marked(api[m]) \in Object
      /\ Continues(api[m], Removed(api[m])) /\ PhasesInOrder(Removed(api[m]), now)
      /\ Continues(api[m], Marked(api[m])) /\ PhasesInOrder(Marked(api[m]), now)
    <2>1. /\ Removed(api[m]) \in Object
          /\ Continues(api[m], Removed(api[m])) /\ PhasesInOrder(Removed(api[m]), now)
        BY <1>1, RemovedFacts DEF Continues, PhasesInOrder, Scheduled, Started, Expired
    <2>2. /\ Marked(api[m]) \in Object
          /\ Continues(api[m], Marked(api[m])) /\ PhasesInOrder(Marked(api[m]), now)
        BY <1>1, MarkedFacts DEF Continues, PhasesInOrder, Scheduled, Started, Expired
    <2> QED
        BY <2>1, <2>2
<1>4. PICK o \in Object :
        /\ api' = [api EXCEPT ![m] = Stored(m, o)]
        /\ Continues(api[m], o) /\ PhasesInOrder(o, now)
    BY <1>2, <1>3 DEF Create, EditSpec, Delete, CollectGarbage, Put
<1> QED
    BY <1>4, WriteGrows DEF VInv

\* What the controller's goroutines store.
LEMMA AppliedGrows ==
    ASSUME VInv, NEW m \in Names, NEW h \in Object, Applied(m, h),
           Continues(api[m], WithStatus(api[m], h)),
           PhasesInOrder(WithStatus(api[m], h), now)
    PROVE  ApiGrows
<1>1. api' = [api EXCEPT ![m] = Stored(m, WithStatus(api[m], h))]
    BY DEF Applied, Put
<1>2. api[m] \in Object /\ WithStatus(api[m], h) \in Object
    BY WithStatusFacts DEF VInv, TInv, TypeOK
<1> QED
    BY <1>1, <1>2, WriteGrows DEF VInv

LEMMA UnchangedGrows == UNCHANGED api => ApiGrows
BY DEF ApiGrows

LEMMA SendAdmittedGrows == VInv /\ SendAdmitted => ApiGrows
<1> SUFFICES ASSUME VInv, SendAdmitted PROVE ApiGrows
    OBVIOUS
<1> DEFINE m == key["worker"]
           h == copy["worker"]
<1>1. m \in Names /\ h \in Object /\ pc["worker"] = "admit"
    BY DEF VInv, TInv, TypeOK, Threads, SendAdmitted
<1>2. Applied(m, h) \/ UNCHANGED api
    BY DEF SendAdmitted, CallFails
<1>3. CASE Applied(m, h)
    <2>1. Accepts(m, h)
        BY <1>3 DEF Applied
    <2> QED
        BY <1>1, <1>3, <2>1, AdmissionGrows, AppliedGrows
<1> QED
    BY <1>2, <1>3, UnchangedGrows

LEMMA SendDeleteGrows == VInv /\ SendDelete => ApiGrows
<1> SUFFICES ASSUME VInv, SendDelete PROVE ApiGrows
    OBVIOUS
<1> DEFINE m == key["worker"]
<1>1. m \in Names /\ api[m] \in Object /\ PhasesInOrder(api[m], now)
    BY DEF VInv, TInv, TypeOK, Threads, Consistent
<1>2. /\ Removed(api[m]) \in Object
      /\ Continues(api[m], Removed(api[m])) /\ PhasesInOrder(Removed(api[m]), now)
    BY <1>1, RemovedFacts DEF Continues, PhasesInOrder, Scheduled, Started, Expired
<1>3. api' = [api EXCEPT ![m] = Stored(m, Removed(api[m]))] \/ UNCHANGED api
    BY DEF SendDelete, Put
<1> QED
    BY <1>1, <1>2, <1>3, WriteGrows, UnchangedGrows DEF VInv

LEMMA MarkScheduledGrows == VInv /\ MarkScheduled => ApiGrows
<1> SUFFICES ASSUME VInv, MarkScheduled PROVE ApiGrows
    OBVIOUS
<1> DEFINE m == key["sched"]
           h == copy["sched"]
<1>1. m \in Names /\ h \in Object /\ pc["sched"] = "mark" /\ "sched" \in Threads
    BY DEF VInv, TInv, TypeOK, Threads, MarkScheduled
<1>2. Good(h, api[m], now)
    BY <1>1 DEF VInv, HeldConsistent, Held
<1>3. Applied(m, h) \/ UNCHANGED api
    BY DEF MarkScheduled, CallFails
<1>4. CASE Applied(m, h)
    <2>1. Accepts(m, h)
        BY <1>4 DEF Applied
    <2> QED
        BY <1>1, <1>2, <1>4, <2>1, StatusGrows, AppliedGrows
<1> QED
    BY <1>3, <1>4, UnchangedGrows

LEMMA SendFinishedGrows == ASSUME NEW t \in Threads PROVE VInv /\ SendFinished(t) => ApiGrows
<1> SUFFICES ASSUME VInv, SendFinished(t) PROVE ApiGrows
    OBVIOUS
<1> DEFINE m == key[t]
           h == copy[t]
<1>1. m \in Names /\ h \in Object /\ pc[t] = "finish"
    BY DEF VInv, TInv, TypeOK, SendFinished
<1>2. Good(h, api[m], now)
    BY <1>1 DEF VInv, HeldConsistent, Held
<1>3. \/ Accepts(m, h) /\ api' = [api EXCEPT ![m] = Stored(m, WithStatus(api[m], h))]
      \/ UNCHANGED api
    BY DEF SendFinished, Applied, Put
<1>4. CASE Accepts(m, h) /\ api' = [api EXCEPT ![m] = Stored(m, WithStatus(api[m], h))]
    BY <1>1, <1>2, <1>4, StatusGrows, WriteGrows DEF VInv
<1> QED
    BY <1>3, <1>4, UnchangedGrows

LEMMA NextGrows == VInv /\ [Next]_vars => ApiGrows
<1> SUFFICES ASSUME VInv, [Next]_vars PROVE ApiGrows
    OBVIOUS
<1>1. CASE Users
    BY <1>1, UsersGrow DEF Users
<1>2. CASE Tick \/ Informer \/ Timers \/ Crash
    BY <1>2, UnchangedGrows DEF Tick, Informer, Deliver, Announce, Timers, Wake, FireDelayed, Crash
<1>3. CASE \E m \in Names : Handle(m)
    BY <1>3, UnchangedGrows
    DEF Handle, HandleWithoutCache, OnMaintenanceAdded, OnMaintenanceUpdated,
        OnMaintenanceDeleting, OnMaintenanceDeleted, Acquire
<1>4. CASE FindPending \/ DropCached \/ OfferNext \/ Backoff \/ SendAdmitted \/ SendDelete
    BY <1>4, UnchangedGrows, SendAdmittedGrows, SendDeleteGrows
    DEF FindPending, DropCached, OfferNext, Backoff
<1>5. CASE (\E m \in Names : ScheduleMaintenance(m)) \/ MarkScheduled \/ CreateMaintenanceJobs
    BY <1>5, UnchangedGrows, MarkScheduledGrows DEF ScheduleMaintenance, CreateMaintenanceJobs
<1>6. ASSUME NEW t \in Threads, Enqueue(t) PROVE ApiGrows
    BY <1>6, UnchangedGrows, SendFinishedGrows
    DEF Enqueue, EnqueueStops, EnqueueFinishes, EnqueueOffers, OfferToTQ
<1>7. CASE UNCHANGED vars
    BY <1>7, UnchangedGrows DEF vars
<1> QED
    BY <1>1, <1>2, <1>3, <1>4, <1>5, <1>6, <1>7 DEF Next, Worker, Sched, Threads

\* What the informer has: versions on their way were stored, and the store of
\* the controller has what was delivered, or what a goroutine wrote into it.
WatchFrom == \A n \in Names : \A h \in watch'[n] : h \in watch[n] \/ h = api'[n]

SeenFrom ==
    \A n \in Names :
        \/ seen'[n] \in watch[n] \cup {seen[n], Nothing}
        \/ Good(seen'[n], api[n], now)

\* What a goroutine holds: what it held, nothing, what it has just stored, or
\* what it read from the store of the controller.
HeldFrom ==
    \A t \in Threads :
        \/ key'[t] = key[t] /\ Held(t)' = Held(t)
        \/ Held(t)' \in {Nothing, api'[key'[t]]}
        \/ Good(Held(t)', api[key'[t]], now)

TimePasses == now' \in Nat /\ now <= now'

LEMMA VersionStays ==
    ASSUME VInv, TypeOK', TimePasses, ApiGrows, NEW n \in Names, NEW h \in Object,
           Good(h, api[n], now)
    PROVE  Good(h, api'[n], now')
<1>1. now \in Nat /\ now' \in Nat /\ now <= now' /\ api[n] \in Object /\ api'[n] \in Object
    BY DEF VInv, TInv, TypeOK, TimePasses
<1>2. CASE api'[n] = api[n]
    BY <1>1, <1>2, GoodLater
<1>3. CASE api'[n].rv > api[n].rv /\ Continues(api[n], api'[n])
    BY <1>1, <1>3, GoodAfterWrite
<1> QED
    BY <1>2, <1>3 DEF ApiGrows

LEMMA StepConsistent ==
    ASSUME VInv, TypeOK', TimePasses, ApiGrows, WatchFrom, SeenFrom, HeldFrom
    PROVE  Consistent' /\ HeldConsistent'
<1>1. ASSUME NEW n \in Names
      PROVE  /\ PhasesInOrder(api'[n], now')
             /\ ~api'[n].gone => api'[n].rv > 0
             /\ Good(api'[n], api'[n], now')
             /\ Good(Nothing, api'[n], now')
    <2>1. /\ now \in Nat /\ now' \in Nat /\ now <= now'
          /\ api[n] \in Object /\ api'[n] \in Object
          /\ api[n].rv \in Nat /\ api'[n].rv \in Nat
        BY FieldTypes DEF VInv, TInv, TypeOK, TimePasses
    <2>2. PhasesInOrder(api'[n], now) /\ (~api'[n].gone => api'[n].rv > 0)
        BY <2>1 DEF ApiGrows, VInv, Consistent, Live
    <2> QED
        BY <2>1, <2>2, InOrderLater, GoodSelf, GoodNothing
<1>2. ASSUME NEW n \in Names PROVE Good(seen'[n], api'[n], now')
    <2>1. seen'[n] \in Object /\ (\A h \in watch[n] : Good(h, api[n], now))
          /\ Good(seen[n], api[n], now)
        BY DEF VInv, Consistent, TypeOK
    <2> QED
        BY <1>1, <2>1, VersionStays DEF SeenFrom
<1>3. ASSUME NEW n \in Names, NEW h \in watch'[n] PROVE Good(h, api'[n], now')
    <2>1. h \in Object /\ (\A g \in watch[n] : Good(g, api[n], now))
        BY DEF VInv, Consistent, TypeOK
    <2> QED
        BY <1>1, <2>1, VersionStays DEF WatchFrom
<1>4. ASSUME NEW t \in Threads PROVE Good(Held(t)', api'[key'[t]], now')
    <2>1. key'[t] \in Names /\ Held(t)' \in Object
        <3>1. key'[t] \in Names /\ copy'[t] \in Object
            BY DEF TypeOK
        <3> QED
            BY <3>1, UnadmittedFacts DEF Held
    <2>2. Good(Held(t), api[key[t]], now)
        BY DEF VInv, HeldConsistent
    <2> QED
        BY <1>1, <2>1, <2>2, VersionStays DEF HeldFrom
<1> QED
    BY <1>1, <1>2, <1>3, <1>4 DEF Consistent, HeldConsistent, Live

\* What the goroutines write into the store, or take from it.
LEMMA GoodSnapshot ==
    ASSUME NEW h \in Object, NEW o \in Object, NEW time \in Nat, Good(h, o, time),
           ~h.gone, Started(h, time), ~Scheduled(h)
    PROVE  Good(Snapshot(h), o, time)
<1>1. h # Nothing
    BY NothingFacts
<1> QED
    BY <1>1, SnapshotFacts DEF Good, PhasesInOrder, Extends, Scheduled, Started, Expired

LEMMA GoodFinish ==
    ASSUME NEW h \in Object, NEW o \in Object, NEW time \in Nat, Good(h, o, time),
           ~h.gone, Expired(h, time)
    PROVE  Good(Finish(h), o, time)
<1>1. h # Nothing
    BY NothingFacts
<1> QED
    BY <1>1, FinishFacts DEF Good, PhasesInOrder, Extends, Scheduled, Started, Expired

LEMMA GoodUnadmitted ==
    ASSUME NEW h \in Object, NEW o \in Object, NEW time \in Nat, Good(h, o, time),
           h.spec \in Specs, ~h.admitted
    PROVE  Good(Unadmitted(Admit(h)), o, time)
<1>1. h # Nothing
    BY SpecsAssumption DEF Nothing
<1> DEFINE u == Unadmitted(Admit(h))
<1>2. /\ u.rv = h.rv /\ u.uid = h.uid /\ u.gone = h.gone /\ u.deleting = h.deleting
      /\ u.created = h.created /\ u.spec = h.spec /\ u.admitted = FALSE
      /\ u.since = 0 /\ u.until = 0 /\ u.snapshot = h.snapshot /\ u.finished = h.finished
    <2> DEFINE g == Admit(h)
    <2>1. /\ g \in Object /\ g.rv = h.rv /\ g.uid = h.uid /\ g.gone = h.gone
          /\ g.deleting = h.deleting /\ g.created = h.created /\ g.spec = h.spec
          /\ g.snapshot = h.snapshot /\ g.finished = h.finished
        BY AdmitFacts
    <2> HIDE DEF g
    <2>2. /\ Unadmitted(g).rv = g.rv /\ Unadmitted(g).uid = g.uid
          /\ Unadmitted(g).gone = g.gone /\ Unadmitted(g).deleting = g.deleting
          /\ Unadmitted(g).created = g.created /\ Unadmitted(g).spec = g.spec
          /\ Unadmitted(g).admitted = FALSE /\ Unadmitted(g).since = 0
          /\ Unadmitted(g).until = 0 /\ Unadmitted(g).snapshot = g.snapshot
          /\ Unadmitted(g).finished = g.finished
        BY <2>1, UnadmittedFacts
    <2> QED
        BY <2>1, <2>2 DEF g
<1>3. h.since = 0 /\ h.until = 0 /\ h.admitted = FALSE
    BY FieldTypes DEF Good, PhasesInOrder
<1> HIDE DEF u
<1>4. Good(u, o, time)
    BY <1>1, <1>2, <1>3 DEF Good, PhasesInOrder, Extends, Scheduled, Started, Expired
<1> QED
    BY <1>4 DEF u

-----------------------------------------------------------------------------
\* Every step is one of these.

LEMMA NextTime == VInv /\ [Next]_vars => TimePasses
<1> SUFFICES ASSUME VInv, [Next]_vars PROVE TimePasses
    OBVIOUS
<1>1. now \in Nat
    BY DEF VInv, TInv, TypeOK
<1>2. CASE Tick
    BY <1>1, <1>2 DEF Tick, TimePasses
<1>3. CASE UNCHANGED now
    BY <1>1, <1>3 DEF TimePasses
<1>4. Users => UNCHANGED now
    BY DEF Users, Create, EditSpec, Delete, CollectGarbage, UserOp
<1>5. Informer \/ Timers \/ Crash => UNCHANGED now
    BY DEF Informer, Deliver, Announce, Timers, Wake, FireDelayed, Crash
<1>6. \A m \in Names : Handle(m) => UNCHANGED now
    BY DEF Handle, HandleWithoutCache, OnMaintenanceAdded, OnMaintenanceUpdated,
           OnMaintenanceDeleting, OnMaintenanceDeleted, Acquire
<1>7. FindPending \/ DropCached \/ OfferNext \/ Backoff \/ SendAdmitted \/ SendDelete
        => UNCHANGED now
    BY DEF FindPending, DropCached, OfferNext, Backoff, SendAdmitted, SendDelete
<1>8. \A m \in Names : ScheduleMaintenance(m) => UNCHANGED now
    BY DEF ScheduleMaintenance
<1>9. MarkScheduled \/ CreateMaintenanceJobs => UNCHANGED now
    BY DEF MarkScheduled, CreateMaintenanceJobs
<1>10. \A t \in Threads : Enqueue(t) => UNCHANGED now
    BY DEF Enqueue, EnqueueStops, EnqueueFinishes, EnqueueOffers, SendFinished, OfferToTQ
<1>11. UNCHANGED vars => UNCHANGED now
    BY DEF vars
<1> QED
    BY <1>2, <1>3, <1>4, <1>5, <1>6, <1>7, <1>8, <1>9, <1>10, <1>11
    DEF Next, Worker, Sched, Threads

LEMMA PutWatch == ASSUME TInv, NEW m \in Names, NEW o, Put(m, o) PROVE WatchFrom
BY DEF Put, WatchFrom, TInv, TypeOK

LEMMA UnchangedWatch == UNCHANGED watch => WatchFrom
BY DEF WatchFrom

LEMMA AppliedWatch ==
    ASSUME TInv, NEW m \in Names, NEW h, Applied(m, h) \/ CallFails(m, h)
    PROVE  WatchFrom
BY PutWatch, UnchangedWatch DEF Applied, CallFails

LEMMA RelistedWatch == watch' = Relisted(api') => WatchFrom
BY DEF Relisted, WatchFrom

LEMMA NextWatch == VInv /\ [Next]_vars => WatchFrom
<1> SUFFICES ASSUME VInv, [Next]_vars PROVE WatchFrom
    OBVIOUS
<1>0. TInv /\ \A t \in Threads : key[t] \in Names
    BY DEF VInv, TInv, TypeOK
<1>1. Users => WatchFrom
    BY <1>0, PutWatch DEF Users, Create, EditSpec, Delete, CollectGarbage
<1>2. Informer => WatchFrom
    <2>1. ASSUME NEW m \in Names, Deliver(m) PROVE WatchFrom
        BY <1>0, <2>1 DEF Deliver, WatchFrom, TInv, TypeOK
    <2>2. ASSUME NEW j \in notice, Announce(j) PROVE WatchFrom
        BY <2>2, UnchangedWatch DEF Announce
    <2> QED
        BY <2>1, <2>2 DEF Informer
<1>3. Tick \/ Timers => WatchFrom
    BY UnchangedWatch DEF Tick, Timers, Wake, FireDelayed
<1>4. Crash => WatchFrom
    BY RelistedWatch DEF Crash
<1>5. \A m \in Names : Handle(m) => WatchFrom
    BY UnchangedWatch
    DEF Handle, HandleWithoutCache, OnMaintenanceAdded, OnMaintenanceUpdated,
        OnMaintenanceDeleting, OnMaintenanceDeleted, Acquire
<1>6. FindPending \/ DropCached \/ OfferNext \/ Backoff => WatchFrom
    BY UnchangedWatch DEF FindPending, DropCached, OfferNext, Backoff
<1>7. SendAdmitted => WatchFrom
    BY <1>0, UnchangedWatch, AppliedWatch DEF SendAdmitted, Threads
<1>8. SendDelete => WatchFrom
    BY <1>0, UnchangedWatch, PutWatch DEF SendDelete, Threads
<1>9. MarkScheduled => WatchFrom
    BY <1>0, UnchangedWatch, AppliedWatch DEF MarkScheduled, Threads
<1>10. (\E m \in Names : ScheduleMaintenance(m)) \/ CreateMaintenanceJobs => WatchFrom
    BY UnchangedWatch DEF ScheduleMaintenance, CreateMaintenanceJobs
<1>11. ASSUME NEW t \in Threads, Enqueue(t) PROVE WatchFrom
    <2>1. CASE EnqueueStops(t) \/ EnqueueFinishes(t) \/ OfferToTQ(t)
        BY <2>1, UnchangedWatch DEF EnqueueStops, EnqueueFinishes, OfferToTQ
    <2>2. CASE EnqueueOffers(t)
        <3>1. UNCHANGED watch \/ watch' = Relisted(api')
            BY <2>2 DEF EnqueueOffers
        <3> QED
            BY <3>1, UnchangedWatch, RelistedWatch
    <2>3. CASE SendFinished(t)
        <3>1. Applied(key[t], copy[t]) \/ watch' = Relisted(api')
            BY <2>3 DEF SendFinished
        <3> QED
            BY <1>0, <3>1, AppliedWatch, RelistedWatch
    <2> QED
        BY <1>11, <2>1, <2>2, <2>3 DEF Enqueue
<1>12. UNCHANGED vars => WatchFrom
    BY UnchangedWatch DEF vars
<1> QED
    BY <1>1, <1>2, <1>3, <1>4, <1>5, <1>6, <1>7, <1>8, <1>9, <1>10, <1>11, <1>12
    DEF Next, Worker, Sched, Threads

LEMMA UnchangedSeen == UNCHANGED seen => SeenFrom
BY DEF SeenFrom

LEMMA RestartedSeen == Restarted => SeenFrom
BY DEF Restarted, SeenFrom

LEMMA NextSeen == VInv /\ [Next]_vars => SeenFrom
<1> SUFFICES ASSUME VInv, [Next]_vars PROVE SeenFrom
    OBVIOUS
<1>0. /\ TInv /\ now \in Nat
      /\ \A n \in Names : /\ seen[n] \in Object /\ api[n] \in Object
                          /\ Good(seen[n], api[n], now)
      /\ seen \in [Names -> Object]
      /\ \A t \in Threads : key[t] \in Names
    BY DEF VInv, TInv, TypeOK, Consistent
<1>1. Users => SeenFrom
    BY UnchangedSeen
    DEF Users, Create, EditSpec, Delete, CollectGarbage, UserOp, controller
<1>2. Informer => SeenFrom
    BY <1>0 DEF Informer, Deliver, Announce, SeenFrom
<1>3. Tick \/ Timers => SeenFrom
    BY UnchangedSeen DEF Tick, controller, Timers, Wake, FireDelayed
<1>4. Crash => SeenFrom
    BY RestartedSeen DEF Crash
<1>5. \A m \in Names : Handle(m) => SeenFrom
    BY UnchangedSeen
    DEF Handle, HandleWithoutCache, OnMaintenanceAdded, OnMaintenanceUpdated,
        OnMaintenanceDeleting, OnMaintenanceDeleted, Acquire
<1>6. FindPending \/ DropCached \/ OfferNext \/ Backoff \/ SendAdmitted \/ SendDelete
        => SeenFrom
    BY UnchangedSeen DEF FindPending, DropCached, OfferNext, Backoff, SendAdmitted, SendDelete
<1>7. MarkScheduled \/ CreateMaintenanceJobs => SeenFrom
    BY UnchangedSeen DEF MarkScheduled, CreateMaintenanceJobs
<1>8. ASSUME NEW m \in Names, ScheduleMaintenance(m) PROVE SeenFrom
    <2>1. \/ UNCHANGED seen
          \/ /\ seen' = [seen EXCEPT ![m] = Snapshot(seen[m])]
             /\ ~seen[m].gone /\ Started(seen[m], now) /\ ~Scheduled(seen[m])
        BY <1>8 DEF ScheduleMaintenance
    <2> QED
        BY <1>0, <2>1, GoodSnapshot, UnchangedSeen DEF SeenFrom
<1>9. ASSUME NEW t \in Threads, Enqueue(t) PROVE SeenFrom
    <2>1. CASE EnqueueStops(t) \/ OfferToTQ(t)
        BY <2>1, UnchangedSeen DEF EnqueueStops, OfferToTQ
    <2>2. CASE EnqueueOffers(t) \/ SendFinished(t)
        <3>1. UNCHANGED seen \/ Restarted
            BY <2>2 DEF EnqueueOffers, SendFinished
        <3> QED
            BY <3>1, UnchangedSeen, RestartedSeen
    <2>3. CASE EnqueueFinishes(t)
        <3> DEFINE m == key[t]
        <3>1. /\ seen' = [seen EXCEPT ![m] = Finish(seen[m])]
              /\ ~seen[m].gone /\ Expired(seen[m], now) /\ m \in Names
            BY <1>0, <2>3 DEF EnqueueFinishes
        <3> HIDE DEF m
        <3> QED
            BY <1>0, <3>1, GoodFinish DEF SeenFrom
    <2> QED
        BY <1>9, <2>1, <2>2, <2>3 DEF Enqueue
<1>10. UNCHANGED vars => SeenFrom
    BY UnchangedSeen DEF vars
<1> QED
    BY <1>1, <1>2, <1>3, <1>4, <1>5, <1>6, <1>7, <1>8, <1>9, <1>10
    DEF Next, Worker, Sched, Threads

LEMMA UnchangedHeld == UNCHANGED <<pc, key, copy>> => HeldFrom
BY DEF HeldFrom, Held

LEMMA RestartedHeld == Restarted => HeldFrom
BY DEF Restarted, HeldFrom, Held

LEMMA WorkerHeld ==
    ASSUME TInv, NEW m \in Names, NEW h, NEW p, NEW a, WorkerGoes(p, a, m, h),
           IF p = "admit" THEN Good(Unadmitted(h), api[m], now)
                          ELSE h = Nothing \/ Good(h, api[m], now)
    PROVE  HeldFrom
<1>1. /\ pc'["worker"] = p /\ key'["worker"] = m /\ copy'["worker"] = h
      /\ pc'["sched"] = pc["sched"] /\ key'["sched"] = key["sched"]
      /\ copy'["sched"] = copy["sched"]
    BY DEF WorkerGoes, TInv, TypeOK, Threads
<1> QED
    BY <1>1 DEF HeldFrom, Held, Threads

LEMMA SchedHeld ==
    ASSUME TInv, NEW m \in Names, NEW h, NEW p, SchedGoes(p, m, h), p # "admit",
           h \in {Nothing, api'[m]} \/ Good(h, api[m], now)
    PROVE  HeldFrom
<1>1. /\ pc'["sched"] = p /\ key'["sched"] = m /\ copy'["sched"] = h
      /\ pc'["worker"] = pc["worker"] /\ key'["worker"] = key["worker"]
      /\ copy'["worker"] = copy["worker"]
    BY DEF SchedGoes, TInv, TypeOK, Threads
<1> QED
    BY <1>1 DEF HeldFrom, Held, Threads

LEMMA GoesHeld ==
    ASSUME TInv, NEW t \in Threads, NEW m \in Names, NEW h, NEW p,
           Goes(t, p, m, h), p # "admit", h = Nothing \/ Good(h, api[m], now)
    PROVE  HeldFrom
BY WorkerHeld, SchedHeld DEF Goes

LEMMA RestsHeld ==
    ASSUME TInv, NEW t \in Threads, NEW m \in Names, Rests(t, m)
    PROVE  HeldFrom
BY WorkerHeld, SchedHeld DEF Rests, WorkerRests, SchedRests

LEMMA HandleHeld == ASSUME VInv, NEW m \in Names, Handle(m) PROVE HeldFrom
<1>0. /\ TInv /\ now \in Nat /\ seen[m] \in Object /\ api[m] \in Object
      /\ Good(seen[m], api[m], now)
      /\ m \in cached => seen[m].spec \in Specs
    BY DEF VInv, TInv, TypeOK, SpecsKnown, Consistent
<1>1. CASE \E a \in JobActions : HandleWithoutCache(a, m)
    BY <1>0, <1>1, WorkerHeld DEF HandleWithoutCache
<1>2. CASE OnMaintenanceAdded(m)
    <2>1. \/ WorkerGoes("next", "Update", m, Nothing) \/ WorkerRests(m)
          \/ ~seen[m].admitted /\ m \in cached /\ WorkerGoes("admit", "Add", m, Admit(seen[m]))
        BY <1>2 DEF OnMaintenanceAdded, Admitted
    <2>2. CASE WorkerGoes("next", "Update", m, Nothing) \/ WorkerRests(m)
        BY <1>0, <2>2, WorkerHeld DEF WorkerRests
    <2>3. CASE ~seen[m].admitted /\ m \in cached /\ WorkerGoes("admit", "Add", m, Admit(seen[m]))
        BY <1>0, <2>3, GoodUnadmitted, WorkerHeld
    <2> QED
        BY <2>1, <2>2, <2>3
<1>3. CASE OnMaintenanceUpdated(m)
    BY <1>0, <1>3, WorkerHeld DEF OnMaintenanceUpdated, WorkerRests
<1>4. CASE OnMaintenanceDeleting(m)
    BY <1>0, <1>4, WorkerHeld DEF OnMaintenanceDeleting, WorkerRests
<1>5. CASE OnMaintenanceDeleted(m)
    BY <1>0, <1>5, WorkerHeld DEF OnMaintenanceDeleted, WorkerRests
<1> QED
    BY <1>1, <1>2, <1>3, <1>4, <1>5 DEF Handle

LEMMA MarkScheduledHeld == ASSUME VInv, MarkScheduled PROVE HeldFrom
<1> DEFINE m == key["sched"]
           h == copy["sched"]
<1>0. m \in Names /\ api \in [Names -> Object] /\ TInv
    BY DEF VInv, TInv, TypeOK, Threads
<1>1. \/ SchedGoes("enqueue", m, Nothing)
      \/ /\ Applied(m, h)
         /\ SchedGoes("create", m, Stored(m, WithStatus(api[m], h)))
    BY DEF MarkScheduled
<1>2. Applied(m, h) => api'[m] = Stored(m, WithStatus(api[m], h))
    BY <1>0 DEF Applied, Put
<1> HIDE DEF m, h
<1> QED
    BY <1>0, <1>1, <1>2, SchedHeld

LEMMA ScheduleHeld == ASSUME VInv, NEW m \in Names, ScheduleMaintenance(m) PROVE HeldFrom
<1>0. /\ TInv /\ now \in Nat /\ seen[m] \in Object /\ api[m] \in Object
      /\ Good(seen[m], api[m], now)
    BY DEF VInv, TInv, TypeOK, Consistent
<1>1. \/ SchedGoes("enqueue", m, Nothing)
      \/ SchedGoes("create", m, seen[m])
      \/ /\ ~seen[m].gone /\ Started(seen[m], now) /\ ~Scheduled(seen[m])
         /\ SchedGoes("mark", m, Snapshot(seen[m]))
    BY DEF ScheduleMaintenance
<1> QED
    BY <1>0, <1>1, GoodSnapshot, SchedHeld

LEMMA EnqueueHeld == ASSUME VInv, NEW t \in Threads, Enqueue(t) PROVE HeldFrom
<1> DEFINE m == key[t]
<1>0. /\ TInv /\ now \in Nat /\ m \in Names /\ seen[m] \in Object /\ api[m] \in Object
      /\ Good(seen[m], api[m], now)
    BY DEF VInv, TInv, TypeOK, Consistent
<1>1. CASE EnqueueStops(t)
    <2>1. Rests(t, m) \/ WorkerGoes("retry", "Update", m, Nothing)
        BY <1>1 DEF EnqueueStops, Rests
    <2> HIDE DEF m
    <2> QED
        BY <1>0, <2>1, RestsHeld, WorkerHeld
<1>2. CASE EnqueueFinishes(t)
    <2>1. /\ ~seen[m].gone /\ Expired(seen[m], now)
          /\ Goes(t, "finish", m, Finish(seen[m]))
        BY <1>2 DEF EnqueueFinishes
    <2> HIDE DEF m
    <2> QED
        BY <1>0, <2>1, GoodFinish, GoesHeld
<1>3. CASE EnqueueOffers(t)
    <2>1. \/ \E p \in {"offerDelay", "offerTime"} : Goes(t, p, m, seen[m])
          \/ Restarted
        BY <1>3 DEF EnqueueOffers
    <2> HIDE DEF m
    <2> QED
        BY <1>0, <2>1, RestartedHeld, GoesHeld
<1>4. CASE SendFinished(t) \/ OfferToTQ(t)
    <2>1. Rests(t, m) \/ Restarted
        BY <1>4 DEF SendFinished, OfferToTQ
    <2> HIDE DEF m
    <2> QED
        BY <1>0, <2>1, RestartedHeld, RestsHeld
<1> QED
    BY <1>1, <1>2, <1>3, <1>4 DEF Enqueue

LEMMA NextHeld == VInv /\ [Next]_vars => HeldFrom
<1> SUFFICES ASSUME VInv, [Next]_vars PROVE HeldFrom
    OBVIOUS
<1>0. /\ TInv /\ key["worker"] \in Names /\ key["sched"] \in Names
    BY DEF VInv, TInv, TypeOK, Threads
<1>1. Users => HeldFrom
    BY UnchangedHeld
    DEF Users, Create, EditSpec, Delete, CollectGarbage, UserOp, controller
<1>2. Tick \/ Informer \/ Timers => HeldFrom
    BY UnchangedHeld DEF Tick, controller, Informer, Deliver, Announce, Timers, Wake, FireDelayed
<1>3. Crash => HeldFrom
    BY RestartedHeld DEF Crash
<1>4. FindPending \/ DropCached \/ OfferNext \/ Backoff \/ SendAdmitted \/ SendDelete
        => HeldFrom
    BY <1>0, WorkerHeld
    DEF FindPending, DropCached, OfferNext, Backoff, SendAdmitted, SendDelete, WorkerRests
<1>5. CreateMaintenanceJobs => HeldFrom
    BY <1>0, SchedHeld DEF CreateMaintenanceJobs
<1>6. UNCHANGED vars => HeldFrom
    BY UnchangedHeld DEF vars
<1> QED
    BY <1>1, <1>2, <1>3, <1>4, <1>5, <1>6, HandleHeld, MarkScheduledHeld, ScheduleHeld,
       EnqueueHeld
    DEF Next, Worker, Sched, Threads

LEMMA NextAboutToAdmit == VInv /\ [Next]_vars => AboutToAdmit'
<1> SUFFICES ASSUME VInv, [Next]_vars PROVE AboutToAdmit'
    OBVIOUS
<1>0. TInv /\ AboutToAdmit
    BY DEF VInv
<1>1. ASSUME NEW m, NEW h, NEW p, NEW a, WorkerGoes(p, a, m, h),
             p = "admit" => h.admitted /\ h.since < h.until
      PROVE  AboutToAdmit'
    BY <1>0, <1>1 DEF WorkerGoes, AboutToAdmit, TInv, TypeOK, Threads
<1>2. ASSUME NEW m, NEW h, NEW p, SchedGoes(p, m, h)
      PROVE  AboutToAdmit'
    BY <1>0, <1>2 DEF SchedGoes, AboutToAdmit, TInv, TypeOK, Threads
<1>3. UNCHANGED <<pc, copy>> => AboutToAdmit'
    BY <1>0 DEF AboutToAdmit
<1>4. Restarted => AboutToAdmit'
    BY DEF Restarted, AboutToAdmit, Threads
<1>5. Users \/ Tick \/ Informer \/ Timers => AboutToAdmit'
    BY <1>3
    DEF Users, Create, EditSpec, Delete, CollectGarbage, UserOp, controller,
        Tick, Informer, Deliver, Announce, Timers, Wake, FireDelayed
<1>6. Crash => AboutToAdmit'
    BY <1>4 DEF Crash
<1>7. FindPending \/ DropCached \/ OfferNext \/ Backoff \/ SendAdmitted \/ SendDelete
        => AboutToAdmit'
    BY <1>1
    DEF FindPending, DropCached, OfferNext, Backoff, SendAdmitted, SendDelete, WorkerRests
<1>8. MarkScheduled \/ CreateMaintenanceJobs => AboutToAdmit'
    BY <1>2 DEF MarkScheduled, CreateMaintenanceJobs
<1>9. \A m \in Names : ScheduleMaintenance(m) => AboutToAdmit'
    BY <1>2 DEF ScheduleMaintenance
<1>10. ASSUME NEW t \in Threads, Enqueue(t) PROVE AboutToAdmit'
    <2>1. \/ Restarted
          \/ \E p \in EnqueuePCs \cup {"idle", "retry"} :
             \E h \in {Nothing, seen[key[t]], Finish(seen[key[t]])} :
               \/ WorkerGoes(p, "Update", key[t], h)
               \/ WorkerGoes(p, "None", key[t], h)
               \/ SchedGoes(p, key[t], h)
        BY <1>10
        DEF Enqueue, EnqueueStops, EnqueueFinishes, EnqueueOffers, SendFinished, OfferToTQ,
            Goes, Rests, WorkerRests, SchedRests, EnqueuePCs
    <2> QED
        BY <1>1, <1>2, <1>4, <2>1 DEF EnqueuePCs
<1>11. ASSUME NEW m \in Names, Handle(m) PROVE AboutToAdmit'
    <2>1. CASE OnMaintenanceAdded(m)
        <3>1. m \in cached => /\ Admit(seen[m]).admitted
                              /\ Admit(seen[m]).since = ScheduleSince(seen[m])
                              /\ Admit(seen[m]).until = ScheduleUntil(seen[m])
            BY <1>0, AdmitFacts DEF TInv, TypeOK, SpecsKnown
        <3>2. \/ WorkerGoes("next", "Update", m, Nothing) \/ WorkerRests(m)
              \/ /\ m \in cached /\ AdmissibleWindow(seen[m])
                 /\ WorkerGoes("admit", "Add", m, Admit(seen[m]))
            BY <2>1 DEF OnMaintenanceAdded
        <3> QED
            BY <1>1, <3>1, <3>2 DEF WorkerRests, AdmissibleWindow
    <2>2. CASE (\E a \in JobActions : HandleWithoutCache(a, m)) \/ OnMaintenanceUpdated(m)
               \/ OnMaintenanceDeleting(m) \/ OnMaintenanceDeleted(m)
        BY <1>1, <2>2 DEF HandleWithoutCache, OnMaintenanceUpdated, OnMaintenanceDeleting,
                          OnMaintenanceDeleted, WorkerRests
    <2> QED
        BY <1>11, <2>1, <2>2 DEF Handle
<1>12. UNCHANGED vars => AboutToAdmit'
    BY <1>3 DEF vars
<1> QED
    BY <1>5, <1>6, <1>7, <1>8, <1>9, <1>10, <1>11, <1>12 DEF Next, Worker, Sched, Threads

-----------------------------------------------------------------------------
\* The invariant holds, and the safety properties with it.

LEMMA VInvInit == Init => VInv
<1> SUFFICES ASSUME Init PROVE VInv
    OBVIOUS
<1>1. TInv /\ now = 1
    BY InitType DEF Init
<1>2. Consistent
    BY <1>1, NothingFacts, GoodNothing DEF Init, Consistent, Live, Good
<1>3. HeldConsistent
    BY <1>1, NothingFacts, GoodNothing DEF Init, HeldConsistent, Held, Threads
<1>4. AboutToAdmit
    BY DEF Init, AboutToAdmit, Threads
<1> QED
    BY <1>1, <1>2, <1>3, <1>4 DEF VInv

LEMMA VInvNext == VInv /\ [Next]_vars => VInv'
<1> SUFFICES ASSUME VInv, [Next]_vars PROVE VInv'
    OBVIOUS
<1>1. TInv' /\ TypeOK'
    BY TypeNext DEF VInv, TInv
<1>2. Consistent' /\ HeldConsistent'
    BY <1>1, NextTime, NextGrows, NextWatch, NextSeen, NextHeld, StepConsistent
<1>3. AboutToAdmit'
    BY NextAboutToAdmit
<1> QED
    BY <1>1, <1>2, <1>3 DEF VInv

LEMMA VInvAlways == Spec => []VInv
BY VInvInit, VInvNext, PTL DEF Spec

LEMMA VersionsGood ==
    ASSUME VInv, NEW m \in Names, NEW h \in Versions(m)
    PROVE  Good(h, api[m], now)
<1>1. h \in watch[m] \/ h = seen[m] \/ \E t \in Threads : key[t] = m /\ h = Held(t)
    BY DEF Versions
<1> QED
    BY <1>1 DEF VInv, Consistent, HeldConsistent

\* No version the controller holds is ahead of the stored object, and one that
\* UpdateStatus would accept only adds phases to it: the fields that handlers
\* write into the shared store before a call never undo what others stored.
THEOREM AcceptedVersionsExtendAlways == Spec => []AcceptedVersionsExtend
<1>1. VInv => AcceptedVersionsExtend
    BY VersionsGood DEF AcceptedVersionsExtend, Good
<1> QED
    BY <1>1, VInvAlways, PTL

\* Phases are entered in order and in time: an object is scheduled only while
\* its window is open, and finished only after it closed.
THEOREM VersionsInOrderAlways == Spec => []VersionsInOrder
<1>1. VInv => VersionsInOrder
    BY VersionsGood DEF VersionsInOrder, Good, VInv, Consistent
<1> QED
    BY <1>1, VInvAlways, PTL

\* All versions of one incarnation have the window it was admitted with.
THEOREM WindowsAgreeAlways == Spec => []WindowsAgree
<1>1. VInv => WindowsAgree
    BY VersionsGood DEF WindowsAgree, Good
<1> QED
    BY <1>1, VInvAlways, PTL

-----------------------------------------------------------------------------
\* MaintenanceJobs.

\* MaintenanceJobs against the incarnation they were created for.
JobsConsistent ==
    \A m \in Names : \A j \in jobs[m] :
        j.uid <= api[m].uid /\ (j.uid = api[m].uid => Started(api[m], now))

\* Only a scheduler that holds an object with a snapshot creates any.
JobsFrom ==
    \A m \in Names : \A j \in jobs'[m] :
        \/ j \in jobs[m]
        \/ /\ pc["sched"] = "create" /\ key["sched"] = m /\ j.uid = copy["sched"].uid
           /\ UNCHANGED <<now, api>>

LEMMA NextJobs == VInv /\ [Next]_vars => JobsFrom
<1> SUFFICES ASSUME VInv, [Next]_vars PROVE JobsFrom
    OBVIOUS
<1>1. UNCHANGED jobs => JobsFrom
    BY DEF JobsFrom
<1>2. Users \/ Tick \/ Informer \/ Timers \/ Crash => UNCHANGED jobs
    BY DEF Users, Create, EditSpec, Delete, CollectGarbage, UserOp,
        Tick, Informer, Deliver, Announce, Timers, Wake, FireDelayed, Crash
<1>3. \A m \in Names : Handle(m) => UNCHANGED jobs
    BY DEF Handle, HandleWithoutCache, OnMaintenanceAdded, OnMaintenanceUpdated,
           OnMaintenanceDeleting, OnMaintenanceDeleted, Acquire
<1>4. FindPending \/ DropCached \/ OfferNext \/ Backoff \/ SendAdmitted \/ SendDelete
            \/ MarkScheduled
        => UNCHANGED jobs
    BY DEF FindPending, DropCached, OfferNext, Backoff, SendAdmitted, SendDelete, MarkScheduled
<1>5. \A m \in Names : ScheduleMaintenance(m) => UNCHANGED jobs
    BY DEF ScheduleMaintenance
<1>6. \A t \in Threads : Enqueue(t) => UNCHANGED jobs
    BY DEF Enqueue, EnqueueStops, EnqueueFinishes, EnqueueOffers, SendFinished, OfferToTQ
<1>7. UNCHANGED vars => UNCHANGED jobs
    BY DEF vars
<1>8. CreateMaintenanceJobs => JobsFrom
    <2> SUFFICES ASSUME CreateMaintenanceJobs PROVE JobsFrom
        OBVIOUS
    <2> DEFINE n == key["sched"]
               new == [uid |-> copy["sched"].uid, spec |-> copy["sched"].snapshot]
    <2>1. /\ UNCHANGED jobs \/ jobs' = [jobs EXCEPT ![n] = @ \cup {new}]
          /\ pc["sched"] = "create" /\ UNCHANGED <<now, api>>
        BY DEF CreateMaintenanceJobs
    <2>2. new.uid = copy["sched"].uid
        OBVIOUS
    <2>3. jobs \in [Names -> SUBSET [uid : Nat, spec : Specs]]
        BY DEF VInv, TInv, TypeOK
    <2> HIDE DEF new
    <2> QED
        BY <2>1, <2>2, <2>3 DEF JobsFrom
<1> QED
    BY <1>1, <1>2, <1>3, <1>4, <1>5, <1>6, <1>7, <1>8 DEF Next, Worker, Sched, Threads

LEMMA JobsConsistentNext == VInv /\ JobsConsistent /\ [Next]_vars => JobsConsistent'
<1> SUFFICES ASSUME VInv, JobsConsistent, [Next]_vars,
                    NEW m \in Names, NEW j \in jobs'[m]
             PROVE  /\ j.uid <= api'[m].uid
                    /\ j.uid = api'[m].uid => Started(api'[m], now')
    BY DEF JobsConsistent, Started
<1>1. TypeOK'
    BY VInvNext DEF VInv, TInv
<1>2. /\ now \in Nat /\ now' \in Nat /\ now <= now'
      /\ api[m].uid \in Nat /\ api'[m].uid \in Nat /\ api'[m].since \in Nat /\ j.uid \in Nat
    BY <1>1, NextTime, FieldTypes DEF VInv, TInv, TypeOK, TimePasses
<1>3. CASE j \in jobs[m]
    <2>1. j.uid <= api[m].uid /\ (j.uid = api[m].uid => Started(api[m], now))
        BY <1>3 DEF JobsConsistent
    <2>2. api'[m] = api[m] \/ Continues(api[m], api'[m])
        BY NextGrows DEF ApiGrows
    <2> QED
        BY <1>2, <2>1, <2>2 DEF Continues, Started
<1>4. CASE /\ pc["sched"] = "create" /\ key["sched"] = m /\ j.uid = copy["sched"].uid
           /\ UNCHANGED <<now, api>>
    <2> DEFINE h == copy["sched"]
    <2>1. Good(h, api[m], now)
        BY <1>4 DEF VInv, HeldConsistent, Held, Threads
    <2>2. h.snapshot # NoSpec
        BY <1>4, SpecsAssumption DEF VInv, TInv, SpecsKnown
    <2> QED
        BY <1>4, <2>1, <2>2 DEF Good, PhasesInOrder, Scheduled, Started
<1> QED
    BY <1>3, <1>4, NextJobs DEF JobsFrom

\* MaintenanceJobs of an incarnation are created only after the window it was
\* admitted with has opened, even when the snapshot they are created from was
\* never stored.
THEOREM JobsOnlyInWindowAlways == Spec => []JobsOnlyInWindow
<1>1. Init => JobsConsistent
    BY DEF Init, JobsConsistent
<1>2. JobsConsistent => JobsOnlyInWindow
    BY DEF JobsConsistent, JobsOnlyInWindow
<1> QED
    BY <1>1, <1>2, JobsConsistentNext, VInvAlways, PTL DEF Spec

-----------------------------------------------------------------------------
\* The reconciler's queue.

LEMMA PendingJobsNext ==
    TInv /\ PendingJobsConsistent /\ [Next]_vars => PendingJobsConsistent'
<1> SUFFICES ASSUME TInv, PendingJobsConsistent, [Next]_vars PROVE PendingJobsConsistent'
    OBVIOUS
<1>0. /\ jobQ \in Seq(JobsOn(Names)) /\ delayed \subseteq JobsOn(Names)
      /\ Unique(jobQ) /\ Compatible(jobQ) /\ key["worker"] \in Names
    BY DEF TInv, TypeOK, PendingJobsConsistent, Jobs, JobsOn, Threads
<1> SUFFICES Unique(jobQ') /\ Compatible(jobQ')
    BY DEF PendingJobsConsistent, Unique, Compatible
<1>1. CASE UNCHANGED jobQ
    BY <1>0, <1>1
<1>2. CASE jobQ' = << >>
    BY <1>2 DEF Unique, Compatible
<1>3. CASE jobQ # << >> /\ jobQ' = Tail(jobQ)
    BY <1>0, <1>3, TailConsistent
<1>4. ASSUME NEW j \in JobsOn(Names), jobQ' = Offer(jobQ, j)
      PROVE  Unique(jobQ') /\ Compatible(jobQ')
    BY <1>0, <1>4, OfferConsistent
<1>5. ASSUME NEW m \in Names, NEW a \in JobActions,
             jobQ' = Offer(Without(jobQ, a, m), Job(a, m))
      PROVE  Unique(jobQ') /\ Compatible(jobQ')
    <2>1. Without(jobQ, a, m) \in Seq(JobsOn(Names)) /\ Job(a, m) \in JobsOn(Names)
        BY <1>0, WithoutType DEF Job, JobsOn
    <2> QED
        BY <1>0, <1>5, <2>1, WithoutConsistent, OfferConsistent
<1>6. Users \/ Tick => UNCHANGED jobQ
    BY DEF Users, Create, EditSpec, Delete, CollectGarbage, UserOp, controller, Tick
<1>7. ASSUME Informer
      PROVE  \/ UNCHANGED jobQ
             \/ \E m \in Names, a \in JobActions :
                   jobQ' = Offer(Without(jobQ, a, m), Job(a, m))
    <2>1. CASE \E m \in Names : Deliver(m)
        BY <2>1 DEF Deliver
    <2>2. ASSUME NEW j \in notice, Announce(j)
          PROVE  \E m \in Names, a \in JobActions :
                    jobQ' = Offer(Without(jobQ, a, m), Job(a, m))
        <3>1. j.key \in Names /\ j.action \in JobActions
            BY DEF TInv, TypeOK, Jobs
        <3> QED
            BY <2>2, <3>1 DEF Announce, Schedule
    <2> QED
        BY <1>7, <2>1, <2>2 DEF Informer
<1>8. Timers => UNCHANGED jobQ \/ \E j \in JobsOn(Names) : jobQ' = Offer(jobQ, j)
    BY <1>0 DEF Timers, Wake, FireDelayed
<1>9. \A m \in Names : Handle(m) => jobQ # << >> /\ jobQ' = Tail(jobQ)
    BY DEF Handle, HandleWithoutCache, OnMaintenanceAdded, OnMaintenanceUpdated,
           OnMaintenanceDeleting, OnMaintenanceDeleted, Acquire
<1>10. ASSUME OfferNext PROVE \E j \in JobsOn(Names) : jobQ' = Offer(jobQ, j)
    <2>1. action \in JobActions /\ jobQ' = Offer(jobQ, Job(action, key["worker"]))
        BY <1>10 DEF OfferNext, TInv, SpecsKnown
    <2> QED
        BY <1>0, <2>1 DEF Job, JobsOn
<1>11. FindPending \/ DropCached \/ Backoff \/ SendAdmitted \/ SendDelete
            \/ MarkScheduled \/ CreateMaintenanceJobs
        => UNCHANGED jobQ
    BY DEF FindPending, DropCached, Backoff, SendAdmitted, SendDelete,
           MarkScheduled, CreateMaintenanceJobs
<1>12. \A m \in Names : ScheduleMaintenance(m) => UNCHANGED jobQ
    BY DEF ScheduleMaintenance
<1>13. \A t \in Threads : Enqueue(t) => UNCHANGED jobQ \/ jobQ' = << >>
    BY DEF Enqueue, EnqueueStops, EnqueueFinishes, EnqueueOffers, SendFinished, OfferToTQ,
           Restarted
<1>14. Crash => jobQ' = << >>
    BY DEF Crash, Restarted
<1>15. UNCHANGED vars => UNCHANGED jobQ
    BY DEF vars
<1> QED
    BY <1>1, <1>2, <1>3, <1>4, <1>5, <1>6, <1>7, <1>8, <1>9, <1>10, <1>11, <1>12, <1>13,
       <1>14, <1>15
    DEF Next, Worker, Sched, Threads

\* Whatever cancels, replaces, delays and retries jobs, none is pending twice
\* and no update of an object is pending with its addition or deletion.
THEOREM PendingJobsConsistentAlways == Spec => []PendingJobsConsistent
<1>1. Init => PendingJobsConsistent
    BY DEF Init, PendingJobsConsistent, Unique, Compatible
<1> QED
    BY <1>1, PendingJobsNext, InitType, TypeNext, PTL DEF Spec

-----------------------------------------------------------------------------
\* Entries of the timeout queue.

\* A goroutine that found no entry is about to add one.
AtOffer(t, m) == pc[t] \in {"offerDelay", "offerTime"} /\ key[t] = m

TimersCounted ==
    \A m \in Names :
        /\ Len(tq[m]) <= 2
        /\ \A t \in Threads : AtOffer(t, m) => Len(tq[m]) <= 1
        /\ (\A t \in Threads : AtOffer(t, m)) => Len(tq[m]) = 0

TimersShrink ==
    \A m \in Names :
        /\ Len(tq'[m]) <= Len(tq[m])
        /\ \A t \in Threads : AtOffer(t, m)' => AtOffer(t, m)

LEMMA ShrinkCounted ==
    ASSUME TypeOK, TypeOK', TimersCounted, TimersShrink
    PROVE  TimersCounted'
<1>1. \A m \in Names : Len(tq[m]) \in Nat /\ Len(tq'[m]) \in Nat
    BY DEF TypeOK
<1> QED
    BY <1>1 DEF TimersCounted, TimersShrink

LEMMA SameTimers == TypeOK /\ UNCHANGED <<tq, pc, key>> => TimersShrink
BY DEF TimersShrink, AtOffer, TypeOK

LEMMA RestartedTimers == TypeOK /\ Restarted => TimersShrink
BY DEF TimersShrink, AtOffer, TypeOK, Restarted

LEMMA GoesTimers ==
    ASSUME TypeOK, \A m \in Names : Len(tq'[m]) <= Len(tq[m]),
           NEW m, NEW h, NEW a, NEW p, p \notin {"offerDelay", "offerTime"},
           WorkerGoes(p, a, m, h) \/ SchedGoes(p, m, h)
    PROVE  TimersShrink
BY DEF WorkerGoes, SchedGoes, TimersShrink, AtOffer, TypeOK, Threads

LEMMA UnchangedTimers ==
    TypeOK /\ UNCHANGED tq => \A m \in Names : Len(tq'[m]) <= Len(tq[m])
BY DEF TypeOK

LEMMA OfferedTimers ==
    ASSUME TInv, TypeOK', TimersCounted, NEW t \in Threads, OfferToTQ(t)
    PROVE  TimersCounted'
<1>0. PICK m \in Names : m = key[t]
    BY DEF TInv, TypeOK
<1>1. m \in Names /\ tq \in [Names -> Seq(Nat)] /\ pc[t] \in {"offerDelay", "offerTime"}
    BY DEF TInv, TypeOK, OfferToTQ
<1>2. PICK due : tq' = [tq EXCEPT ![m] = Append(@, due)]
    BY <1>0 DEF OfferToTQ
<1>3. /\ Len(tq'[m]) = Len(tq[m]) + 1 /\ Len(tq[m]) \in Nat
      /\ \A n \in Names \ {m} : tq'[n] = tq[n]
    BY <1>1, <1>2
<1>4. AtOffer(t, m)
    BY <1>0, <1>1 DEF AtOffer
<1>5. /\ \A n \in Names : ~AtOffer(t, n)'
      /\ \A u \in Threads \ {t} : \A n \in Names : AtOffer(u, n)' => AtOffer(u, n)
    BY DEF OfferToTQ, Rests, WorkerRests, SchedRests, WorkerGoes, SchedGoes, AtOffer,
           TInv, TypeOK, Threads
<1>6. /\ Len(tq'[m]) <= 2
      /\ \A u \in Threads : AtOffer(u, m)' => Len(tq'[m]) <= 1
    <2>1. Len(tq[m]) <= 1
        BY <1>1, <1>4 DEF TimersCounted
    <2>2. ASSUME NEW u \in Threads, AtOffer(u, m)' PROVE Len(tq[m]) = 0
        <3>1. u # t /\ AtOffer(u, m) /\ AtOffer(t, m)
            BY <1>1, <1>4, <1>5, <2>2
        <3>2. \A v \in Threads : v = t \/ v = u
            BY <3>1 DEF Threads
        <3>3. \A v \in Threads : AtOffer(v, m)
            BY <3>1, <3>2
        <3> QED
            BY <1>1, <3>3 DEF TimersCounted
    <2> QED
        BY <1>1, <1>3, <2>1, <2>2
<1>7. ASSUME NEW n \in Names
      PROVE  /\ Len(tq'[n]) <= 2
             /\ \A u \in Threads : AtOffer(u, n)' => Len(tq'[n]) <= 1
             /\ (\A u \in Threads : AtOffer(u, n)') => Len(tq'[n]) = 0
    <2>1. CASE n = m
        BY <1>5, <1>6, <2>1
    <2>2. CASE n # m
        BY <1>3, <1>5, <2>2 DEF TimersCounted
    <2> QED
        BY <2>1, <2>2
<1> QED
    BY <1>7 DEF TimersCounted

LEMMA FoundNoTimer ==
    ASSUME TInv, TypeOK', TimersCounted, NEW t \in Threads, EnqueueOffers(t)
    PROVE  TimersCounted'
<1> DEFINE m == key[t]
<1>1. CASE Restarted
    BY <1>1, RestartedTimers, ShrinkCounted DEF TInv
<1>2. CASE UNCHANGED tq /\ \E p \in EnqueuePCs, h \in {seen[m]} : Goes(t, p, m, h)
    <2>1. /\ m \in Names /\ tq[m] = << >> /\ tq' = tq
          /\ \A u \in Threads \ {t} : \A n \in Names : AtOffer(u, n)' => AtOffer(u, n)
          /\ \A n \in Names \ {m} : ~AtOffer(t, n)'
        BY <1>2 DEF EnqueueOffers, Goes, WorkerGoes, SchedGoes, AtOffer, TInv, TypeOK, Threads
    <2>2. Len(tq'[m]) = 0
        BY <2>1
    <2> HIDE DEF m
    <2> QED
        BY <2>1, <2>2 DEF TimersCounted
<1> QED
    BY <1>1, <1>2 DEF EnqueueOffers, EnqueuePCs

LEMMA TimersNext == TInv /\ TimersCounted /\ [Next]_vars => TimersCounted'
<1> SUFFICES ASSUME TInv, TimersCounted, [Next]_vars PROVE TimersCounted'
    OBVIOUS
<1>0. TypeOK /\ TypeOK'
    BY TypeNext DEF TInv
<1>1. Users \/ Tick \/ Informer => TimersShrink
    BY <1>0, SameTimers
    DEF Users, Create, EditSpec, Delete, CollectGarbage, UserOp, controller,
        Tick, Informer, Deliver, Announce
<1>2. Timers => TimersShrink
    <2>1. \A j \in delayed : FireDelayed(j) => TimersShrink
        BY <1>0, SameTimers DEF FireDelayed
    <2>2. ASSUME NEW m \in Names, Wake(m) PROVE TimersShrink
        <3>1. PICK i \in DOMAIN tq[m] : tq' = [tq EXCEPT ![m] = RemoveAt(@, i)]
            BY <2>2 DEF Wake
        <3>2. /\ tq \in [Names -> Seq(Nat)] /\ Len(tq[m]) \in Nat
              /\ Len(RemoveAt(tq[m], i)) = Len(tq[m]) - 1
            <4>1. tq \in [Names -> Seq(Nat)] /\ tq[m] \in Seq(Nat)
                BY <1>0 DEF TypeOK
            <4> QED
                BY <4>1, RemoveAtFacts
        <3>3. \A n \in Names : Len(tq'[n]) <= Len(tq[n])
            BY <3>1, <3>2
        <3>4. UNCHANGED <<pc, key>>
            BY <2>2 DEF Wake
        <3> QED
            BY <3>3, <3>4 DEF TimersShrink, AtOffer
    <2> QED
        BY <2>1, <2>2 DEF Timers
<1>3. Crash => TimersShrink
    BY <1>0, RestartedTimers DEF Crash
<1>4. FindPending \/ DropCached \/ OfferNext \/ Backoff \/ SendAdmitted \/ SendDelete
        => TimersShrink
    BY <1>0, UnchangedTimers, GoesTimers
    DEF FindPending, DropCached, OfferNext, Backoff, SendAdmitted, SendDelete, WorkerRests
<1>5. MarkScheduled \/ CreateMaintenanceJobs => TimersShrink
    BY <1>0, UnchangedTimers, GoesTimers DEF MarkScheduled, CreateMaintenanceJobs
<1>6. \A m \in Names : ScheduleMaintenance(m) => TimersShrink
    BY <1>0, UnchangedTimers, GoesTimers DEF ScheduleMaintenance
<1>7. ASSUME NEW m \in Names, Handle(m) PROVE TimersShrink
    <2>1. \A n \in Names : Len(tq'[n]) <= Len(tq[n])
        <3>1. UNCHANGED tq \/ (tq[m] # << >> /\ tq' = [tq EXCEPT ![m] = Front(@)])
            BY <1>7 DEF Handle, HandleWithoutCache, OnMaintenanceAdded, OnMaintenanceUpdated,
                        OnMaintenanceDeleting, OnMaintenanceDeleted
        <3>2. tq \in [Names -> Seq(Nat)]
            BY <1>0 DEF TypeOK
        <3>3. tq[m] # << >> => Len(Front(tq[m])) <= Len(tq[m])
            BY <3>2 DEF Front
        <3> QED
            BY <1>0, <3>1, <3>2, <3>3, UnchangedTimers
    <2>2. \E p \in {"idle", "retry", "next", "admit", "enqueue", "delete", "find"} : \E a, h :
            WorkerGoes(p, a, m, h)
        BY <1>7 DEF Handle, HandleWithoutCache, OnMaintenanceAdded, OnMaintenanceUpdated,
                    OnMaintenanceDeleting, OnMaintenanceDeleted, WorkerRests
    <2> QED
        BY <1>0, <2>1, <2>2, GoesTimers
<1>8. ASSUME NEW t \in Threads, Enqueue(t) PROVE TimersCounted'
    <2>1. CASE EnqueueOffers(t) \/ OfferToTQ(t)
        BY <1>0, <2>1, FoundNoTimer, OfferedTimers
    <2>2. CASE EnqueueStops(t) \/ EnqueueFinishes(t)
        <3>1. UNCHANGED tq
            BY <2>2 DEF EnqueueStops, EnqueueFinishes
        <3>2. \E p \in {"idle", "retry", "finish"} : \E a, h :
                WorkerGoes(p, a, key[t], h) \/ SchedGoes(p, key[t], h)
            BY <2>2 DEF EnqueueStops, EnqueueFinishes, Rests, Goes, WorkerRests, SchedRests
        <3> QED
            BY <1>0, <3>1, <3>2, UnchangedTimers, GoesTimers, ShrinkCounted
    <2>3. CASE SendFinished(t)
        <3>1. Restarted \/ (UNCHANGED tq /\ Rests(t, key[t]))
            BY <2>3 DEF SendFinished
        <3> QED
            BY <1>0, <3>1, RestartedTimers, UnchangedTimers, GoesTimers, ShrinkCounted
            DEF Rests, WorkerRests, SchedRests
    <2> QED
        BY <1>8, <2>1, <2>2, <2>3 DEF Enqueue
<1>9. UNCHANGED vars => TimersShrink
    BY <1>0, SameTimers DEF vars
<1> QED
    BY <1>0, <1>1, <1>2, <1>3, <1>4, <1>5, <1>6, <1>7, <1>8, <1>9, ShrinkCounted
    DEF Next, Worker, Sched, Threads

\* The lookup in the timeout queue and the offer are two steps of two
\* goroutines: a name has at most one entry for each, however long the run.
THEOREM FewTimersAlways == Spec => []FewTimers
<1>1. Init => TimersCounted
    BY DEF Init, TimersCounted, AtOffer, Threads
<1>2. TimersCounted => FewTimers
    <2>1. Cardinality(Threads) = 2
        <3>1. IsFiniteSet({"worker"}) /\ Cardinality({"worker"}) = 1
            BY FS_Singleton
        <3>2. Cardinality({"worker"} \cup {"sched"}) = 2
            BY <3>1, FS_AddElement, "sched" \notin {"worker"}
        <3>3. Threads = {"worker"} \cup {"sched"}
            BY DEF Threads
        <3> QED
            BY <3>2, <3>3
    <2> QED
        BY <2>1 DEF TimersCounted, FewTimers
<1> QED
    BY <1>1, <1>2, TimersNext, InitType, TypeNext, PTL DEF Spec
=============================================================================
