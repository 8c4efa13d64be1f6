------------------------- MODULE MaintenanceTypeProofs -----------------------
(***************************************************************************)
(* Theorems about Maintenance, for any set of names and specs, any length  *)
(* of the queues, and any number of user operations, failures and crashes. *)
(***************************************************************************)
EXTENDS Maintenance, JobQueueProofs

-----------------------------------------------------------------------------
\* Versions and what the actions make of them: the type and the fields of
\* each version an action builds.

LEMMA FieldTypes ==
    ASSUME NEW h \in Object
    PROVE  /\ h.rv \in Nat /\ h.uid \in Nat /\ h.created \in Nat
           /\ h.since \in Nat /\ h.until \in Nat
           /\ h.gone \in BOOLEAN /\ h.deleting \in BOOLEAN
           /\ h.admitted \in BOOLEAN /\ h.finished \in BOOLEAN
           /\ h.spec \in Specs \cup {NoSpec}
           /\ h.snapshot \in Specs \cup {NoSpec}
BY DEF Object

LEMMA NothingFacts ==
    /\ Nothing \in Object
    /\ Nothing.rv = 0 /\ Nothing.uid = 0 /\ Nothing.gone /\ ~Nothing.deleting
    /\ ~Nothing.admitted /\ Nothing.since = 0 /\ Nothing.until = 0
    /\ Nothing.snapshot = NoSpec /\ ~Nothing.finished
BY DEF Nothing, Object

LEMMA StoredFacts ==
    ASSUME NEW o \in Object, NEW m, api[m] \in Object
    PROVE  /\ Stored(m, o) \in Object
           /\ Stored(m, o).rv = api[m].rv + 1 /\ Stored(m, o).uid = o.uid
           /\ Stored(m, o).gone = o.gone /\ Stored(m, o).deleting = o.deleting
           /\ Stored(m, o).created = o.created /\ Stored(m, o).spec = o.spec
           /\ Stored(m, o).admitted = o.admitted /\ Stored(m, o).since = o.since
           /\ Stored(m, o).until = o.until /\ Stored(m, o).snapshot = o.snapshot
           /\ Stored(m, o).finished = o.finished
BY DEF Stored, Object

LEMMA RemovedFacts ==
    ASSUME NEW o \in Object
    PROVE  /\ Removed(o) \in Object
           /\ Removed(o).rv = o.rv /\ Removed(o).uid = o.uid
           /\ Removed(o).gone = TRUE /\ Removed(o).deleting = o.deleting
           /\ Removed(o).created = o.created /\ Removed(o).spec = o.spec
           /\ Removed(o).admitted = o.admitted /\ Removed(o).since = o.since
           /\ Removed(o).until = o.until /\ Removed(o).snapshot = o.snapshot
           /\ Removed(o).finished = o.finished
BY DEF Removed, Object

LEMMA MarkedFacts ==
    ASSUME NEW o \in Object
    PROVE  /\ Marked(o) \in Object
           /\ Marked(o).rv = o.rv /\ Marked(o).uid = o.uid
           /\ Marked(o).gone = o.gone /\ Marked(o).deleting = TRUE
           /\ Marked(o).created = o.created /\ Marked(o).spec = o.spec
           /\ Marked(o).admitted = o.admitted /\ Marked(o).since = o.since
           /\ Marked(o).until = o.until /\ Marked(o).snapshot = o.snapshot
           /\ Marked(o).finished = o.finished
BY DEF Marked, Object

LEMMA EditedFacts ==
    ASSUME NEW o \in Object, NEW s \in Specs
    PROVE  /\ Edited(o, s) \in Object
           /\ Edited(o, s).rv = o.rv /\ Edited(o, s).uid = o.uid
           /\ Edited(o, s).gone = o.gone /\ Edited(o, s).deleting = o.deleting
           /\ Edited(o, s).created = o.created /\ Edited(o, s).spec = s
           /\ Edited(o, s).admitted = o.admitted /\ Edited(o, s).since = o.since
           /\ Edited(o, s).until = o.until /\ Edited(o, s).snapshot = o.snapshot
           /\ Edited(o, s).finished = o.finished
BY DEF Edited, Object

LEMMA FreshFacts ==
    ASSUME NEW o \in Object, NEW s \in Specs, now \in Nat
    PROVE  /\ Fresh(o, s) \in Object
           /\ Fresh(o, s).rv = o.rv /\ Fresh(o, s).uid = o.uid + 1
           /\ Fresh(o, s).gone = FALSE /\ Fresh(o, s).deleting = FALSE
           /\ Fresh(o, s).created = now /\ Fresh(o, s).spec = s
           /\ Fresh(o, s).admitted = FALSE /\ Fresh(o, s).since = 0
           /\ Fresh(o, s).until = 0 /\ Fresh(o, s).snapshot = NoSpec
           /\ Fresh(o, s).finished = FALSE
BY DEF Fresh, Object

LEMMA WithStatusFacts ==
    ASSUME NEW o \in Object, NEW h \in Object
    PROVE  /\ WithStatus(o, h) \in Object
           /\ WithStatus(o, h).rv = o.rv /\ WithStatus(o, h).uid = o.uid
           /\ WithStatus(o, h).gone = o.gone
           /\ WithStatus(o, h).deleting = o.deleting
           /\ WithStatus(o, h).created = o.created
           /\ WithStatus(o, h).spec = o.spec
           /\ WithStatus(o, h).admitted = h.admitted
           /\ WithStatus(o, h).since = h.since /\ WithStatus(o, h).until = h.until
           /\ WithStatus(o, h).snapshot = h.snapshot
           /\ WithStatus(o, h).finished = h.finished
BY DEF WithStatus, Object

LEMMA SnapshotFacts ==
    ASSUME NEW o \in Object
    PROVE  /\ Snapshot(o) \in Object
           /\ Snapshot(o).rv = o.rv /\ Snapshot(o).uid = o.uid
           /\ Snapshot(o).gone = o.gone /\ Snapshot(o).deleting = o.deleting
           /\ Snapshot(o).created = o.created /\ Snapshot(o).spec = o.spec
           /\ Snapshot(o).admitted = o.admitted /\ Snapshot(o).since = o.since
           /\ Snapshot(o).until = o.until /\ Snapshot(o).snapshot = o.spec
           /\ Snapshot(o).finished = o.finished
BY DEF Snapshot, Object

LEMMA FinishFacts ==
    ASSUME NEW o \in Object
    PROVE  /\ Finish(o) \in Object
           /\ Finish(o).rv = o.rv /\ Finish(o).uid = o.uid
           /\ Finish(o).gone = o.gone /\ Finish(o).deleting = o.deleting
           /\ Finish(o).created = o.created /\ Finish(o).spec = o.spec
           /\ Finish(o).admitted = o.admitted /\ Finish(o).since = o.since
           /\ Finish(o).until = o.until /\ Finish(o).snapshot = o.snapshot
           /\ Finish(o).finished = TRUE
BY DEF Finish, Object

LEMMA AdmitFacts ==
    ASSUME NEW o \in Object, o.spec \in Specs
    PROVE  /\ Admit(o) \in Object
           /\ Admit(o).rv = o.rv /\ Admit(o).uid = o.uid /\ Admit(o).gone = o.gone
           /\ Admit(o).deleting = o.deleting /\ Admit(o).created = o.created
           /\ Admit(o).spec = o.spec /\ Admit(o).admitted = TRUE
           /\ Admit(o).since = ScheduleSince(o)
           /\ Admit(o).until = ScheduleUntil(o) /\ Admit(o).snapshot = o.snapshot
           /\ Admit(o).finished = o.finished
<1>1. /\ o.spec.since \in Nat /\ o.spec.delay \in Nat
      /\ o.spec.until \in Nat /\ o.spec.duration \in Nat
    BY SpecsAssumption DEF SpecType
<1>2. DefaultDelay \in Nat /\ DefaultDuration \in Nat
    BY ConfigAssumption
<1>3. o.created \in Nat
    BY FieldTypes
<1>4. ScheduleSince(o) \in Nat
    BY <1>1, <1>2, <1>3 DEF ScheduleSince
<1>5. ScheduleUntil(o) \in Nat
    BY <1>1, <1>2, <1>4 DEF ScheduleUntil
<1> HIDE DEF ScheduleSince, ScheduleUntil
<1> QED
    BY <1>4, <1>5 DEF Admit, Object

LEMMA UnadmittedFacts ==
    ASSUME NEW o \in Object
    PROVE  /\ Unadmitted(o) \in Object
           /\ Unadmitted(o).rv = o.rv /\ Unadmitted(o).uid = o.uid
           /\ Unadmitted(o).gone = o.gone /\ Unadmitted(o).deleting = o.deleting
           /\ Unadmitted(o).created = o.created /\ Unadmitted(o).spec = o.spec
           /\ Unadmitted(o).admitted = FALSE /\ Unadmitted(o).since = 0
           /\ Unadmitted(o).until = 0 /\ Unadmitted(o).snapshot = o.snapshot
           /\ Unadmitted(o).finished = o.finished
BY DEF Unadmitted, Object

-----------------------------------------------------------------------------
\* Type correctness.

\* Where a spec is needed there is one: in stored objects, in what was
\* delivered, and in the copies MaintenanceJobs are created from.  Likewise a
\* worker about to offer a job has one to offer.
SpecsKnown ==
    /\ \A m \in Names :
        /\ Live(m) => api[m].spec \in Specs
        /\ \A h \in watch[m] : h.spec \in Specs
        /\ m \in cached \/ ~seen[m].gone => seen[m].spec \in Specs
    /\ pc["sched"] \in {"mark", "create"} => copy["sched"].snapshot \in Specs
    /\ pc["worker"] \in {"next", "retry"} => action \in JobActions

TInv == TypeOK /\ SpecsKnown

\* A write to the API server.
LEMMA PutType ==
    ASSUME TInv, NEW m \in Names, NEW o \in Object, Put(m, o),
           o.spec \in Specs
    PROVE  /\ api' \in [Names -> Object]
           /\ watch' \in [Names -> SUBSET Object]
           /\ \A n \in Names : api'[n].gone \/ api'[n].spec \in Specs
           /\ \A n \in Names : \A h \in watch'[n] : h.spec \in Specs
<1>1. api[m] \in Object
    BY DEF TInv, TypeOK
<1>2. Stored(m, o) \in Object /\ Stored(m, o).spec \in Specs
    BY <1>1, StoredFacts
<1>3. /\ api' = [api EXCEPT ![m] = Stored(m, o)]
      /\ watch' = [watch EXCEPT ![m] = @ \cup {Stored(m, o)}]
    BY DEF Put
<1> HIDE DEF Put
<1> QED
    BY <1>2, <1>3 DEF TInv, TypeOK, SpecsKnown, Live

LEMMA InitType == Init => TInv
<1> SUFFICES ASSUME Init PROVE TInv
    OBVIOUS
<1>1. TypeOK
    BY NothingFacts DEF Init, TypeOK, Threads, WorkerPCs, SchedPCs, EnqueuePCs
<1>2. SpecsKnown
    BY NothingFacts DEF Init, SpecsKnown, Live, Threads
<1> QED
    BY <1>1, <1>2 DEF TInv

\* Users and the garbage collector.
LEMMA UsersType == TInv /\ (Users \/ Tick) => TInv'
<1> SUFFICES ASSUME TInv, Users \/ Tick PROVE TInv'
    OBVIOUS
<1>1. CASE Tick
    BY <1>1 DEF Tick, TInv, TypeOK, SpecsKnown, controller, Live
<1>2. CASE Users
    <2>1. PICK m \in Names :
            \E o \in Object : o.spec \in Specs /\ Put(m, o)
                /\ UNCHANGED <<now, controller, jobs, errors, crashes>> /\ userOps' \in Nat
        <3>1. PICK m \in Names : \/ \E s \in Specs : Create(m, s) \/ EditSpec(m, s)
                                 \/ Delete(m) \/ CollectGarbage(m)
            BY <1>2 DEF Users
        <3>2. api[m] \in Object /\ now \in Nat /\ userOps \in Nat
            BY DEF TInv, TypeOK
        <3>3. Live(m) => api[m].spec \in Specs
            BY DEF TInv, SpecsKnown
        <3>4. ASSUME NEW s \in Specs, Create(m, s)
              PROVE  \E o \in Object : o.spec \in Specs /\ Put(m, o)
                /\ UNCHANGED <<now, controller, jobs, errors, crashes>> /\ userOps' \in Nat
            <4>1. Put(m, Fresh(api[m], s))
                BY <3>4 DEF Create
            <4>2. Fresh(api[m], s) \in Object /\ Fresh(api[m], s).spec \in Specs
                BY <3>2, FreshFacts
            <4> QED
                BY <3>2, <3>4, <4>1, <4>2 DEF Create, UserOp
        <3>5. ASSUME NEW s \in Specs, EditSpec(m, s)
              PROVE  \E o \in Object : o.spec \in Specs /\ Put(m, o)
                /\ UNCHANGED <<now, controller, jobs, errors, crashes>> /\ userOps' \in Nat
            <4>1. Put(m, Edited(api[m], s))
                BY <3>5 DEF EditSpec
            <4>2. Edited(api[m], s) \in Object /\ Edited(api[m], s).spec \in Specs
                BY <3>2, EditedFacts
            <4> QED
                BY <3>2, <3>5, <4>1, <4>2 DEF EditSpec, UserOp
        <3>6. CASE Delete(m)
            <4>1. Live(m) /\ (Put(m, Removed(api[m])) \/ Put(m, Marked(api[m])))
                BY <3>6 DEF Delete
            <4>2. /\ Removed(api[m]) \in Object /\ Removed(api[m]).spec \in Specs
                  /\ Marked(api[m]) \in Object /\ Marked(api[m]).spec \in Specs
                BY <3>2, <3>3, <4>1, RemovedFacts, MarkedFacts
            <4> QED
                BY <3>2, <3>6, <4>1, <4>2 DEF Delete, UserOp
        <3>7. CASE CollectGarbage(m)
            BY <3>2, <3>3, <3>7, RemovedFacts DEF CollectGarbage
        <3> QED
            BY <3>1, <3>4, <3>5, <3>6, <3>7
    <2> QED
        BY <2>1, PutType DEF TInv, TypeOK, SpecsKnown, controller, Live
<1> QED
    BY <1>1, <1>2

\* The informer and the timers.
LEMMA InformerType == TInv /\ (Informer \/ Timers) => TInv'
<1> SUFFICES ASSUME TInv, Informer \/ Timers PROVE TInv'
    OBVIOUS
<1> USE DEF TInv, Jobs, JobsOn
<1>1. ASSUME NEW m \in Names, Deliver(m) PROVE TInv'
    <2>1. PICK h \in watch[m] :
            /\ watch' = [watch EXCEPT ![m] = @ \ {h}]
            /\ seen' = [seen EXCEPT ![m] = h]
            /\ cached' = cached \cup {m}
            /\ notice' = {Job(Event(m, h), m)}
            /\ UNCHANGED <<now, api, jobQ, delayed, tq, ready, pc, action, key, copy,
                           jobs, userOps, errors, crashes>>
        BY <1>1 DEF Deliver
    <2>2. h \in Object /\ h.spec \in Specs
        BY DEF TypeOK, SpecsKnown
    <2>3. Job(Event(m, h), m) \in Jobs
        BY DEF Event, Job, JobActions
    <2>4. TypeOK'
        BY <2>1, <2>2, <2>3 DEF TypeOK
    <2>5. SpecsKnown'
        BY <2>1, <2>2 DEF TypeOK, SpecsKnown, Live
    <2> QED
        BY <2>4, <2>5
<1>4. ASSUME NEW j \in notice, Announce(j) PROVE TInv'
    <2>1. /\ notice' = {} /\ Schedule(j.action, j.key)
          /\ UNCHANGED <<now, api, watch, seen, cached, tq, ready, pc, action, key, copy,
                         jobs, userOps, errors, crashes>>
        BY <1>4 DEF Announce
    <2>2. j.action \in JobActions /\ j.key \in Names
        BY DEF TypeOK
    <2>3. Job(j.action, j.key) \in Jobs
        BY <2>2 DEF Job
    <2>4. Without(jobQ, j.action, j.key) \in Seq(Jobs)
        BY WithoutType DEF TypeOK
    <2>5. Offer(Without(jobQ, j.action, j.key), Job(j.action, j.key)) \in Seq(Jobs)
        BY <2>3, <2>4, OfferType
    <2>6. jobQ' \in Seq(Jobs) /\ delayed' \subseteq Jobs
        BY <2>1, <2>5 DEF Schedule, TypeOK
    <2>7. TypeOK'
        BY <2>1, <2>6 DEF TypeOK
    <2>8. SpecsKnown'
        BY <2>1 DEF SpecsKnown, Live
    <2> QED
        BY <2>7, <2>8
<1>2. ASSUME NEW m \in Names, Wake(m) PROVE TInv'
    <2>1. PICK i \in DOMAIN tq[m] : tq' = [tq EXCEPT ![m] = RemoveAt(@, i)]
        BY <1>2 DEF Wake
    <2>2. RemoveAt(tq[m], i) \in Seq(Nat)
        BY RemoveAtFacts DEF TypeOK
    <2>3. tq' \in [Names -> Seq(Nat)] /\ ready' \in Seq(Names)
        BY <1>2, <2>1, <2>2 DEF Wake, TypeOK
    <2>5. UNCHANGED <<now, api, watch, seen, cached, notice, jobQ, delayed, pc, action, key,
                      copy, jobs, userOps, errors, crashes>>
        BY <1>2 DEF Wake
    <2>6. TypeOK'
        BY <2>3, <2>5 DEF TypeOK
    <2>4. SpecsKnown'
        BY <2>5 DEF SpecsKnown, Live
    <2> QED
        BY <2>4, <2>6
<1>3. ASSUME NEW j \in delayed, FireDelayed(j) PROVE TInv'
    <2>1. Offer(jobQ, j) \in Seq(Jobs)
        BY OfferType DEF TypeOK
    <2>2. TypeOK'
        BY <1>3, <2>1 DEF FireDelayed, TypeOK
    <2>3. SpecsKnown'
        BY <1>3 DEF FireDelayed, SpecsKnown, Live
    <2> QED
        BY <2>2, <2>3
<1> QED
    BY <1>1, <1>2, <1>3, <1>4 DEF Informer, Timers

-----------------------------------------------------------------------------
\* Where a step leaves a goroutine.
LEMMA WorkerGoesType ==
    ASSUME TInv, NEW m \in Names, NEW h \in Object,
           NEW p \in WorkerPCs \cup EnqueuePCs, NEW a \in JobActions \cup {"None"},
           WorkerGoes(p, a, m, h), p \in {"next", "retry"} => a \in JobActions
    PROVE  /\ pc' \in [Threads -> WorkerPCs \cup SchedPCs \cup EnqueuePCs]
           /\ pc'["worker"] = p /\ pc'["sched"] = pc["sched"]
           /\ action' \in JobActions \cup {"None"}
           /\ pc'["worker"] \in {"next", "retry"} => action' \in JobActions
           /\ key' \in [Threads -> Names] /\ copy' \in [Threads -> Object]
           /\ copy'["sched"] = copy["sched"]
BY DEF WorkerGoes, TInv, TypeOK, Threads

LEMMA SchedGoesType ==
    ASSUME TInv, NEW m \in Names, NEW h \in Object,
           NEW p \in SchedPCs \cup EnqueuePCs, SchedGoes(p, m, h),
           p \in {"mark", "create"} => h.snapshot \in Specs
    PROVE  /\ pc' \in [Threads -> WorkerPCs \cup SchedPCs \cup EnqueuePCs]
           /\ pc'["sched"] = p /\ pc'["worker"] = pc["worker"]
           /\ action' = action
           /\ key' \in [Threads -> Names] /\ copy' \in [Threads -> Object]
           /\ pc'["sched"] \in {"mark", "create"} => copy'["sched"].snapshot \in Specs
BY DEF SchedGoes, TInv, TypeOK, Threads

LEMMA AcquireType ==
    ASSUME TInv, NEW m \in Names, NEW a \in JobActions, Acquire(a, m)
    PROVE  jobQ' \in Seq(Jobs)
<1>1. jobQ \in Seq(Jobs) /\ jobQ # << >> /\ jobQ' = Tail(jobQ)
    BY DEF Acquire, TInv, TypeOK
<1> QED
    BY <1>1

\* The worker's handlers.
LEMMA HandleType == TInv /\ (\E m \in Names : Handle(m)) => TInv'
<1> SUFFICES ASSUME TInv, NEW m \in Names, Handle(m) PROVE TInv'
    OBVIOUS
<1> USE DEF TInv
<1>1. /\ seen[m] \in Object /\ Nothing \in Object
      /\ m \in cached => seen[m].spec \in Specs
    BY NothingFacts DEF TypeOK, SpecsKnown
<1>2. \E p \in WorkerPCs \cup EnqueuePCs, b \in JobActions \cup {"None"}, h \in Object :
        WorkerGoes(p, b, m, h) /\ (p \in {"next", "retry"} => b \in JobActions)
    <2>1. ASSUME NEW a \in JobActions, HandleWithoutCache(a, m)
          PROVE  \E p \in WorkerPCs \cup EnqueuePCs, b \in JobActions \cup {"None"},
                    h \in Object : /\ WorkerGoes(p, b, m, h)
                                   /\ p \in {"next", "retry"} => b \in JobActions
        BY <1>1, <2>1 DEF HandleWithoutCache, WorkerPCs
    <2>2. CASE OnMaintenanceAdded(m)
        <3>1. Admit(seen[m]) \in Object
            BY <1>1, <2>2, AdmitFacts DEF OnMaintenanceAdded
        <3> QED
            BY <1>1, <2>2, <3>1
            DEF OnMaintenanceAdded, WorkerRests, WorkerPCs, JobActions
    <2>3. CASE OnMaintenanceUpdated(m)
        BY <1>1, <2>3 DEF OnMaintenanceUpdated, WorkerRests, WorkerPCs, EnqueuePCs, JobActions
    <2>4. CASE OnMaintenanceDeleting(m)
        BY <1>1, <2>4 DEF OnMaintenanceDeleting, WorkerRests, WorkerPCs, JobActions
    <2>5. CASE OnMaintenanceDeleted(m)
        BY <1>1, <2>5 DEF OnMaintenanceDeleted, WorkerRests, WorkerPCs, JobActions
    <2> QED
        BY <2>1, <2>2, <2>3, <2>4, <2>5 DEF Handle
<1>3. \E a \in JobActions : Acquire(a, m)
    BY DEF Handle, HandleWithoutCache, OnMaintenanceAdded, OnMaintenanceUpdated,
           OnMaintenanceDeleting, OnMaintenanceDeleted, JobActions
<1>4. cached' \subseteq cached
    BY DEF Handle, HandleWithoutCache, OnMaintenanceAdded, OnMaintenanceUpdated,
           OnMaintenanceDeleting, OnMaintenanceDeleted
<1>5. tq' \in [Names -> Seq(Nat)]
    <2>1. tq \in [Names -> Seq(Nat)]
        BY DEF TypeOK
    <2>2. CASE UNCHANGED tq
        BY <2>1, <2>2
    <2>3. CASE tq' = [tq EXCEPT ![m] = Front(@)] /\ tq[m] # << >>
        <3>1. Front(tq[m]) \in Seq(Nat)
            BY <2>1, <2>3 DEF Front
        <3> QED
            BY <2>1, <2>3, <3>1
    <2> QED
        BY <2>2, <2>3
        DEF Handle, HandleWithoutCache, OnMaintenanceAdded, OnMaintenanceUpdated,
            OnMaintenanceDeleting, OnMaintenanceDeleted
<1>6. TypeOK'
    BY <1>2, <1>3, <1>4, <1>5, WorkerGoesType, AcquireType DEF Acquire, TypeOK
<1>7. SpecsKnown'
    BY <1>2, <1>3, <1>4, WorkerGoesType DEF Acquire, SpecsKnown, Live
<1> QED
    BY <1>6, <1>7

\* A successful or lost UpdateStatus keeps the stored objects what they are.
LEMMA AppliedType ==
    ASSUME TInv, NEW m \in Names, NEW h \in Object, Applied(m, h)
    PROVE  /\ api' \in [Names -> Object]
           /\ watch' \in [Names -> SUBSET Object]
           /\ \A n \in Names : api'[n].gone \/ api'[n].spec \in Specs
           /\ \A n \in Names : \A g \in watch'[n] : g.spec \in Specs
<1>1. api[m] \in Object /\ api[m].spec \in Specs
    BY DEF Applied, Accepts, TInv, TypeOK, SpecsKnown
<1>2. WithStatus(api[m], h) \in Object /\ WithStatus(api[m], h).spec \in Specs
    BY <1>1, WithStatusFacts
<1>3. Put(m, WithStatus(api[m], h))
    BY DEF Applied
<1> HIDE DEF Put
<1> QED
    BY <1>2, <1>3, PutType

LEMMA CallFailsType ==
    ASSUME TInv, NEW m \in Names, NEW h \in Object, CallFails(m, h)
    PROVE  /\ api' \in [Names -> Object]
           /\ watch' \in [Names -> SUBSET Object]
           /\ \A n \in Names : api'[n].gone \/ api'[n].spec \in Specs
           /\ \A n \in Names : \A g \in watch'[n] : g.spec \in Specs
           /\ errors' \in Nat
<1>1. errors' \in Nat
    BY DEF CallFails, TInv, TypeOK
<1>2. CASE UNCHANGED <<api, watch>>
    BY <1>1, <1>2 DEF TInv, TypeOK, SpecsKnown, Live
<1>3. CASE Applied(m, h)
    BY <1>1, <1>3, AppliedType
<1> QED
    BY <1>2, <1>3 DEF CallFails

\* The worker after its handlers.
LEMMA WorkerType ==
    TInv /\ (OfferNext \/ Backoff \/ SendAdmitted \/ SendDelete) => TInv'
<1> SUFFICES ASSUME TInv, OfferNext \/ Backoff \/ SendAdmitted \/ SendDelete PROVE TInv'
    OBVIOUS
<1> DEFINE m == key["worker"]
           h == copy["worker"]
<1>1. /\ m \in Names /\ h \in Object /\ Nothing \in Object /\ api[m] \in Object
      /\ "idle" \in WorkerPCs /\ "next" \in WorkerPCs /\ "retry" \in WorkerPCs
      /\ "None" \in JobActions \cup {"None"} /\ "Update" \in JobActions
      /\ "Add" \in JobActions /\ "Delete" \in JobActions
      /\ jobQ \in Seq(Jobs) /\ Jobs = JobsOn(Names)
    BY NothingFacts DEF TInv, TypeOK, Threads, WorkerPCs, JobActions, Jobs, JobsOn
<1> HIDE DEF m, h
<1>2. CASE OfferNext \/ Backoff
    <2>1. WorkerRests(m) /\ UNCHANGED <<now, api, watch, seen, cached, notice, tq, ready,
                                        jobs, userOps, errors, crashes>>
        BY <1>2 DEF OfferNext, Backoff, m
    <2>2. ASSUME action \in JobActions
          PROVE  /\ Offer(jobQ, Job(action, m)) \in Seq(Jobs)
                 /\ Job(action, m) \in Jobs
        <3>1. Job(action, m) \in JobsOn(Names)
            BY <1>1, <2>2 DEF Job, JobsOn
        <3> QED
            BY <1>1, <3>1, OfferType
    <2>3. action \in JobActions
        BY <1>2 DEF OfferNext, Backoff, TInv, SpecsKnown
    <2>4. jobQ' \in Seq(Jobs) /\ delayed' \subseteq Jobs
        BY <1>1, <1>2, <2>2, <2>3 DEF OfferNext, Backoff, TInv, TypeOK, m
    <2> QED
        BY <1>1, <2>1, <2>4, WorkerGoesType
        DEF WorkerRests, TInv, TypeOK, SpecsKnown, Live
<1>3. CASE SendAdmitted
    <2>1. \E p \in WorkerPCs, a \in JobActions \cup {"None"} :
            WorkerGoes(p, a, m, Nothing) /\ (p \in {"next", "retry"} => a \in JobActions)
        BY <1>1, <1>3 DEF SendAdmitted, WorkerRests, m
    <2>2. /\ api' \in [Names -> Object] /\ watch' \in [Names -> SUBSET Object]
          /\ \A n \in Names : api'[n].gone \/ api'[n].spec \in Specs
          /\ \A n \in Names : \A g \in watch'[n] : g.spec \in Specs
          /\ errors' \in Nat
        <3>1. CASE Applied(m, h) /\ UNCHANGED errors
            BY <1>1, <3>1, AppliedType DEF TInv, TypeOK
        <3>2. CASE UNCHANGED <<api, watch, errors>>
            BY <3>2 DEF TInv, TypeOK, SpecsKnown, Live
        <3>3. CASE CallFails(m, h)
            BY <1>1, <3>3, CallFailsType
        <3> QED
            BY <1>3, <3>1, <3>2, <3>3 DEF SendAdmitted, m, h
    <2> QED
        BY <1>1, <1>3, <2>1, <2>2, WorkerGoesType
        DEF SendAdmitted, TInv, TypeOK, SpecsKnown, Live
<1>4. CASE SendDelete
    <2>1. \E p \in WorkerPCs, a \in JobActions \cup {"None"} :
            WorkerGoes(p, a, m, Nothing) /\ (p \in {"next", "retry"} => a \in JobActions)
        BY <1>1, <1>4 DEF SendDelete, WorkerRests, m
    <2>2. /\ api' \in [Names -> Object] /\ watch' \in [Names -> SUBSET Object]
          /\ \A n \in Names : api'[n].gone \/ api'[n].spec \in Specs
          /\ \A n \in Names : \A g \in watch'[n] : g.spec \in Specs
        <3>1. CASE Live(m) /\ Put(m, Removed(api[m]))
            <4>1. Removed(api[m]) \in Object /\ Removed(api[m]).spec \in Specs
                BY <1>1, <3>1, RemovedFacts DEF TInv, SpecsKnown
            <4> QED
                BY <1>1, <3>1, <4>1, PutType
        <3>2. CASE UNCHANGED <<api, watch>>
            BY <3>2 DEF TInv, TypeOK, SpecsKnown, Live
        <3> QED
            BY <1>4, <3>1, <3>2 DEF SendDelete, m
    <2>3. errors' \in Nat
        BY <1>4 DEF SendDelete, TInv, TypeOK
    <2> QED
        BY <1>1, <1>4, <2>1, <2>2, <2>3, WorkerGoesType
        DEF SendDelete, TInv, TypeOK, SpecsKnown, Live
<1> QED
    BY <1>2, <1>3, <1>4

\* The end of the cache entry.
LEMMA CleanupType == TInv /\ (FindPending \/ DropCached) => TInv'
<1> SUFFICES ASSUME TInv, FindPending \/ DropCached PROVE TInv'
    OBVIOUS
<1> DEFINE m == key["worker"]
<1>1. /\ m \in Names /\ Nothing \in Object
      /\ "idle" \in WorkerPCs /\ "drop" \in WorkerPCs
      /\ "None" \in JobActions \cup {"None"} /\ "Cleanup" \in JobActions
    BY NothingFacts DEF TInv, TypeOK, Threads, WorkerPCs, JobActions
<1>2. /\ WorkerGoes("idle", "None", m, Nothing) \/ WorkerGoes("drop", "Cleanup", m, Nothing)
      /\ cached' \subseteq cached
      /\ UNCHANGED <<now, api, watch, seen, notice, jobQ, delayed, tq, ready, jobs,
                     userOps, errors, crashes>>
    BY DEF FindPending, DropCached, WorkerRests
<1> HIDE DEF m
<1> QED
    BY <1>1, <1>2, WorkerGoesType DEF TInv, TypeOK, SpecsKnown, Live

\* The scheduler.
LEMMA SchedType ==
    TInv /\ ((\E n \in Names : ScheduleMaintenance(n)) \/ MarkScheduled \/ CreateMaintenanceJobs)
        => TInv'
<1> SUFFICES ASSUME TInv, \/ \E n \in Names : ScheduleMaintenance(n)
                          \/ MarkScheduled \/ CreateMaintenanceJobs
             PROVE  TInv'
    OBVIOUS
<1> DEFINE m == key["sched"]
           h == copy["sched"]
<1>1. /\ m \in Names /\ h \in Object /\ Nothing \in Object /\ api[m] \in Object
      /\ "idle" \in SchedPCs /\ "mark" \in SchedPCs /\ "create" \in SchedPCs
      /\ "enqueue" \in EnqueuePCs
      /\ "enqueue" \notin {"mark", "create"}
    BY NothingFacts DEF TInv, TypeOK, Threads, SchedPCs, EnqueuePCs
<1> HIDE DEF m, h
<1>2. ASSUME NEW n \in Names, ScheduleMaintenance(n) PROVE TInv'
    <2>1. /\ seen[n] \in Object /\ Snapshot(seen[n]) \in Object
          /\ Snapshot(seen[n]).spec = seen[n].spec /\ Snapshot(seen[n]).gone = seen[n].gone
          /\ Snapshot(seen[n]).snapshot = seen[n].spec
          /\ ~seen[n].gone => seen[n].spec \in Specs
          /\ seen[n].snapshot # NoSpec => seen[n].snapshot \in Specs
        <3>1. seen[n] \in Object
            BY DEF TInv, TypeOK
        <3> QED
            BY <3>1, SnapshotFacts, FieldTypes DEF TInv, SpecsKnown
    <2>2. ready' \in Seq(Names)
        <3>1. ready \in Seq(Names) /\ ready # << >> /\ ready' = Tail(ready)
            BY <1>2 DEF ScheduleMaintenance, TInv, TypeOK
        <3> QED
            BY <3>1
    <2>3. \E p \in SchedPCs \cup EnqueuePCs, g \in Object :
            SchedGoes(p, n, g) /\ (p \in {"mark", "create"} => g.snapshot \in Specs)
        <3>1. CASE SchedGoes("enqueue", n, Nothing)
            BY <1>1, <3>1
        <3>2. CASE ~seen[n].gone /\ Scheduled(seen[n]) /\ SchedGoes("create", n, seen[n])
            BY <1>1, <2>1, <3>2 DEF Scheduled
        <3>3. CASE ~seen[n].gone /\ SchedGoes("mark", n, Snapshot(seen[n]))
            BY <1>1, <2>1, <3>3
        <3> QED
            BY <1>2, <3>1, <3>2, <3>3 DEF ScheduleMaintenance
    <2>4. seen' = seen \/ (~seen[n].gone /\ seen' = [seen EXCEPT ![n] = Snapshot(seen[n])])
        BY <1>2 DEF ScheduleMaintenance
    <2>5. UNCHANGED <<now, api, watch, cached, notice, jobQ, delayed, tq, jobs,
                      userOps, errors, crashes>>
        BY <1>2 DEF ScheduleMaintenance
    <2>6. /\ seen' \in [Names -> Object]
          /\ \A k \in Names : k \in cached \/ ~seen'[k].gone => seen'[k].spec \in Specs
        <3>1. /\ seen \in [Names -> Object]
              /\ \A k \in Names : k \in cached \/ ~seen[k].gone => seen[k].spec \in Specs
            BY DEF TInv, TypeOK, SpecsKnown
        <3>2. CASE UNCHANGED seen
            BY <3>1, <3>2
        <3>3. CASE ~seen[n].gone /\ seen' = [seen EXCEPT ![n] = Snapshot(seen[n])]
            BY <2>1, <3>1, <3>3
        <3> QED
            BY <2>4, <3>2, <3>3
    <2> HIDE DEF TInv
    <2>7. /\ pc' \in [Threads -> WorkerPCs \cup SchedPCs \cup EnqueuePCs]
          /\ pc'["sched"] \in SchedPCs \cup EnqueuePCs /\ pc'["worker"] = pc["worker"]
          /\ action' = action
          /\ key' \in [Threads -> Names] /\ copy' \in [Threads -> Object]
          /\ pc'["sched"] \in {"mark", "create"} => copy'["sched"].snapshot \in Specs
        BY <2>3, SchedGoesType
    <2> QED
        BY <2>2, <2>5, <2>6, <2>7 DEF TInv, TypeOK, SpecsKnown, Live
<1>3. CASE MarkScheduled
    <2>1. /\ api' \in [Names -> Object] /\ watch' \in [Names -> SUBSET Object]
          /\ \A n \in Names : api'[n].gone \/ api'[n].spec \in Specs
          /\ \A n \in Names : \A g \in watch'[n] : g.spec \in Specs
          /\ errors' \in Nat
        <3>1. CASE Applied(m, h) /\ UNCHANGED errors
            BY <1>1, <3>1, AppliedType DEF TInv, TypeOK
        <3>2. CASE UNCHANGED <<api, watch, errors>>
            BY <3>2 DEF TInv, TypeOK, SpecsKnown, Live
        <3>3. CASE CallFails(m, h)
            BY <1>1, <3>3, CallFailsType
        <3> QED
            BY <1>3, <3>1, <3>2, <3>3 DEF MarkScheduled, m, h
    <2>2. \E p \in SchedPCs \cup EnqueuePCs, g \in Object :
            SchedGoes(p, m, g) /\ (p \in {"mark", "create"} => g.snapshot \in Specs)
        <3>1. /\ Stored(m, WithStatus(api[m], h)) \in Object
              /\ Stored(m, WithStatus(api[m], h)).snapshot = h.snapshot
            BY <1>1, WithStatusFacts, StoredFacts
        <3>2. h.snapshot \in Specs
            BY <1>3 DEF MarkScheduled, TInv, SpecsKnown, h
        <3> QED
            BY <1>1, <1>3, <3>1, <3>2 DEF MarkScheduled, m, h
    <2>3. UNCHANGED <<now, seen, cached, notice, jobQ, delayed, tq, ready, jobs,
                      userOps, crashes>>
        BY <1>3 DEF MarkScheduled
    <2> QED
        BY <1>1, <2>1, <2>2, <2>3, SchedGoesType DEF TInv, TypeOK, SpecsKnown, Live
<1>4. CASE CreateMaintenanceJobs
    <2>1. [uid |-> h.uid, spec |-> h.snapshot] \in [uid : Nat, spec : Specs]
        BY <1>1, <1>4, FieldTypes DEF CreateMaintenanceJobs, TInv, SpecsKnown, h
    <2>2. jobs' \in [Names -> SUBSET [uid : Nat, spec : Specs]]
        <3>1. jobs \in [Names -> SUBSET [uid : Nat, spec : Specs]]
            BY DEF TInv, TypeOK
        <3>2. \/ UNCHANGED jobs
              \/ jobs' = [jobs EXCEPT ![m] = @ \cup {[uid |-> h.uid, spec |-> h.snapshot]}]
            BY <1>4 DEF CreateMaintenanceJobs, m, h
        <3> QED
            BY <1>1, <2>1, <3>1, <3>2
    <2>3. SchedGoes("enqueue", m, Nothing)
        BY <1>4 DEF CreateMaintenanceJobs, m
    <2>4. UNCHANGED <<now, api, watch, seen, cached, notice, jobQ, delayed, tq, ready,
                      userOps, errors, crashes>>
        BY <1>4 DEF CreateMaintenanceJobs
    <2>5. /\ pc' \in [Threads -> WorkerPCs \cup SchedPCs \cup EnqueuePCs]
          /\ pc'["sched"] \in EnqueuePCs \cup SchedPCs /\ pc'["worker"] = pc["worker"]
          /\ pc'["sched"] = "enqueue" /\ action' = action
          /\ key' \in [Threads -> Names] /\ copy' \in [Threads -> Object]
        BY <1>1, <2>3, SchedGoesType
    <2> QED
        BY <1>1, <2>2, <2>4, <2>5 DEF TInv, TypeOK, SpecsKnown, Live
<1> QED
    BY <1>2, <1>3, <1>4
\* A restart forgets everything but what the API server stores.
LEMMA RestartedType ==
    ASSUME TInv, Restarted, watch' = Relisted(api'),
           api' \in [Names -> Object],
           \A n \in Names : api'[n].gone \/ api'[n].spec \in Specs,
           now' = now, jobs' = jobs,
           userOps' \in Nat, errors' \in Nat, crashes' \in Nat
    PROVE  TInv'
<1>1. /\ seen' \in [Names -> Object] /\ cached' = {} /\ notice' = {} /\ jobQ' \in Seq(Jobs)
      /\ delayed' = {} /\ tq' \in [Names -> Seq(Nat)] /\ ready' \in Seq(Names)
      /\ action' = "None" /\ key' \in [Threads -> Names]
      /\ copy' \in [Threads -> Object]
      /\ \A n \in Names : seen'[n].gone
    BY NothingFacts DEF Restarted, TInv, TypeOK
<1>2. /\ pc' \in [Threads -> {"idle"}]
      /\ pc'["worker"] = "idle" /\ pc'["sched"] = "idle"
    BY DEF Restarted, Threads
<1>3. /\ watch' \in [Names -> SUBSET Object]
      /\ \A n \in Names : \A h \in watch'[n] : h.spec \in Specs
    BY DEF Relisted
<1> QED
    BY <1>1, <1>2, <1>3
    DEF TInv, TypeOK, SpecsKnown, Live, WorkerPCs, SchedPCs, EnqueuePCs

\* Where enqueueMaintenanceForScheduling leaves the goroutine that called it.
LEMMA GoesType ==
    ASSUME TInv, NEW t \in Threads, NEW m \in Names, NEW h \in Object,
           NEW p \in EnqueuePCs, Goes(t, p, m, h)
    PROVE  /\ pc' \in [Threads -> WorkerPCs \cup SchedPCs \cup EnqueuePCs]
           /\ pc'["worker"] \in WorkerPCs \cup EnqueuePCs
           /\ pc'["sched"] \in SchedPCs \cup EnqueuePCs
           /\ action' \in JobActions \cup {"None"}
           /\ key' \in [Threads -> Names] /\ copy' \in [Threads -> Object]
           /\ pc'["worker"] \in {"next", "retry"} => action' \in JobActions
           /\ pc'["sched"] \in {"mark", "create"} => copy'["sched"].snapshot \in Specs
<1>1. /\ p \notin {"next", "retry", "mark", "create"}
      /\ "Update" \in JobActions
    BY DEF EnqueuePCs, JobActions
<1>2. CASE t = "worker"
    <2>1. WorkerGoes(p, "Update", m, h)
        BY <1>2 DEF Goes
    <2> QED
        BY <1>1, <2>1, WorkerGoesType DEF TInv, TypeOK, SpecsKnown
<1>3. CASE t = "sched"
    <2>1. SchedGoes(p, m, h)
        BY <1>3 DEF Goes
    <2> QED
        BY <1>1, <2>1, SchedGoesType DEF TInv, TypeOK, SpecsKnown
<1> QED
    BY <1>2, <1>3 DEF Threads

LEMMA RestsType ==
    ASSUME TInv, NEW t \in Threads, NEW m \in Names,
           Rests(t, m) \/ (t = "worker" /\ WorkerGoes("retry", "Update", m, Nothing))
    PROVE  /\ pc' \in [Threads -> WorkerPCs \cup SchedPCs \cup EnqueuePCs]
           /\ pc'["worker"] \in WorkerPCs \cup EnqueuePCs
           /\ pc'["sched"] \in SchedPCs \cup EnqueuePCs
           /\ action' \in JobActions \cup {"None"}
           /\ key' \in [Threads -> Names] /\ copy' \in [Threads -> Object]
           /\ pc'["worker"] \in {"next", "retry"} => action' \in JobActions
           /\ pc'["sched"] \in {"mark", "create"} => copy'["sched"].snapshot \in Specs
<1>1. /\ "idle" \in WorkerPCs /\ "idle" \in SchedPCs /\ "retry" \in WorkerPCs
      /\ "Update" \in JobActions /\ Nothing \in Object
    BY NothingFacts DEF WorkerPCs, SchedPCs, JobActions
<1>2. CASE WorkerGoes("retry", "Update", m, Nothing)
    BY <1>1, <1>2, WorkerGoesType DEF TInv, TypeOK, SpecsKnown
<1>3. CASE WorkerRests(m)
    BY <1>1, <1>3, WorkerGoesType DEF WorkerRests, TInv, TypeOK, SpecsKnown
<1>4. CASE SchedRests(m)
    BY <1>1, <1>4, SchedGoesType DEF SchedRests, TInv, TypeOK, SpecsKnown
<1> QED
    BY <1>2, <1>3, <1>4 DEF Rests

LEMMA EnqueueType == \A t \in Threads : TInv /\ Enqueue(t) => TInv'
<1> SUFFICES ASSUME NEW t \in Threads, TInv, Enqueue(t) PROVE TInv'
    OBVIOUS
<1> DEFINE m == key[t]
           h == seen[m]
<1>1. /\ m \in Names /\ h \in Object /\ Nothing \in Object /\ api[m] \in Object
      /\ copy[t] \in Object /\ pc \in [Threads -> WorkerPCs \cup SchedPCs \cup EnqueuePCs]
      /\ {"finish", "offerDelay", "offerTime"} \subseteq EnqueuePCs
    BY NothingFacts DEF TInv, TypeOK, EnqueuePCs
<1>2. CASE EnqueueStops(t)
    <2>1. Rests(t, m) \/ (t = "worker" /\ WorkerGoes("retry", "Update", m, Nothing))
        BY <1>2 DEF EnqueueStops, Rests, Threads
    <2>2. UNCHANGED <<now, api, watch, seen, cached, notice, jobQ, delayed, tq, ready, jobs,
                      userOps, errors, crashes>>
        BY <1>2 DEF EnqueueStops
    <2> HIDE DEF m
    <2> QED
        BY <1>1, <2>1, <2>2, RestsType DEF TInv, TypeOK, SpecsKnown, Live
<1>3. CASE EnqueueFinishes(t)
    <2>1. /\ ~h.gone /\ seen' = [seen EXCEPT ![m] = Finish(h)]
          /\ Goes(t, "finish", m, Finish(h))
          /\ UNCHANGED <<now, api, watch, cached, notice, jobQ, delayed, tq, ready, jobs,
                         userOps, errors, crashes>>
        BY <1>3 DEF EnqueueFinishes
    <2>2. /\ Finish(h) \in Object /\ Finish(h).spec = h.spec /\ Finish(h).gone = h.gone
          /\ h.spec \in Specs
        BY <1>1, <2>1, FinishFacts DEF TInv, SpecsKnown
    <2>3. /\ seen' \in [Names -> Object]
          /\ \A k \in Names : k \in cached \/ ~seen'[k].gone => seen'[k].spec \in Specs
        <3>1. /\ seen \in [Names -> Object]
              /\ \A k \in Names : k \in cached \/ ~seen[k].gone => seen[k].spec \in Specs
            BY DEF TInv, TypeOK, SpecsKnown
        <3> QED
            BY <1>1, <2>1, <2>2, <3>1
    <2> HIDE DEF m, h
    <2> QED
        BY <1>1, <2>1, <2>2, <2>3, GoesType DEF TInv, TypeOK, SpecsKnown, Live
<1>4. CASE EnqueueOffers(t)
    <2>1. /\ UNCHANGED <<now, api, jobs, userOps, errors, crashes>>
          /\ \/ \E p \in EnqueuePCs :
                  /\ Goes(t, p, m, h)
                  /\ UNCHANGED <<watch, seen, cached, notice, jobQ, delayed, tq, ready>>
             \/ Restarted /\ watch' = Relisted(api)
        BY <1>1, <1>4 DEF EnqueueOffers
    <2>2. CASE Restarted /\ watch' = Relisted(api)
        <3>1. /\ api' \in [Names -> Object] /\ watch' = Relisted(api')
              /\ \A n \in Names : api'[n].gone \/ api'[n].spec \in Specs
              /\ userOps' \in Nat /\ errors' \in Nat /\ crashes' \in Nat
            BY <2>1, <2>2 DEF TInv, TypeOK, SpecsKnown, Live
        <3> QED
            BY <2>1, <2>2, <3>1, RestartedType
    <2>3. CASE \E p \in EnqueuePCs :
                  /\ Goes(t, p, m, h)
                  /\ UNCHANGED <<watch, seen, cached, notice, jobQ, delayed, tq, ready>>
        <3> HIDE DEF m, h
        <3> QED
            BY <1>1, <2>1, <2>3, GoesType DEF TInv, TypeOK, SpecsKnown, Live
    <2> QED
        BY <2>1, <2>2, <2>3
<1>5. CASE SendFinished(t)
    <2>1. /\ UNCHANGED <<now, jobs, userOps, crashes>> /\ errors' \in Nat
        BY <1>5 DEF SendFinished, TInv, TypeOK
    <2>2. WithStatus(api[m], copy[t]) \in Object /\ WithStatus(api[m], copy[t]).spec = api[m].spec
        BY <1>1, WithStatusFacts
    <2>3. CASE Applied(m, copy[t]) /\ Rests(t, m)
               /\ UNCHANGED <<seen, cached, notice, jobQ, delayed, tq, ready>>
        <3> HIDE DEF m
        <3>1. /\ api' \in [Names -> Object] /\ watch' \in [Names -> SUBSET Object]
              /\ \A n \in Names : api'[n].gone \/ api'[n].spec \in Specs
              /\ \A n \in Names : \A g \in watch'[n] : g.spec \in Specs
            BY <1>1, <2>3, AppliedType
        <3> QED
            BY <1>1, <2>1, <2>3, <3>1, RestsType DEF TInv, TypeOK, SpecsKnown, Live
    <2>4. CASE Restarted /\ watch' = Relisted(api') /\
               \/ UNCHANGED api
               \/ /\ Accepts(m, copy[t])
                  /\ api' = [api EXCEPT ![m] = Stored(m, WithStatus(@, copy[t]))]
        <3>1. /\ api' \in [Names -> Object]
              /\ \A n \in Names : api'[n].gone \/ api'[n].spec \in Specs
            <4>1. CASE UNCHANGED api
                BY <4>1 DEF TInv, TypeOK, SpecsKnown, Live
            <4>2. CASE /\ Accepts(m, copy[t])
                       /\ api' = [api EXCEPT ![m] = Stored(m, WithStatus(@, copy[t]))]
                <5>1. /\ Stored(m, WithStatus(api[m], copy[t])) \in Object
                      /\ Stored(m, WithStatus(api[m], copy[t])).spec = api[m].spec
                    BY <1>1, <2>2, StoredFacts
                <5>2. api[m].spec \in Specs
                    BY <1>1, <4>2 DEF Accepts, TInv, SpecsKnown
                <5>3. /\ api \in [Names -> Object]
                      /\ \A n \in Names : api[n].gone \/ api[n].spec \in Specs
                    BY DEF TInv, TypeOK, SpecsKnown, Live
                <5> HIDE DEF m
                <5> QED
                    BY <1>1, <4>2, <5>1, <5>2, <5>3
            <4> QED
                BY <2>4, <4>1, <4>2
        <3>2. userOps' \in Nat /\ crashes' \in Nat
            BY <2>1 DEF TInv, TypeOK
        <3> QED
            BY <2>1, <2>4, <3>1, <3>2, RestartedType
    <2> QED
        BY <1>5, <2>3, <2>4 DEF SendFinished
<1>6. CASE OfferToTQ(t)
    <2> DEFINE due == IF pc[t] = "offerDelay" THEN now + PollInterval ELSE copy[t].since
    <2>1. /\ tq' = [tq EXCEPT ![m] = Append(@, due)] /\ Rests(t, m)
          /\ UNCHANGED <<now, api, watch, seen, cached, notice, jobQ, delayed, ready, jobs,
                         userOps, errors, crashes>>
        BY <1>6 DEF OfferToTQ
    <2>2. due \in Nat
        BY <1>1, FieldTypes, ConfigAssumption DEF TInv, TypeOK
    <2> HIDE DEF due, m
    <2>3. tq' \in [Names -> Seq(Nat)]
        BY <1>1, <2>1, <2>2 DEF TInv, TypeOK
    <2> QED
        BY <1>1, <2>1, <2>3, RestsType DEF TInv, TypeOK, SpecsKnown, Live
<1> QED
    BY <1>2, <1>3, <1>4, <1>5, <1>6 DEF Enqueue

LEMMA CrashType == TInv /\ Crash => TInv'
<1> SUFFICES ASSUME TInv, Crash PROVE TInv'
    OBVIOUS
<1>1. /\ Restarted /\ watch' = Relisted(api') /\ now' = now /\ jobs' = jobs
      /\ api' \in [Names -> Object]
      /\ \A n \in Names : api'[n].gone \/ api'[n].spec \in Specs
      /\ userOps' \in Nat /\ errors' \in Nat /\ crashes' \in Nat
    BY DEF Crash, TInv, TypeOK, SpecsKnown, Live
<1> QED
    BY <1>1, RestartedType

LEMMA TypeNext == TInv /\ [Next]_vars => TInv'
<1> SUFFICES ASSUME TInv, [Next]_vars PROVE TInv'
    OBVIOUS
<1>1. CASE Next
    BY <1>1, UsersType, InformerType, HandleType, CleanupType, WorkerType, SchedType,
       EnqueueType, CrashType
    DEF Next, Worker, Sched, Threads
<1>2. CASE UNCHANGED vars
    BY <1>2 DEF vars, TInv, TypeOK, SpecsKnown, Live
<1> QED
    BY <1>1, <1>2

\* Every variable keeps its type, and no goroutine is ever at a step without
\* the object, the job or the snapshot that the step uses.
THEOREM TypeCorrect == Spec => [](TypeOK /\ SpecsKnown)
<1>1. Spec => []TInv
    BY InitType, TypeNext, PTL DEF Spec
<1> QED
    BY <1>1, PTL DEF TInv
=============================================================================
