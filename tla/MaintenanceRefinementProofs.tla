---------------------- MODULE MaintenanceRefinementProofs ----------------------
(***************************************************************************)
(* Maintenance implements MaintenancePhases: every step of the users, the  *)
(* informer, the goroutines and the crashes is, for the stored objects, a  *)
(* step of the abstract specification or none.                             *)
(***************************************************************************)
EXTENDS MaintenanceSafetyProofs

-----------------------------------------------------------------------------
\* What is seen of a stored object.

PhaseType == [gone : BOOLEAN, deleting : BOOLEAN, spec : Specs \cup {NoSpec},
              admitted : BOOLEAN, since : Nat, until : Nat,
              snapshot : Specs \cup {NoSpec}, finished : BOOLEAN]

LEMMA SameFields ==
    ASSUME NEW p \in PhaseType, NEW q \in PhaseType,
           p.gone = q.gone, p.deleting = q.deleting, p.spec = q.spec,
           p.admitted = q.admitted, p.since = q.since, p.until = q.until,
           p.snapshot = q.snapshot, p.finished = q.finished
    PROVE  p = q
BY DEF PhaseType

LEMMA LiveView ==
    ASSUME NEW o \in Object, ~o.gone
    PROVE  /\ View(o) \in PhaseType
           /\ View(o).gone = FALSE /\ View(o).deleting = o.deleting
           /\ View(o).spec = o.spec /\ View(o).admitted = o.admitted
           /\ View(o).since = o.since /\ View(o).until = o.until
           /\ View(o).snapshot = o.snapshot /\ View(o).finished = o.finished
BY FieldTypes DEF View, PhaseType

LEMMA GoneView ==
    ASSUME NEW o \in Object, o.gone
    PROVE  View(o) = Phases!Gone
<1>1. Phases!Created(NoSpec) \in PhaseType
    BY DEF Phases!Created, PhaseType
<1>2. Phases!Gone \in PhaseType
    BY <1>1 DEF Phases!Gone, PhaseType
<1>3. View(o) \in PhaseType
    BY DEF View, PhaseType
<1>4. /\ View(o).gone = TRUE /\ View(o).deleting = FALSE /\ View(o).spec = NoSpec
      /\ View(o).admitted = FALSE /\ View(o).since = 0 /\ View(o).until = 0
      /\ View(o).snapshot = NoSpec /\ View(o).finished = FALSE
    BY DEF View
<1>5. /\ Phases!Gone.gone = TRUE /\ Phases!Gone.deleting = FALSE
      /\ Phases!Gone.spec = NoSpec /\ Phases!Gone.admitted = FALSE
      /\ Phases!Gone.since = 0 /\ Phases!Gone.until = 0
      /\ Phases!Gone.snapshot = NoSpec /\ Phases!Gone.finished = FALSE
    BY <1>1 DEF Phases!Gone, Phases!Created, PhaseType
<1> HIDE DEF View
<1> QED
    BY <1>2, <1>3, <1>4, <1>5, SameFields

LEMMA ViewGone == ASSUME NEW o \in Object PROVE View(o).gone = o.gone
BY FieldTypes DEF View

\* A write of the API server is a change of the abstract object.
LEMMA WriteChanges ==
    ASSUME TInv, NEW m \in Names, NEW o, api' = [api EXCEPT ![m] = o], now' = now
    PROVE  Phases!Change(m, View(o))
<1>1. api \in [Names -> Object]
    BY DEF TInv, TypeOK
<1>2. [n \in Names |-> View(api'[n])]
        = [[n \in Names |-> View(api[n])] EXCEPT ![m] = View(o)]
    BY <1>1
<1> QED
    BY <1>2 DEF Phases!Change

\* The fields of a stored object that a write leaves alone.
LEMMA StoredView ==
    ASSUME NEW m \in Names, api[m] \in Object, NEW o \in Object, ~o.gone
    PROVE  /\ View(Stored(m, o)) \in PhaseType
           /\ View(Stored(m, o)).gone = FALSE
           /\ View(Stored(m, o)).deleting = o.deleting
           /\ View(Stored(m, o)).spec = o.spec
           /\ View(Stored(m, o)).admitted = o.admitted
           /\ View(Stored(m, o)).since = o.since /\ View(Stored(m, o)).until = o.until
           /\ View(Stored(m, o)).snapshot = o.snapshot
           /\ View(Stored(m, o)).finished = o.finished
<1> DEFINE g == Stored(m, o)
<1>1. /\ g \in Object /\ g.gone = o.gone /\ g.deleting = o.deleting /\ g.spec = o.spec
      /\ g.admitted = o.admitted /\ g.since = o.since /\ g.until = o.until
      /\ g.snapshot = o.snapshot /\ g.finished = o.finished
    BY StoredFacts
<1> HIDE DEF g
<1>2. /\ View(g) \in PhaseType
      /\ View(g).gone = FALSE /\ View(g).deleting = g.deleting
      /\ View(g).spec = g.spec /\ View(g).admitted = g.admitted
      /\ View(g).since = g.since /\ View(g).until = g.until
      /\ View(g).snapshot = g.snapshot /\ View(g).finished = g.finished
    BY <1>1, LiveView
<1> QED
    BY <1>1, <1>2 DEF g

LEMMA StoredIs ==
    ASSUME NEW m \in Names, api[m] \in Object, NEW o \in Object, ~o.gone,
           NEW w \in PhaseType, w.gone = FALSE, w.deleting = o.deleting,
           w.spec = o.spec, w.admitted = o.admitted, w.since = o.since,
           w.until = o.until, w.snapshot = o.snapshot, w.finished = o.finished
    PROVE  View(Stored(m, o)) = w
<1> DEFINE p == View(Stored(m, o))
<1>1. /\ p \in PhaseType /\ p.gone = FALSE /\ p.deleting = o.deleting
      /\ p.spec = o.spec /\ p.admitted = o.admitted /\ p.since = o.since
      /\ p.until = o.until /\ p.snapshot = o.snapshot /\ p.finished = o.finished
    BY StoredView
<1> HIDE DEF p
<1>2. p = w
    BY <1>1, SameFields
<1> QED
    BY <1>2 DEF p

-----------------------------------------------------------------------------
\* Users and deletions.

LEMMA CreateImplements ==
    ASSUME TInv, NEW m \in Names, NEW s \in Specs, Create(m, s)
    PROVE  Phases!Create(m)
<1> DEFINE f == Fresh(api[m], s)
           w == Phases!Created(s)
<1>1. /\ api' = [api EXCEPT ![m] = Stored(m, f)] /\ now' = now /\ api[m].gone
      /\ api[m] \in Object /\ now \in Nat
    BY DEF Create, UserOp, Put, Live, TInv, TypeOK
<1>2. /\ f \in Object /\ f.gone = FALSE /\ f.deleting = FALSE /\ f.spec = s
      /\ f.admitted = FALSE /\ f.since = 0 /\ f.until = 0 /\ f.snapshot = NoSpec
      /\ f.finished = FALSE
    BY <1>1, FreshFacts
<1>3. /\ w \in PhaseType /\ w.gone = FALSE /\ w.deleting = FALSE /\ w.spec = s
      /\ w.admitted = FALSE /\ w.since = 0 /\ w.until = 0 /\ w.snapshot = NoSpec
      /\ w.finished = FALSE
    BY DEF Phases!Created, PhaseType
<1> HIDE DEF f, w
<1>4. View(Stored(m, f)) = w
    BY <1>1, <1>2, <1>3, StoredIs
<1>5. Phases!Change(m, w)
    BY <1>1, <1>4, WriteChanges
<1> QED
    BY <1>1, <1>5, ViewGone DEF Phases!Create, w

LEMMA EditImplements ==
    ASSUME TInv, NEW m \in Names, NEW s \in Specs, EditSpec(m, s)
    PROVE  Phases!Edit(m)
<1> DEFINE e == Edited(api[m], s)
           v == View(api[m])
           w == [v EXCEPT !.spec = s]
<1>1. /\ api' = [api EXCEPT ![m] = Stored(m, e)] /\ now' = now /\ ~api[m].gone
      /\ api[m] \in Object
    BY DEF EditSpec, UserOp, Put, Live, TInv, TypeOK
<1>2. /\ e \in Object /\ e.gone = api[m].gone /\ e.deleting = api[m].deleting
      /\ e.spec = s /\ e.admitted = api[m].admitted /\ e.since = api[m].since
      /\ e.until = api[m].until /\ e.snapshot = api[m].snapshot
      /\ e.finished = api[m].finished
    BY <1>1, EditedFacts
<1> HIDE DEF e, v
<1>3. /\ v \in PhaseType /\ v.gone = FALSE /\ v.deleting = e.deleting
      /\ v.admitted = e.admitted /\ v.since = e.since /\ v.until = e.until
      /\ v.snapshot = e.snapshot /\ v.finished = e.finished
    BY <1>1, <1>2, LiveView DEF v
<1>4. /\ w \in PhaseType /\ w.gone = FALSE /\ w.deleting = e.deleting
      /\ w.spec = s /\ w.admitted = e.admitted /\ w.since = e.since
      /\ w.until = e.until /\ w.snapshot = e.snapshot /\ w.finished = e.finished
    BY <1>3 DEF PhaseType
<1> HIDE DEF w
<1>5. View(Stored(m, e)) = w
    BY <1>1, <1>2, <1>4, StoredIs
<1>6. Phases!Change(m, w)
    BY <1>1, <1>5, WriteChanges
<1> QED
    BY <1>1, <1>6, ViewGone DEF Phases!Edit, v, w

LEMMA MarkImplements ==
    ASSUME TInv, NEW m \in Names, ~api[m].gone, Put(m, Marked(api[m])), now' = now
    PROVE  Phases!Mark(m)
<1> DEFINE e == Marked(api[m])
           v == View(api[m])
           w == [v EXCEPT !.deleting = TRUE]
<1>1. api' = [api EXCEPT ![m] = Stored(m, e)] /\ api[m] \in Object
    BY DEF Put, TInv, TypeOK
<1>2. /\ e \in Object /\ e.gone = api[m].gone /\ e.deleting = TRUE
      /\ e.spec = api[m].spec /\ e.admitted = api[m].admitted /\ e.since = api[m].since
      /\ e.until = api[m].until /\ e.snapshot = api[m].snapshot
      /\ e.finished = api[m].finished
    BY <1>1, MarkedFacts
<1> HIDE DEF e, v
<1>3. /\ v \in PhaseType /\ v.gone = FALSE /\ v.spec = e.spec
      /\ v.admitted = e.admitted /\ v.since = e.since /\ v.until = e.until
      /\ v.snapshot = e.snapshot /\ v.finished = e.finished
    BY <1>1, <1>2, LiveView DEF v
<1>4. /\ w \in PhaseType /\ w.gone = FALSE /\ w.deleting = TRUE
      /\ w.spec = e.spec /\ w.admitted = e.admitted /\ w.since = e.since
      /\ w.until = e.until /\ w.snapshot = e.snapshot /\ w.finished = e.finished
    BY <1>3 DEF PhaseType
<1> HIDE DEF w
<1>5. View(Stored(m, e)) = w
    BY <1>1, <1>2, <1>4, StoredIs
<1>6. Phases!Change(m, w)
    BY <1>1, <1>5, WriteChanges
<1> QED
    BY <1>1, <1>6, ViewGone DEF Phases!Mark, v, w

LEMMA RemoveImplements ==
    ASSUME TInv, NEW m \in Names, ~api[m].gone, Put(m, Removed(api[m])), now' = now
    PROVE  Phases!Remove(m)
<1> DEFINE e == Removed(api[m])
<1>1. api' = [api EXCEPT ![m] = Stored(m, e)] /\ api[m] \in Object
    BY DEF Put, TInv, TypeOK
<1>2. e \in Object /\ e.gone = TRUE
    BY <1>1, RemovedFacts
<1> HIDE DEF e
<1>3. Stored(m, e) \in Object /\ Stored(m, e).gone
    BY <1>1, <1>2, StoredFacts
<1>4. View(Stored(m, e)) = Phases!Gone
    BY <1>3, GoneView
<1>5. Phases!Change(m, Phases!Gone)
    BY <1>1, <1>4, WriteChanges
<1> QED
    BY <1>1, <1>5, ViewGone DEF Phases!Remove

-----------------------------------------------------------------------------
\* The controller.

\* An accepted UpdateStatus writes the phases of the version it was sent.
LEMMA StatusStored ==
    ASSUME TInv, NEW m \in Names, NEW h \in Object, Accepts(m, h),
           NEW w \in PhaseType, w.gone = FALSE, w.deleting = api[m].deleting,
           w.spec = api[m].spec, w.admitted = h.admitted, w.since = h.since,
           w.until = h.until, w.snapshot = h.snapshot, w.finished = h.finished
    PROVE  View(Stored(m, WithStatus(api[m], h))) = w
<1> DEFINE e == WithStatus(api[m], h)
<1>1. api[m] \in Object /\ ~api[m].gone
    BY DEF Accepts, Live, TInv, TypeOK
<1>2. /\ e \in Object /\ e.gone = api[m].gone /\ e.deleting = api[m].deleting
      /\ e.spec = api[m].spec /\ e.admitted = h.admitted /\ e.since = h.since
      /\ e.until = h.until /\ e.snapshot = h.snapshot /\ e.finished = h.finished
    BY <1>1, WithStatusFacts
<1> HIDE DEF e
<1>3. View(Stored(m, e)) = w
    BY <1>1, <1>2, StoredIs
<1> QED
    BY <1>3 DEF e

LEMMA AdmitImplements ==
    ASSUME VInv, SendAdmitted, Applied(key["worker"], copy["worker"])
    PROVE  Phases!Admit(key["worker"])
<1> DEFINE m == key["worker"]
           h == copy["worker"]
           v == View(api[m])
           w == [v EXCEPT !.admitted = TRUE, !.since = h.since, !.until = h.until]
<1>1. /\ Accepts(m, h) /\ now' = now /\ pc["worker"] = "admit"
      /\ api' = [api EXCEPT ![m] = Stored(m, WithStatus(api[m], h))]
    BY DEF Applied, Put, SendAdmitted
<1>2. /\ m \in Names /\ h \in Object /\ Extends(Unadmitted(h), api[m])
      /\ h.admitted /\ h.since < h.until
      /\ h.snapshot = NoSpec /\ ~h.finished
      /\ ~api[m].admitted /\ api[m].snapshot = NoSpec /\ ~api[m].finished
    BY <1>1, AdmissionGrows
<1>3. /\ TInv /\ api[m] \in Object /\ ~api[m].gone /\ api \in [Names -> Object]
    BY <1>1, <1>2 DEF Accepts, Live, VInv, TInv, TypeOK
<1> HIDE DEF m, h, v
<1>4. /\ v \in PhaseType /\ v.gone = FALSE /\ v.deleting = api[m].deleting
      /\ v.spec = api[m].spec /\ v.admitted = api[m].admitted
      /\ v.snapshot = api[m].snapshot /\ v.finished = api[m].finished
    BY <1>3, LiveView DEF v
<1>5. h.since \in Nat /\ h.until \in Nat /\ h.admitted = TRUE /\ h.finished = FALSE
    BY <1>2, FieldTypes
<1>6. api[m].finished = FALSE
    BY <1>2, <1>3, FieldTypes
<1>7. /\ w \in PhaseType /\ w.gone = FALSE /\ w.deleting = api[m].deleting
      /\ w.spec = api[m].spec /\ w.admitted = h.admitted /\ w.since = h.since
      /\ w.until = h.until /\ w.snapshot = h.snapshot /\ w.finished = h.finished
    BY <1>2, <1>4, <1>5, <1>6 DEF PhaseType
<1>8. View(Stored(m, WithStatus(api[m], h))) = w
    <2> HIDE DEF w
    <2> QED
        BY <1>1, <1>2, <1>3, <1>7, StatusStored
<1>9. Phases!Change(m, w)
    <2> HIDE DEF w
    <2> QED
        BY <1>1, <1>2, <1>3, <1>8, WriteChanges
<1>10. View(api'[m]) = w
    BY <1>1, <1>2, <1>3, <1>8
<1>11. View(api'[m]).since = h.since /\ View(api'[m]).until = h.until
    <2> HIDE DEF w
    <2> QED
        BY <1>7, <1>10
<1> QED
    BY <1>2, <1>3, <1>4, <1>9, <1>11 DEF Phases!Admit, v, m


\* What the goroutines know of the version they are about to send.
AboutToMark ==
    LET h == copy["sched"] IN
    pc["sched"] = "mark" =>
        h.snapshot = h.spec /\ ~h.gone /\ ~h.deleting /\ ~h.finished

AboutToFinish ==
    \A t \in Threads :
        LET h == copy[t]  o == api[key[t]] IN
        pc[t] = "finish" =>
            h.finished /\ ~h.gone /\ ~h.deleting /\ (h.rv = o.rv => ~o.finished)

\* The snapshot is the spec that is stored: a version read before an edit of
\* the spec is refused.
LEMMA ScheduleImplements ==
    ASSUME VInv, AboutToMark, MarkScheduled, NEW m \in Names, m = key["sched"],
           Applied(m, copy["sched"])
    PROVE  \/ Phases!Schedule(m)
           \/ now' = now /\ Phases!Change(m, View(api[m]))
<1> DEFINE h == copy["sched"]
           v == View(api[m])
           w == [v EXCEPT !.snapshot = v.spec]
<1>1. /\ Accepts(m, h) /\ now' = now /\ pc["sched"] = "mark" /\ h \in Object
      /\ api' = [api EXCEPT ![m] = Stored(m, WithStatus(api[m], h))]
      /\ TInv /\ api[m] \in Object /\ ~api[m].gone
    BY DEF Applied, Accepts, Live, Put, MarkScheduled, VInv, TInv, TypeOK, Threads
<1>2. Good(h, api[m], now)
    BY <1>1 DEF VInv, HeldConsistent, Held, Threads
<1>3. Extends(h, api[m])
    BY <1>1, <1>2, AcceptedExtends
<1>4. h.snapshot = h.spec /\ ~h.gone /\ ~h.deleting /\ ~h.finished
    BY <1>1 DEF AboutToMark
<1>5. h.spec = api[m].spec /\ h.spec \in Specs /\ h.spec # NoSpec
    BY <1>1, <1>3, SpecsAssumption DEF Extends, TInv, SpecsKnown, Live
<1>6. h.admitted /\ h.since <= now
    BY <1>2, <1>4, <1>5 DEF Good, PhasesInOrder, Scheduled, Started
<1>7. /\ h.admitted = api[m].admitted /\ h.since = api[m].since /\ h.until = api[m].until
      /\ h.deleting = api[m].deleting
      /\ api[m].snapshot \in {NoSpec, h.snapshot}
      /\ api[m].finished = h.finished /\ api[m].finished = FALSE /\ api[m].deleting = FALSE
    BY <1>1, <1>3, <1>4, FieldTypes DEF Extends, Scheduled
<1> HIDE DEF h, v
<1>8. /\ v \in PhaseType /\ v.gone = FALSE /\ v.deleting = api[m].deleting
      /\ v.spec = api[m].spec /\ v.admitted = api[m].admitted
      /\ v.since = api[m].since /\ v.until = api[m].until
      /\ v.snapshot = api[m].snapshot /\ v.finished = api[m].finished
    BY <1>1, LiveView DEF v
<1>9. CASE api[m].snapshot = NoSpec
    <2>1. /\ w \in PhaseType /\ w.gone = FALSE /\ w.deleting = api[m].deleting
          /\ w.spec = api[m].spec /\ w.admitted = h.admitted /\ w.since = h.since
          /\ w.until = h.until /\ w.snapshot = h.snapshot /\ w.finished = h.finished
        BY <1>4, <1>5, <1>7, <1>8 DEF PhaseType
    <2>2. Phases!Change(m, w)
        <3> HIDE DEF w
        <3>1. View(Stored(m, WithStatus(api[m], h))) = w
            BY <1>1, <2>1, StatusStored
        <3> QED
            BY <1>1, <3>1, WriteChanges
    <2>3. Phases!Schedulable(v)
        BY <1>6, <1>7, <1>8, <1>9 DEF Phases!Schedulable
    <2> QED
        BY <1>1, <2>2, <2>3 DEF Phases!Schedule, v
<1>10. CASE api[m].snapshot = h.snapshot
    <2>1. View(Stored(m, WithStatus(api[m], h))) = v
        BY <1>1, <1>7, <1>8, <1>10, StatusStored
    <2>2. Phases!Change(m, v)
        BY <1>1, <2>1, WriteChanges
    <2> QED
        BY <1>1, <2>2 DEF v
<1> QED
    BY <1>7, <1>9, <1>10

LEMMA FinishImplements ==
    ASSUME VInv, NEW t \in Threads, pc[t] = "finish", NEW m \in Names, m = key[t],
           Accepts(m, copy[t]), now' = now,
           api' = [api EXCEPT ![m] = Stored(m, WithStatus(api[m], copy[t]))],
           copy[t].finished, ~copy[t].gone, ~copy[t].deleting, ~api[m].finished
    PROVE  Phases!Finish(m)
<1> DEFINE h == copy[t]
           v == View(api[m])
           w == [v EXCEPT !.finished = TRUE]
           x == [v EXCEPT !.finished = TRUE, !.snapshot = v.spec]
<1>1. /\ h \in Object /\ TInv /\ api[m] \in Object /\ ~api[m].gone
    BY DEF Accepts, Live, VInv, TInv, TypeOK
<1>2. Good(h, api[m], now)
    BY DEF VInv, HeldConsistent, Held
<1>3. Extends(h, api[m])
    BY <1>1, <1>2, AcceptedExtends
<1>4. /\ h.admitted = api[m].admitted /\ h.since = api[m].since /\ h.until = api[m].until
      /\ h.deleting = api[m].deleting /\ h.spec = api[m].spec
      /\ h.snapshot \in {api[m].snapshot, h.spec}
      /\ h.snapshot # api[m].snapshot => api[m].snapshot = NoSpec
      /\ h.finished = TRUE /\ api[m].finished = FALSE /\ api[m].deleting = FALSE
    BY <1>1, <1>3, FieldTypes DEF Extends, Scheduled
<1>5. /\ h.admitted /\ h.until < now
      /\ h.snapshot # NoSpec => h.since <= now
    BY <1>2 DEF Good, PhasesInOrder, Expired, Scheduled, Started
<1>6. Accepts(m, h) /\ api' = [api EXCEPT ![m] = Stored(m, WithStatus(api[m], h))]
    OBVIOUS
<1> HIDE DEF h, v
<1>7. /\ v \in PhaseType /\ v.gone = FALSE /\ v.deleting = api[m].deleting
      /\ v.spec = api[m].spec /\ v.admitted = api[m].admitted
      /\ v.since = api[m].since /\ v.until = api[m].until
      /\ v.snapshot = api[m].snapshot /\ v.finished = api[m].finished
    BY <1>1, LiveView DEF v
<1>8. ~v.gone /\ ~v.deleting /\ v.admitted /\ v.until < now /\ ~v.finished
    BY <1>4, <1>5, <1>7
<1>9. CASE h.snapshot = api[m].snapshot
    <2>1. /\ w \in PhaseType /\ w.gone = FALSE /\ w.deleting = api[m].deleting
          /\ w.spec = api[m].spec /\ w.admitted = h.admitted /\ w.since = h.since
          /\ w.until = h.until /\ w.snapshot = h.snapshot /\ w.finished = h.finished
        BY <1>4, <1>7, <1>9 DEF PhaseType
    <2>2. Phases!Change(m, w)
        <3> HIDE DEF w
        <3>1. View(Stored(m, WithStatus(api[m], h))) = w
            <4>1. TInv /\ m \in Names /\ h \in Object /\ Accepts(m, h)
                BY <1>1, <1>6
            <4> QED
                BY <4>1, <2>1, StatusStored
        <3> QED
            BY <1>1, <1>6, <3>1, WriteChanges
    <2> QED
        BY <1>8, <2>2 DEF Phases!Finish, v
<1>10. CASE h.snapshot # api[m].snapshot
    <2>1. /\ h.snapshot = api[m].spec /\ api[m].snapshot = NoSpec /\ h.snapshot # NoSpec
        BY <1>4, <1>10
    <2>2. /\ x \in PhaseType /\ x.gone = FALSE /\ x.deleting = api[m].deleting
          /\ x.spec = api[m].spec /\ x.admitted = h.admitted /\ x.since = h.since
          /\ x.until = h.until /\ x.snapshot = h.snapshot /\ x.finished = h.finished
        BY <1>4, <1>7, <2>1 DEF PhaseType
    <2>3. Phases!Change(m, x)
        <3> HIDE DEF x
        <3>1. View(Stored(m, WithStatus(api[m], h))) = x
            <4>1. TInv /\ m \in Names /\ h \in Object /\ Accepts(m, h)
                BY <1>1, <1>6
            <4> QED
                BY <4>1, <2>2, StatusStored
        <3> QED
            BY <1>1, <1>6, <3>1, WriteChanges
    <2>4. Phases!Schedulable(v)
        BY <1>4, <1>5, <1>7, <1>8, <2>1 DEF Phases!Schedulable
    <2> QED
        BY <1>8, <2>3, <2>4 DEF Phases!Finish, v
<1> QED
    BY <1>9, <1>10

-----------------------------------------------------------------------------
\* What the goroutines know stays true.

LEMMA AboutToMarkNext == VInv /\ AboutToMark /\ [Next]_vars => AboutToMark'
<1> SUFFICES ASSUME VInv, AboutToMark, [Next]_vars PROVE AboutToMark'
    OBVIOUS
<1>0. TypeOK
    BY DEF VInv, TInv
<1>1. UNCHANGED <<pc, copy>> => AboutToMark'
    BY DEF AboutToMark
<1>2. ASSUME NEW m, NEW h, NEW p, NEW a, WorkerGoes(p, a, m, h) PROVE AboutToMark'
    BY <1>0, <1>2 DEF WorkerGoes, AboutToMark, TypeOK, Threads
<1>3. ASSUME NEW m, NEW h, NEW p, SchedGoes(p, m, h),
             p = "mark" => h.snapshot = h.spec /\ ~h.gone /\ ~h.deleting /\ ~h.finished
      PROVE  AboutToMark'
    BY <1>0, <1>3 DEF SchedGoes, AboutToMark, TypeOK, Threads
<1>4. Restarted => AboutToMark'
    BY DEF Restarted, AboutToMark, Threads
<1>5. Users \/ Tick \/ Informer \/ Timers => AboutToMark'
    BY <1>1
    DEF Users, Create, EditSpec, Delete, CollectGarbage, UserOp, controller,
        Tick, Informer, Deliver, Announce, Timers, Wake, FireDelayed
<1>6. Crash => AboutToMark'
    BY <1>4 DEF Crash
<1>7. \A m \in Names : Handle(m) => AboutToMark'
    BY <1>2 DEF Handle, HandleWithoutCache, OnMaintenanceAdded, OnMaintenanceUpdated,
                OnMaintenanceDeleting, OnMaintenanceDeleted, WorkerRests
<1>8. FindPending \/ DropCached \/ OfferNext \/ Backoff \/ SendAdmitted \/ SendDelete
        => AboutToMark'
    BY <1>2
    DEF FindPending, DropCached, OfferNext, Backoff, SendAdmitted, SendDelete, WorkerRests
<1>9. MarkScheduled \/ CreateMaintenanceJobs => AboutToMark'
    BY <1>3 DEF MarkScheduled, CreateMaintenanceJobs
<1>10. ASSUME NEW m \in Names, ScheduleMaintenance(m) PROVE AboutToMark'
    <2> DEFINE h == seen[m]
               s == Snapshot(h)
    <2>1. \/ SchedGoes("enqueue", m, Nothing) \/ SchedGoes("create", m, h)
          \/ /\ SchedGoes("mark", m, s)
             /\ ~h.gone /\ ~h.deleting /\ ~Expired(h, now)
        BY <1>10 DEF ScheduleMaintenance, Canceled
    <2>2. /\ h \in Object /\ (h.finished => Expired(h, now))
        BY <1>0 DEF VInv, Consistent, Good, PhasesInOrder, TypeOK
    <2>3. /\ s.snapshot = s.spec /\ s.gone = h.gone /\ s.deleting = h.deleting
          /\ s.finished = h.finished
        BY <2>2, SnapshotFacts
    <2> HIDE DEF h, s
    <2> QED
        BY <1>3, <2>1, <2>2, <2>3
<1>11. ASSUME NEW t \in Threads, Enqueue(t) PROVE AboutToMark'
    <2>1. \/ Restarted
          \/ \E p \in {"idle", "retry", "finish", "offerDelay", "offerTime"} : \E a, h :
                WorkerGoes(p, a, key[t], h) \/ SchedGoes(p, key[t], h)
        BY <1>11
        DEF Enqueue, EnqueueStops, EnqueueFinishes, EnqueueOffers, SendFinished, OfferToTQ,
            Goes, Rests, WorkerRests, SchedRests
    <2> QED
        BY <1>2, <1>3, <1>4, <2>1
<1>12. UNCHANGED vars => AboutToMark'
    BY <1>1 DEF vars
<1> QED
    BY <1>5, <1>6, <1>7, <1>8, <1>9, <1>10, <1>11, <1>12 DEF Next, Worker, Sched, Threads

FinishFrom ==
    \A t \in Threads : pc'[t] = "finish" =>
        \/ pc[t] = "finish" /\ key'[t] = key[t] /\ copy'[t] = copy[t]
        \/ EnqueueFinishes(t) /\ key'[t] = key[t] /\ copy'[t] = Finish(seen[key[t]])

LEMMA NextFinish == VInv /\ [Next]_vars => FinishFrom
<1> SUFFICES ASSUME VInv, [Next]_vars PROVE FinishFrom
    OBVIOUS
<1>0. TypeOK
    BY DEF VInv, TInv
<1>1. UNCHANGED <<pc, key, copy>> => FinishFrom
    BY DEF FinishFrom
<1>2. ASSUME NEW m, NEW h, NEW a, NEW p, p # "finish",
             WorkerGoes(p, a, m, h) \/ SchedGoes(p, m, h)
      PROVE  FinishFrom
    BY <1>0, <1>2 DEF WorkerGoes, SchedGoes, FinishFrom, TypeOK, Threads
<1>3. Restarted => FinishFrom
    BY DEF Restarted, FinishFrom
<1>4. Users \/ Tick \/ Informer \/ Timers => FinishFrom
    BY <1>1
    DEF Users, Create, EditSpec, Delete, CollectGarbage, UserOp, controller,
        Tick, Informer, Deliver, Announce, Timers, Wake, FireDelayed
<1>5. Crash => FinishFrom
    BY <1>3 DEF Crash
<1>6. \A m \in Names : Handle(m) => FinishFrom
    BY <1>2 DEF Handle, HandleWithoutCache, OnMaintenanceAdded, OnMaintenanceUpdated,
                OnMaintenanceDeleting, OnMaintenanceDeleted, WorkerRests
<1>7. FindPending \/ DropCached \/ OfferNext \/ Backoff \/ SendAdmitted \/ SendDelete
        => FinishFrom
    BY <1>2
    DEF FindPending, DropCached, OfferNext, Backoff, SendAdmitted, SendDelete, WorkerRests
<1>8. MarkScheduled \/ CreateMaintenanceJobs => FinishFrom
    BY <1>2 DEF MarkScheduled, CreateMaintenanceJobs
<1>9. \A m \in Names : ScheduleMaintenance(m) => FinishFrom
    BY <1>2 DEF ScheduleMaintenance
<1>10. ASSUME NEW t \in Threads, Enqueue(t) PROVE FinishFrom
    <2>1. CASE EnqueueFinishes(t)
        <3>1. Goes(t, "finish", key[t], Finish(seen[key[t]]))
            BY <2>1 DEF EnqueueFinishes
        <3>2. /\ key'[t] = key[t] /\ copy'[t] = Finish(seen[key[t]])
              /\ \A u \in Threads \ {t} :
                    pc'[u] = pc[u] /\ key'[u] = key[u] /\ copy'[u] = copy[u]
            BY <1>0, <3>1 DEF Goes, WorkerGoes, SchedGoes, TypeOK, Threads
        <3> QED
            BY <2>1, <3>2 DEF FinishFrom
    <2>2. CASE EnqueueStops(t) \/ EnqueueOffers(t) \/ SendFinished(t) \/ OfferToTQ(t)
        <3>1. \/ Restarted
              \/ \E p \in {"idle", "retry", "offerDelay", "offerTime"} : \E a, h :
                    WorkerGoes(p, a, key[t], h) \/ SchedGoes(p, key[t], h)
            BY <2>2
            DEF EnqueueStops, EnqueueOffers, SendFinished, OfferToTQ,
                Goes, Rests, WorkerRests, SchedRests
        <3> QED
            BY <1>2, <1>3, <3>1
    <2> QED
        BY <1>10, <2>1, <2>2 DEF Enqueue
<1>11. UNCHANGED vars => FinishFrom
    BY <1>1 DEF vars
<1> QED
    BY <1>4, <1>5, <1>6, <1>7, <1>8, <1>9, <1>10, <1>11 DEF Next, Worker, Sched, Threads

LEMMA AboutToFinishNext == VInv /\ AboutToFinish /\ [Next]_vars => AboutToFinish'
<1> SUFFICES ASSUME VInv, AboutToFinish, [Next]_vars,
                    NEW t \in Threads, pc'[t] = "finish"
             PROVE  /\ copy'[t].finished /\ ~copy'[t].gone /\ ~copy'[t].deleting
                    /\ copy'[t].rv = api'[key'[t]].rv => ~api'[key'[t]].finished
    BY DEF AboutToFinish
<1>1. PICK m \in Names : m = key[t]
    BY DEF VInv, TInv, TypeOK
<1>2. api[m] \in Object /\ copy[t] \in Object /\ seen[m] \in Object
    BY DEF VInv, TInv, TypeOK
<1>3. CASE pc[t] = "finish" /\ key'[t] = key[t] /\ copy'[t] = copy[t]
    <2> DEFINE h == copy[t]
    <2>1. /\ h.finished /\ ~h.gone /\ ~h.deleting
          /\ h.rv = api[m].rv => ~api[m].finished
        BY <1>1, <1>3 DEF AboutToFinish
    <2>2. h.rv <= api[m].rv
        BY <1>1, <1>3 DEF VInv, HeldConsistent, Held, Good
    <2>3. /\ api'[m] = api[m] \/ api'[m].rv > api[m].rv
          /\ TypeOK'
        BY NextGrows, VInvNext DEF ApiGrows, VInv, TInv
    <2>4. api[m].rv \in Nat /\ h.rv \in Nat /\ api'[m].rv \in Nat
        BY <1>2, <2>3, FieldTypes DEF TypeOK
    <2>5. h.rv = api'[m].rv => api'[m] = api[m]
        BY <2>2, <2>3, <2>4
    <2> QED
        BY <1>1, <1>3, <2>1, <2>5
<1>4. CASE EnqueueFinishes(t) /\ key'[t] = key[t] /\ copy'[t] = Finish(seen[m])
    <2> DEFINE f == Finish(seen[m])
    <2>1. /\ ~seen[m].gone /\ ~seen[m].deleting /\ ~seen[m].finished /\ api' = api
        BY <1>1, <1>4 DEF EnqueueFinishes, Canceled, Finished
    <2>2. /\ f.finished = TRUE /\ f.gone = seen[m].gone /\ f.deleting = seen[m].deleting
          /\ f.rv = seen[m].rv
        BY <1>2, FinishFacts
    <2>3. Good(seen[m], api[m], now) /\ seen[m] # Nothing
        BY <2>1, NothingFacts DEF VInv, Consistent
    <2>4. seen[m].rv = api[m].rv => ~api[m].finished
        BY <2>1, <2>3 DEF Good, Extends
    <2> HIDE DEF f
    <2>5. copy'[t] = f
        BY <1>4 DEF f
    <2> QED
        BY <1>1, <1>4, <2>1, <2>2, <2>4, <2>5
<1> QED
    BY <1>1, <1>3, <1>4, NextFinish DEF FinishFrom

-----------------------------------------------------------------------------
\* The refinement.

RInv == VInv /\ AboutToMark /\ AboutToFinish

\* A step of the abstract specification, or none.
PhasesStep ==
    \/ Phases!Next
    \/ UNCHANGED <<now, [m \in Names |-> View(api[m])]>>

LEMMA SameApi == UNCHANGED <<now, api>> => PhasesStep
BY DEF PhasesStep

LEMMA SameView ==
    ASSUME NEW m \in Names, now' = now, Phases!Change(m, View(api[m]))
    PROVE  PhasesStep
<1>1. [n \in Names |-> View(api'[n])]
        = [[n \in Names |-> View(api[n])] EXCEPT ![m] = View(api[m])]
    BY DEF Phases!Change
<1>2. [[n \in Names |-> View(api[n])] EXCEPT ![m] = View(api[m])]
        = [n \in Names |-> View(api[n])]
    OBVIOUS
<1> QED
    BY <1>1, <1>2 DEF PhasesStep

LEMMA UsersStep == RInv /\ Users => PhasesStep
<1> SUFFICES ASSUME RInv, NEW m \in Names,
                    \/ \E s \in Specs : Create(m, s) \/ EditSpec(m, s)
                    \/ Delete(m) \/ CollectGarbage(m)
             PROVE  PhasesStep
    BY DEF Users
<1>1. TInv
    BY DEF RInv, VInv
<1>2. ASSUME NEW s \in Specs, Create(m, s) \/ EditSpec(m, s) PROVE PhasesStep
    BY <1>1, <1>2, CreateImplements, EditImplements DEF PhasesStep, Phases!Next
<1>3. CASE Delete(m) \/ CollectGarbage(m)
    <2>1. /\ ~api[m].gone /\ now' = now
          /\ Put(m, Removed(api[m])) \/ Put(m, Marked(api[m]))
        BY <1>3 DEF Delete, CollectGarbage, UserOp, Live
    <2> QED
        BY <1>1, <2>1, MarkImplements, RemoveImplements DEF PhasesStep, Phases!Next
<1> QED
    BY <1>2, <1>3

LEMMA SendAdmittedStep == RInv /\ SendAdmitted => PhasesStep
<1> SUFFICES ASSUME RInv, SendAdmitted PROVE PhasesStep
    OBVIOUS
<1>1. key["worker"] \in Names /\ VInv
    BY DEF RInv, VInv, TInv, TypeOK, Threads
<1>2. Applied(key["worker"], copy["worker"]) \/ UNCHANGED <<now, api>>
    BY DEF SendAdmitted, CallFails
<1> QED
    BY <1>1, <1>2, AdmitImplements, SameApi DEF PhasesStep, Phases!Next

LEMMA SendDeleteStep == RInv /\ SendDelete => PhasesStep
<1> SUFFICES ASSUME RInv, SendDelete PROVE PhasesStep
    OBVIOUS
<1>1. PICK m \in Names : m = key["worker"]
    BY DEF RInv, VInv, TInv, TypeOK, Threads
<1>2. /\ now' = now
      /\ (~api[m].gone /\ Put(m, Removed(api[m]))) \/ UNCHANGED api
    BY <1>1 DEF SendDelete, Live
<1> QED
    BY <1>2, RemoveImplements, SameApi DEF PhasesStep, Phases!Next, RInv, VInv

LEMMA MarkScheduledStep == RInv /\ MarkScheduled => PhasesStep
<1> SUFFICES ASSUME RInv, MarkScheduled PROVE PhasesStep
    OBVIOUS
<1>1. PICK m \in Names : m = key["sched"]
    BY DEF RInv, VInv, TInv, TypeOK, Threads
<1>2. Applied(m, copy["sched"]) \/ UNCHANGED <<now, api>>
    BY <1>1 DEF MarkScheduled, CallFails
<1>3. CASE Applied(m, copy["sched"])
    <2>1. Phases!Schedule(m) \/ (now' = now /\ Phases!Change(m, View(api[m])))
        BY <1>1, <1>3, ScheduleImplements DEF RInv
    <2> QED
        BY <2>1, SameView DEF PhasesStep, Phases!Next
<1> QED
    BY <1>2, <1>3, SameApi

LEMMA SendFinishedStep == ASSUME NEW t \in Threads PROVE RInv /\ SendFinished(t) => PhasesStep
<1> SUFFICES ASSUME RInv, SendFinished(t) PROVE PhasesStep
    OBVIOUS
<1>1. PICK m \in Names : m = key[t]
    BY DEF RInv, VInv, TInv, TypeOK
<1>2. /\ now' = now /\ pc[t] = "finish"
      /\ \/ /\ Accepts(m, copy[t])
            /\ api' = [api EXCEPT ![m] = Stored(m, WithStatus(api[m], copy[t]))]
         \/ UNCHANGED api
    BY <1>1 DEF SendFinished, Applied, Put
<1>3. CASE Accepts(m, copy[t]) /\ api' = [api EXCEPT ![m] = Stored(m, WithStatus(api[m], copy[t]))]
    <2>1. /\ copy[t].finished /\ ~copy[t].gone /\ ~copy[t].deleting
          /\ ~api[m].finished
        BY <1>1, <1>2, <1>3 DEF RInv, AboutToFinish, Accepts
    <2> QED
        BY <1>1, <1>2, <1>3, <2>1, FinishImplements DEF RInv, PhasesStep, Phases!Next
<1> QED
    BY <1>2, <1>3, SameApi

LEMMA NextStep == RInv /\ [Next]_vars => PhasesStep
<1> SUFFICES ASSUME RInv, [Next]_vars PROVE PhasesStep
    OBVIOUS
<1>1. Tick => PhasesStep
    <2> SUFFICES ASSUME Tick PROVE Phases!Tick
        BY DEF PhasesStep, Phases!Next
    <2> QED
        BY DEF Tick, Phases!Tick
<1>2. Informer \/ Timers \/ Crash => PhasesStep
    BY SameApi DEF Informer, Deliver, Announce, Timers, Wake, FireDelayed, Crash
<1>3. \A m \in Names : Handle(m) => PhasesStep
    BY SameApi DEF Handle, HandleWithoutCache, OnMaintenanceAdded, OnMaintenanceUpdated,
                   OnMaintenanceDeleting, OnMaintenanceDeleted, Acquire
<1>4. FindPending \/ DropCached \/ OfferNext \/ Backoff => PhasesStep
    BY SameApi DEF FindPending, DropCached, OfferNext, Backoff
<1>5. (\E m \in Names : ScheduleMaintenance(m)) \/ CreateMaintenanceJobs => PhasesStep
    BY SameApi DEF ScheduleMaintenance, CreateMaintenanceJobs
<1>6. ASSUME NEW t \in Threads, Enqueue(t) PROVE PhasesStep
    <2>1. EnqueueStops(t) \/ EnqueueFinishes(t) \/ EnqueueOffers(t) \/ OfferToTQ(t)
            => UNCHANGED <<now, api>>
        BY DEF EnqueueStops, EnqueueFinishes, EnqueueOffers, OfferToTQ
    <2> QED
        BY <1>6, <2>1, SameApi, SendFinishedStep DEF Enqueue
<1>7. UNCHANGED vars => PhasesStep
    BY SameApi DEF vars
<1> QED
    BY <1>1, <1>2, <1>3, <1>4, <1>5, <1>6, <1>7, UsersStep, SendAdmittedStep,
       SendDeleteStep, MarkScheduledStep
    DEF Next, Worker, Sched, Threads

LEMMA InitImplements == Init => Phases!Init
<1> SUFFICES ASSUME Init PROVE Phases!Init
    OBVIOUS
<1>1. \A m \in Names : View(api[m]) = Phases!Gone
    BY GoneView, NothingFacts DEF Init
<1> QED
    BY <1>1 DEF Init, Phases!Init

LEMMA RInvAlways == Spec => []RInv
<1>1. Init => RInv
    BY VInvInit DEF Init, RInv, AboutToMark, AboutToFinish, Threads
<1>2. RInv /\ [Next]_vars => RInv'
    BY VInvNext, AboutToMarkNext, AboutToFinishNext DEF RInv
<1> QED
    BY <1>1, <1>2, PTL DEF Spec

\* The stored objects go through their phases as MaintenancePhases says: the
\* window is fixed at admission, the snapshot is the spec stored at that
\* instant and taken once, and nothing but a deletion follows the finish.
THEOREM MaintenanceImplementsPhases == Spec => ImplementsPhases
<1>1. RInv /\ [Next]_vars => [Phases!Next]_(Phases!pvars)
    BY NextStep DEF PhasesStep, Phases!pvars
<1> QED
    BY <1>1, InitImplements, RInvAlways, PTL DEF Spec, ImplementsPhases, Phases!Spec
=============================================================================
