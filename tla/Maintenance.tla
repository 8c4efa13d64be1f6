---------------------------- MODULE Maintenance ----------------------------
(***************************************************************************)
(* The life of Maintenance objects under the vihara controller.            *)
(*                                                                         *)
(* A Maintenance is created by a user, admitted (its window is fixed),     *)
(* scheduled (its spec is copied into the status and MaintenanceJobs are   *)
(* created from the copy) and finished.  Three parties work on it:         *)
(*   - users and the API server's garbage collector change the stored      *)
(*     object (api);                                                       *)
(*   - the informer delivers every stored version (watch) into the shared  *)
(*     store of the controller (seen) and schedules a reconcile job;       *)
(*   - two goroutines of the controller act on what they see: the          *)
(*     reconcile worker takes jobs from jobQ, and the scheduler takes the  *)
(*     names the timeout queue (tq, then ready) lets go.                   *)
(* The store hands out pointers, so a field the controller sets before an  *)
(* UpdateStatus call is seen by everyone even when the call fails.         *)
(*                                                                         *)
(* Between two steps of a goroutine anything may happen: a handler is cut  *)
(* where it calls the API server or enters a queue.                        *)
(***************************************************************************)
EXTENDS JobQueue

CONSTANTS
    Names,            \* names of Maintenance objects
    Specs,            \* specs users write: see SpecType
    NoSpec,           \* no snapshot taken
    DefaultDelay,     \* config.Maintenance.Schedule.DefaultDelay
    DefaultDuration,  \* config.Maintenance.Schedule.DefaultDuration
    PollInterval,     \* config.Maintenance.Schedule.PollInterval
    Horizon,          \* bound: the clock stops here
    MaxUserOps,       \* bound: user operations
    MaxErrors,        \* bound: API calls that fail, or whose answer is lost
    MaxCrashes        \* bound: restarts other than those after a panic

\* What the life cycle depends on in a spec.  A time or duration of 0 is unset.
SpecType == [targeted : BOOLEAN,   \* TargetNamespaces admits this controller
             valid    : BOOLEAN,   \* nodeSelector, stages and env are usable
             since : Nat, delay : Nat, until : Nat, duration : Nat]

ASSUME SpecsAssumption == Specs \subseteq SpecType /\ NoSpec \notin Specs
ASSUME ConfigAssumption ==
    DefaultDelay \in Nat /\ DefaultDuration \in Nat /\ PollInterval \in Nat
ASSUME BoundsAssumption ==
    Horizon \in Nat /\ MaxUserOps \in Nat /\ MaxErrors \in Nat /\ MaxCrashes \in Nat

Threads == {"worker", "sched"}

\* A version of an object: what the API server stores, the informer delivers
\* and the goroutines hold.  rv is its resource version, uid its incarnation,
\* deleting its deletion timestamp; admitted, since and until are
\* status.admitted, snapshot is status.scheduled, finished is status.finished.
Object == [rv : Nat, uid : Nat, gone : BOOLEAN, deleting : BOOLEAN,
           created : Nat, spec : Specs \cup {NoSpec},
           admitted : BOOLEAN, since : Nat, until : Nat,
           snapshot : Specs \cup {NoSpec}, finished : BOOLEAN]

Nothing == [rv |-> 0, uid |-> 0, gone |-> TRUE, deleting |-> FALSE,
            created |-> 0, spec |-> NoSpec,
            admitted |-> FALSE, since |-> 0, until |-> 0,
            snapshot |-> NoSpec, finished |-> FALSE]

VARIABLES
    now,       \* the clock
    api,       \* the stored object of each name (gone: no object)
    watch,     \* versions of each name not yet delivered, in rv order
    seen,      \* the informer's store; a tombstone after a delete event
    cached,    \* names the reconciler's cache has an object for
    notice,    \* the job the informer is about to schedule, if any
    jobQ,      \* the reconciler's job queue
    delayed,   \* jobs waiting in the reconciler's backoff queue
    tq,        \* when each name is to leave the timeout queue
    ready,     \* names that have left it, in delivery order
    pc,        \* where each goroutine is
    action,    \* the action of the job the worker handles
    key,       \* the name each goroutine works on
    copy,      \* the version each goroutine holds for its next API call
    jobs,      \* MaintenanceJobs created: incarnation and spec they came from
    userOps, errors, crashes  \* how much of each bound is used

controller == <<seen, cached, notice, jobQ, delayed, tq, ready, pc, action, key, copy>>
vars == <<now, api, watch, seen, cached, notice, jobQ, delayed, tq, ready,
          pc, action, key, copy, jobs, userOps, errors, crashes>>

-----------------------------------------------------------------------------
\* Predicates on a version.

Admitted(h)  == h.admitted
Scheduled(h) == h.snapshot # NoSpec
Finished(h)  == h.finished
Canceled(h)  == h.deleting
Started(h, time) == h.admitted /\ h.since <= time
Expired(h, time) == h.admitted /\ h.until < time

CanBeScheduledIn(h) == h.spec.targeted

\* The window an object is admitted with.
ScheduleSince(h) ==
    (IF h.spec.since = 0 THEN h.created ELSE h.spec.since)
        + (IF h.spec.delay < 1 THEN DefaultDelay ELSE h.spec.delay)
ScheduleUntil(h) ==
    IF h.spec.until = 0
    THEN ScheduleSince(h)
            + (IF h.spec.duration < 1 THEN DefaultDuration ELSE h.spec.duration)
    ELSE h.spec.until

\* Definitions named Wrong... are faulty variants of the one that follows them:
\* no specification uses them, they show that a property notices the fault.

\* The window is stored the wrong way round.
WrongAdmit(h) == [h EXCEPT !.admitted = TRUE,
                           !.since = ScheduleUntil(h), !.until = ScheduleSince(h)]
Admit(h) == [h EXCEPT !.admitted = TRUE,
                      !.since = ScheduleSince(h), !.until = ScheduleUntil(h)]
\* The snapshot is not taken; it moves the window.
WrongSnapshotNone(h) == h
WrongSnapshotMoves(h) == [h EXCEPT !.snapshot = h.spec, !.since = now]
Snapshot(h) == [h EXCEPT !.snapshot = h.spec]
\* Finishing drops the snapshot.
WrongFinish(h) == [h EXCEPT !.finished = TRUE, !.snapshot = NoSpec]
Finish(h) == [h EXCEPT !.finished = TRUE]

-----------------------------------------------------------------------------
\* The API server.

\* Every write gives the object a new resource version.
Stored(m, o) == [o EXCEPT !.rv = api[m].rv + 1]

Put(m, o) ==
    /\ api' = [api EXCEPT ![m] = Stored(m, o)]
    /\ watch' = [watch EXCEPT ![m] = @ \cup {Stored(m, o)}]

Live(m) == ~api[m].gone

\* UpdateStatus replaces the status of the version it was read from.
WithStatus(o, h) ==
    [rv |-> o.rv, uid |-> o.uid, gone |-> o.gone, deleting |-> o.deleting,
     created |-> o.created, spec |-> o.spec,
     admitted |-> h.admitted, since |-> h.since, until |-> h.until,
     snapshot |-> h.snapshot, finished |-> h.finished]

Accepts(m, h) == Live(m) /\ api[m].rv = h.rv

Applied(m, h) == Accepts(m, h) /\ Put(m, WithStatus(api[m], h))

Conflict(m, h) == Live(m) /\ api[m].rv # h.rv

\* The three ways UpdateStatus returns an error other than NotFound: a stale
\* version, a call that did not arrive, an answer that did not.
CallFails(m, h) ==
    \/ Conflict(m, h) /\ UNCHANGED <<api, watch, errors>>
    \/ /\ errors < MaxErrors
       /\ errors' = errors + 1
       /\ UNCHANGED <<api, watch>> \/ Applied(m, h)

-----------------------------------------------------------------------------
\* Users.

Removed(o) == [o EXCEPT !.gone = TRUE]
Marked(o) == [o EXCEPT !.deleting = TRUE]
Edited(o, s) == [o EXCEPT !.spec = s]

UserOp ==
    /\ userOps < MaxUserOps
    /\ userOps' = userOps + 1
    /\ UNCHANGED <<now, controller, jobs, errors, crashes>>

\* A new object of the name that o had.
Fresh(o, s) ==
    [rv |-> o.rv, uid |-> o.uid + 1, gone |-> FALSE, deleting |-> FALSE,
     created |-> now, spec |-> s, admitted |-> FALSE, since |-> 0, until |-> 0,
     snapshot |-> NoSpec, finished |-> FALSE]

Create(m, s) ==
    /\ UserOp
    /\ ~Live(m)
    /\ Put(m, Fresh(api[m], s))

EditSpec(m, s) ==
    /\ UserOp
    /\ Live(m) /\ api[m].spec # s
    /\ Put(m, Edited(api[m], s))

\* A background deletion removes the object, a foreground one marks it and
\* leaves it to the garbage collector.
Delete(m) ==
    /\ UserOp
    /\ Live(m) /\ ~api[m].deleting
    /\ \/ Put(m, Removed(api[m]))
       \/ Put(m, Marked(api[m]))

CollectGarbage(m) ==
    /\ Live(m) /\ api[m].deleting
    /\ Put(m, Removed(api[m]))
    /\ UNCHANGED <<now, controller, jobs, userOps, errors, crashes>>

Tick ==
    /\ now < Horizon
    /\ now' = now + 1
    /\ UNCHANGED <<api, watch, controller, jobs, userOps, errors, crashes>>

-----------------------------------------------------------------------------
\* The informer: one goroutine, which stores a version (Deliver), and then
\* schedules a job for it (Announce).  In between, the worker sees the one
\* without the other.  Schedule cancels a pending equal job and offers it again.

Schedule(a, m) ==
    /\ jobQ' = Offer(Without(jobQ, a, m), Job(a, m))
    /\ delayed' = delayed \ {Job(a, m)}

Event(m, h) ==
    CASE h.gone -> "Cleanup"
      [] ~h.gone /\ seen[m].gone -> "Add"
      [] ~h.gone /\ ~seen[m].gone /\ h.deleting -> "Delete"
      [] OTHER -> "Update"

Deliver(m) ==
    \E h \in watch[m] :
        /\ notice = {}
        /\ \A g \in watch[m] : h.rv <= g.rv
        /\ watch' = [watch EXCEPT ![m] = @ \ {h}]
        /\ seen' = [seen EXCEPT ![m] = h]
        /\ cached' = cached \cup {m}
        /\ notice' = {Job(Event(m, h), m)}
        /\ UNCHANGED <<now, api, jobQ, delayed, tq, ready, pc, action, key, copy,
                       jobs, userOps, errors, crashes>>

Announce(j) ==
    /\ j \in notice
    /\ notice' = {}
    /\ Schedule(j.action, j.key)
    /\ UNCHANGED <<now, api, watch, seen, cached, tq, ready, pc, action, key, copy,
                   jobs, userOps, errors, crashes>>

FireDelayed(j) ==
    /\ j \in delayed
    /\ delayed' = delayed \ {j}
    /\ jobQ' = Offer(jobQ, j)
    /\ UNCHANGED <<now, api, watch, seen, cached, notice, tq, ready, pc, action, key,
                   copy, jobs, userOps, errors, crashes>>

\* The timeout queue lets the earliest due name go.
Wake(m) ==
    /\ \E i \in DOMAIN tq[m] :
        /\ tq[m][i] <= now
        /\ \A n \in Names : \A k \in DOMAIN tq[n] : tq[m][i] <= tq[n][k]
        /\ tq' = [tq EXCEPT ![m] = RemoveAt(@, i)]
    /\ ready' = Append(ready, m)
    /\ UNCHANGED <<now, api, watch, seen, cached, notice, jobQ, delayed, pc, action, key,
                   copy, jobs, userOps, errors, crashes>>

-----------------------------------------------------------------------------
\* The goroutines.  WorkerGoes and SchedGoes are where a step leaves them.

WorkerGoes(p, a, m, h) ==
    /\ pc' = [pc EXCEPT !["worker"] = p]
    /\ action' = a
    /\ key' = [key EXCEPT !["worker"] = m]
    /\ copy' = [copy EXCEPT !["worker"] = h]

SchedGoes(p, m, h) ==
    /\ pc' = [pc EXCEPT !["sched"] = p]
    /\ key' = [key EXCEPT !["sched"] = m]
    /\ copy' = [copy EXCEPT !["sched"] = h]
    /\ UNCHANGED action

WorkerRests(m) == WorkerGoes("idle", "None", m, Nothing)
SchedRests(m) == SchedGoes("idle", m, Nothing)

\* The worker takes the first job, and the object the reconciler has cached.
Acquire(a, m) ==
    /\ pc["worker"] = "idle"
    /\ jobQ # << >> /\ Head(jobQ) = Job(a, m)
    /\ jobQ' = Tail(jobQ)
    /\ UNCHANGED <<now, api, watch, seen, notice, delayed, ready, jobs,
                   userOps, errors, crashes>>

\* RequireCache: without a cached object every job fails, and is retried.
HandleWithoutCache(a, m) ==
    /\ Acquire(a, m)
    /\ m \notin cached
    /\ WorkerGoes("retry", a, m, Nothing)
    /\ UNCHANGED <<cached, tq>>

AdmissibleWindow(h) == ScheduleSince(h) < ScheduleUntil(h)

\* An admitted object, as every one is after a restart, is left alone.
WrongOnMaintenanceAdded(m) ==
    /\ Acquire("Add", m)
    /\ m \in cached
    /\ LET h == seen[m] IN
        IF ~Admitted(h) /\ CanBeScheduledIn(h) /\ AdmissibleWindow(h)
        THEN WorkerGoes("admit", "Add", m, Admit(h))
        ELSE WorkerRests(m)
    /\ UNCHANGED <<cached, tq>>

OnMaintenanceAdded(m) ==
    /\ Acquire("Add", m)
    /\ m \in cached
    /\ LET h == seen[m] IN
        \/ Admitted(h) /\ WorkerGoes("next", "Update", m, Nothing)
        \/ /\ ~Admitted(h)
           /\ ~(CanBeScheduledIn(h) /\ AdmissibleWindow(h))
           /\ WorkerRests(m)
        \/ /\ ~Admitted(h)
           /\ CanBeScheduledIn(h) /\ AdmissibleWindow(h)
           /\ WorkerGoes("admit", "Add", m, Admit(h))
    /\ UNCHANGED <<cached, tq>>

OnMaintenanceUpdated(m) ==
    /\ Acquire("Update", m)
    /\ m \in cached
    /\ LET h == seen[m] IN
        \/ (Finished(h) \/ ~CanBeScheduledIn(h)) /\ WorkerRests(m)
        \/ /\ ~Finished(h) /\ CanBeScheduledIn(h) /\ ~Admitted(h)
           /\ WorkerGoes("next", "Add", m, Nothing)
        \/ /\ ~Finished(h) /\ CanBeScheduledIn(h) /\ Admitted(h)
           /\ Expired(h, now) \/ ~h.spec.valid
           /\ WorkerRests(m)
        \/ /\ ~Finished(h) /\ CanBeScheduledIn(h) /\ Admitted(h)
           /\ ~Expired(h, now) /\ h.spec.valid
           /\ WorkerGoes("enqueue", "Update", m, Nothing)
    /\ UNCHANGED <<cached, tq>>

OnMaintenanceDeleting(m) ==
    /\ Acquire("Delete", m)
    /\ m \in cached
    /\ LET h == seen[m]
           allowed == CanBeScheduledIn(h) /\ ~(Scheduled(h) /\ ~Finished(h))
       IN
        \/ ~allowed /\ WorkerRests(m) /\ UNCHANGED tq
        \/ /\ allowed /\ WorkerGoes("delete", "Delete", m, h)
           /\ IF Admitted(h) /\ ~Scheduled(h) /\ tq[m] # << >>
              THEN tq' = [tq EXCEPT ![m] = Front(@)]
              ELSE UNCHANGED tq
    /\ UNCHANGED cached

\* The handler does nothing; handleJob then drops the object from the cache if no
\* job of its name is pending.  It looks for one and drops the object in two steps.
OnMaintenanceDeleted(m) ==
    /\ Acquire("Cleanup", m)
    /\ m \in cached
    /\ WorkerGoes("find", "Cleanup", m, Nothing)
    /\ UNCHANGED <<cached, tq>>

FindPending ==
    /\ pc["worker"] = "find"
    /\ LET m == key["worker"] IN
        \/ HasAny(jobQ, m) /\ WorkerRests(m)
        \/ ~HasAny(jobQ, m) /\ WorkerGoes("drop", "Cleanup", m, Nothing)
    /\ UNCHANGED <<now, api, watch, seen, cached, notice, jobQ, delayed, tq, ready, jobs,
                   userOps, errors, crashes>>

DropCached ==
    /\ pc["worker"] = "drop"
    /\ cached' = cached \ {key["worker"]}
    /\ WorkerRests(key["worker"])
    /\ UNCHANGED <<now, api, watch, seen, notice, jobQ, delayed, tq, ready, jobs,
                   userOps, errors, crashes>>

OfferNext ==
    /\ pc["worker"] \in {"next", "retry"}
    /\ jobQ' = Offer(jobQ, Job(action, key["worker"]))
    /\ WorkerRests(key["worker"])
    /\ UNCHANGED <<now, api, watch, seen, cached, notice, delayed, tq, ready, jobs,
                   userOps, errors, crashes>>

\* After a few failures in a row the retry is delayed.
Backoff ==
    /\ pc["worker"] = "retry"
    /\ delayed' = delayed \cup {Job(action, key["worker"])}
    /\ WorkerRests(key["worker"])
    /\ UNCHANGED <<now, api, watch, seen, cached, notice, jobQ, tq, ready, jobs,
                   userOps, errors, crashes>>

\* A failed update is not retried.
WrongSendAdmitted ==
    /\ pc["worker"] = "admit"
    /\ LET m == key["worker"]  h == copy["worker"] IN
        \/ /\ Applied(m, h) /\ UNCHANGED errors
           /\ WorkerGoes("next", "Update", m, Nothing)
        \/ ~Live(m) /\ WorkerRests(m) /\ UNCHANGED <<api, watch, errors>>
        \/ CallFails(m, h) /\ WorkerRests(m)
    /\ UNCHANGED <<now, seen, cached, notice, jobQ, delayed, tq, ready, jobs,
                   userOps, crashes>>

\* onMaintenanceAdded's UpdateStatus.
SendAdmitted ==
    /\ pc["worker"] = "admit"
    /\ LET m == key["worker"]  h == copy["worker"] IN
        \/ /\ Applied(m, h) /\ UNCHANGED errors
           /\ WorkerGoes("next", "Update", m, Nothing)
        \/ ~Live(m) /\ WorkerRests(m) /\ UNCHANGED <<api, watch, errors>>
        \/ CallFails(m, h) /\ WorkerGoes("retry", "Add", m, Nothing)
    /\ UNCHANGED <<now, seen, cached, notice, jobQ, delayed, tq, ready, jobs,
                   userOps, crashes>>

\* onMaintenanceDeleting's Delete: by name, whatever object has it now.
SendDelete ==
    /\ pc["worker"] = "delete"
    /\ LET m == key["worker"] IN
        \/ /\ Live(m) /\ ~api[m].deleting /\ Put(m, Removed(api[m]))
           /\ UNCHANGED errors /\ WorkerRests(m)
        \/ Live(m) /\ api[m].deleting /\ UNCHANGED <<api, watch, errors>> /\ WorkerRests(m)
        \/ /\ ~Live(m) /\ UNCHANGED <<api, watch, errors>>
           /\ WorkerGoes("retry", "Delete", m, Nothing)
        \/ /\ errors < MaxErrors /\ errors' = errors + 1
           /\ \/ UNCHANGED <<api, watch>>
              \/ Live(m) /\ ~api[m].deleting /\ Put(m, Removed(api[m]))
           /\ WorkerGoes("retry", "Delete", m, Nothing)
    /\ UNCHANGED <<now, seen, cached, notice, jobQ, delayed, tq, ready, jobs,
                   userOps, crashes>>

-----------------------------------------------------------------------------
\* scheduleMaintenance, up to its first API call.  The snapshot is written
\* into the object of the store before the call.
ScheduleMaintenance(m) ==
    /\ pc["sched"] = "idle"
    /\ ready # << >> /\ Head(ready) = m
    /\ ready' = Tail(ready)
    /\ LET h == seen[m]
           due == ~h.gone /\ ~Canceled(h) /\ ~Expired(h, now) /\ Started(h, now)
       IN
        \/ ~due /\ SchedGoes("enqueue", m, Nothing) /\ UNCHANGED seen
        \/ due /\ Scheduled(h) /\ SchedGoes("create", m, h) /\ UNCHANGED seen
        \/ /\ due /\ ~Scheduled(h)
           /\ seen' = [seen EXCEPT ![m] = Snapshot(h)]
           /\ SchedGoes("mark", m, Snapshot(h))
    /\ UNCHANGED <<now, api, watch, cached, notice, jobQ, delayed, tq, jobs,
                   userOps, errors, crashes>>

MarkScheduled ==
    /\ pc["sched"] = "mark"
    /\ LET m == key["sched"]  h == copy["sched"] IN
        \/ /\ Applied(m, h) /\ UNCHANGED errors
           /\ SchedGoes("create", m, Stored(m, WithStatus(api[m], h)))
        \/ ~Live(m) /\ SchedGoes("enqueue", m, Nothing) /\ UNCHANGED <<api, watch, errors>>
        \/ CallFails(m, h) /\ SchedGoes("enqueue", m, Nothing)
    /\ UNCHANGED <<now, seen, cached, notice, jobQ, delayed, tq, ready, jobs,
                   userOps, crashes>>

\* Jobs are given to the object that has the name now.
WrongCreateMaintenanceJobs ==
    /\ pc["sched"] = "create"
    /\ LET m == key["sched"]  h == copy["sched"] IN
        /\ SchedGoes("enqueue", m, Nothing)
        /\ \/ UNCHANGED jobs
           \/ jobs' = [jobs EXCEPT ![m] = @ \cup {[uid |-> api[m].uid, spec |-> h.snapshot]}]
    /\ UNCHANGED <<now, api, watch, seen, cached, notice, jobQ, delayed, tq, ready,
                   userOps, errors, crashes>>

\* The rest of scheduleMaintenance: dependencies may hold the jobs back.
CreateMaintenanceJobs ==
    /\ pc["sched"] = "create"
    /\ LET m == key["sched"]  h == copy["sched"] IN
        /\ SchedGoes("enqueue", m, Nothing)
        /\ \/ UNCHANGED jobs
           \/ jobs' = [jobs EXCEPT ![m] = @ \cup {[uid |-> h.uid, spec |-> h.snapshot]}]
    /\ UNCHANGED <<now, api, watch, seen, cached, notice, jobQ, delayed, tq, ready,
                   userOps, errors, crashes>>

-----------------------------------------------------------------------------
\* enqueueMaintenanceForScheduling, called by both goroutines.

Goes(t, p, m, h) ==
    IF t = "worker" THEN WorkerGoes(p, "Update", m, h) ELSE SchedGoes(p, m, h)
Rests(t, m) == IF t = "worker" THEN WorkerRests(m) ELSE SchedRests(m)

\* The process dies, is started again and lists the stored objects.
Restarted ==
    /\ seen' = [m \in Names |-> Nothing]
    /\ cached' = {}
    /\ notice' = {}
    /\ jobQ' = << >>
    /\ delayed' = {}
    /\ tq' = [m \in Names |-> << >>]
    /\ ready' = << >>
    /\ pc' = [t \in Threads |-> "idle"]
    /\ action' = "None"
    /\ key' = key
    /\ copy' = [t \in Threads |-> Nothing]

Relisted(objects) == [m \in Names |-> {objects[m]} \ {h \in {objects[m]} : h.gone}]

\* Where the call ends without entering the queue.
EnqueueStops(t) ==
    /\ pc[t] = "enqueue"
    /\ LET m == key[t]  h == seen[m] IN
        \/ /\ h.gone
           /\ IF t = "worker" THEN WorkerGoes("retry", "Update", m, Nothing)
                              ELSE SchedRests(m)
        \/ ~h.gone /\ (Canceled(h) \/ Finished(h)) /\ Rests(t, m)
        \/ /\ ~h.gone /\ ~Canceled(h) /\ ~Finished(h) /\ ~Expired(h, now)
           /\ tq[m] # << >>
           /\ Rests(t, m)
    /\ UNCHANGED <<now, api, watch, seen, cached, notice, jobQ, delayed, tq, ready, jobs,
                   userOps, errors, crashes>>

\* Expired but not finished: finished is written into the object of the store.
EnqueueFinishes(t) ==
    /\ pc[t] = "enqueue"
    /\ LET m == key[t]  h == seen[m] IN
        /\ ~h.gone /\ ~Canceled(h) /\ ~Finished(h) /\ Expired(h, now)
        /\ seen' = [seen EXCEPT ![m] = Finish(h)]
        /\ Goes(t, "finish", m, Finish(h))
    /\ UNCHANGED <<now, api, watch, cached, notice, jobQ, delayed, tq, ready, jobs,
                   userOps, errors, crashes>>

\* The entry is not looked for; objects that are gone are kept as well.
WrongEnqueueOffersTwice(t) ==
    /\ pc[t] = "enqueue"
    /\ LET m == key[t]  h == seen[m] IN
        /\ ~h.gone /\ ~Canceled(h) /\ ~Finished(h) /\ ~Expired(h, now) /\ Admitted(h)
        /\ Goes(t, IF Started(h, now) THEN "offerDelay" ELSE "offerTime", m, h)
    /\ UNCHANGED <<now, api, watch, seen, cached, notice, jobQ, delayed, tq, ready, jobs,
                   userOps, errors, crashes>>
WrongEnqueueOffersGone(t) ==
    /\ pc[t] = "enqueue"
    /\ LET m == key[t]  h == seen[m] IN
        /\ ~Finished(h) /\ ~Expired(h, now) /\ Admitted(h)
        /\ tq[m] = << >>
        /\ Goes(t, IF Started(h, now) THEN "offerDelay" ELSE "offerTime", m, h)
    /\ UNCHANGED <<now, api, watch, seen, cached, notice, jobQ, delayed, tq, ready, jobs,
                   userOps, errors, crashes>>

\* No entry found.  An object that was never admitted has no ScheduleSince.
EnqueueOffers(t) ==
    /\ pc[t] = "enqueue"
    /\ LET m == key[t]  h == seen[m] IN
        /\ ~h.gone /\ ~Canceled(h) /\ ~Finished(h) /\ ~Expired(h, now)
        /\ tq[m] = << >>
        /\ \/ /\ Admitted(h)
              /\ Goes(t, IF Started(h, now) THEN "offerDelay" ELSE "offerTime", m, h)
              /\ UNCHANGED <<watch, seen, cached, notice, jobQ, delayed, tq, ready>>
           \/ ~Admitted(h) /\ Restarted /\ watch' = Relisted(api)
    /\ UNCHANGED <<now, api, jobs, userOps, errors, crashes>>

\* A failed call leaves an empty object behind, whose ScheduleSince is then
\* dereferenced: the process dies.
SendFinished(t) ==
    /\ pc[t] = "finish"
    /\ LET m == key[t]  h == copy[t] IN
        \/ /\ Applied(m, h) /\ UNCHANGED errors
           /\ Rests(t, m)
           /\ UNCHANGED <<seen, cached, notice, jobQ, delayed, tq, ready>>
        \/ /\ ~Accepts(m, h) /\ UNCHANGED <<api, errors>>
           /\ Restarted /\ watch' = Relisted(api)
        \/ /\ errors < MaxErrors /\ errors' = errors + 1
           /\ \/ UNCHANGED api
              \/ Accepts(m, h) /\ api' = [api EXCEPT ![m] = Stored(m, WithStatus(@, h))]
           /\ Restarted /\ watch' = Relisted(api')
    /\ UNCHANGED <<now, jobs, userOps, crashes>>

OfferToTQ(t) ==
    /\ pc[t] \in {"offerDelay", "offerTime"}
    /\ LET m == key[t]
           due == IF pc[t] = "offerDelay" THEN now + PollInterval ELSE copy[t].since
       IN  /\ tq' = [tq EXCEPT ![m] = Append(@, due)]
           /\ Rests(t, m)
    /\ UNCHANGED <<now, api, watch, seen, cached, notice, jobQ, delayed, ready, jobs,
                   userOps, errors, crashes>>

Crash ==
    /\ crashes < MaxCrashes
    /\ crashes' = crashes + 1
    /\ Restarted /\ watch' = Relisted(api)
    /\ UNCHANGED <<now, api, jobs, userOps, errors>>

-----------------------------------------------------------------------------
Init ==
    /\ now = 1
    /\ api = [m \in Names |-> Nothing]
    /\ watch = [m \in Names |-> {}]
    /\ seen = [m \in Names |-> Nothing]
    /\ cached = {}
    /\ notice = {}
    /\ jobQ = << >>
    /\ delayed = {}
    /\ tq = [m \in Names |-> << >>]
    /\ ready = << >>
    /\ pc = [t \in Threads |-> "idle"]
    /\ action = "None"
    /\ key \in [Threads -> Names]
    /\ copy = [t \in Threads |-> Nothing]
    /\ jobs = [m \in Names |-> {}]
    /\ userOps = 0 /\ errors = 0 /\ crashes = 0

Enqueue(t) ==
    EnqueueStops(t) \/ EnqueueFinishes(t) \/ EnqueueOffers(t) \/ SendFinished(t) \/ OfferToTQ(t)

Handle(m) ==
    \/ \E a \in JobActions : HandleWithoutCache(a, m)
    \/ OnMaintenanceAdded(m) \/ OnMaintenanceUpdated(m)
    \/ OnMaintenanceDeleting(m) \/ OnMaintenanceDeleted(m)

Worker ==
    \/ \E m \in Names : Handle(m)
    \/ FindPending \/ DropCached
    \/ OfferNext \/ Backoff \/ SendAdmitted \/ SendDelete
    \/ Enqueue("worker")

Sched ==
    \/ \E m \in Names : ScheduleMaintenance(m)
    \/ MarkScheduled \/ CreateMaintenanceJobs
    \/ Enqueue("sched")

Users ==
    \E m \in Names :
        \/ \E s \in Specs : Create(m, s) \/ EditSpec(m, s)
        \/ Delete(m) \/ CollectGarbage(m)

Informer == (\E m \in Names : Deliver(m)) \/ (\E j \in notice : Announce(j))
Timers == (\E m \in Names : Wake(m)) \/ (\E j \in delayed : FireDelayed(j))

Next == Users \/ Tick \/ Informer \/ Timers \/ Worker \/ Sched \/ Crash

Spec == Init /\ [][Next]_vars

-----------------------------------------------------------------------------
\* Fairness: the clock, the informer and the timers run in goroutines of their
\* own, and neither the worker nor the scheduler waits for anything but work.
Fairness ==
    /\ WF_vars(Tick) /\ WF_vars(Informer)
    /\ WF_vars(Worker) /\ WF_vars(Sched)
    /\ WF_vars(\E m \in Names : Wake(m))
    /\ WF_vars(\E j \in delayed : FireDelayed(j))

FairSpec == Spec /\ Fairness

-----------------------------------------------------------------------------
\* Properties.

Jobs == [action : JobActions, key : Names]

WorkerPCs == {"idle", "retry", "next", "admit", "delete", "find", "drop"}
SchedPCs == {"idle", "mark", "create"}
EnqueuePCs == {"enqueue", "finish", "offerDelay", "offerTime"}

\* Every variable has its type.
TypeOK ==
    /\ now \in Nat
    /\ api \in [Names -> Object]
    /\ watch \in [Names -> SUBSET Object]
    /\ seen \in [Names -> Object]
    /\ cached \subseteq Names
    /\ notice \subseteq Jobs
    /\ jobQ \in Seq(Jobs)
    /\ delayed \subseteq Jobs
    /\ tq \in [Names -> Seq(Nat)]
    /\ ready \in Seq(Names)
    /\ pc \in [Threads -> WorkerPCs \cup SchedPCs \cup EnqueuePCs]
    /\ pc["worker"] \in WorkerPCs \cup EnqueuePCs
    /\ pc["sched"] \in SchedPCs \cup EnqueuePCs
    /\ action \in JobActions \cup {"None"}
    /\ key \in [Threads -> Names]
    /\ copy \in [Threads -> Object]
    /\ jobs \in [Names -> SUBSET [uid : Nat, spec : Specs]]
    /\ userOps \in Nat /\ errors \in Nat /\ crashes \in Nat

\* What a goroutine holds, less the admission it is about to send.
Unadmitted(h) == [h EXCEPT !.admitted = FALSE, !.since = 0, !.until = 0]
Held(t) == IF pc[t] = "admit" THEN Unadmitted(copy[t]) ELSE copy[t]

\* The versions of m that exist outside the API server.
Versions(m) ==
    watch[m] \cup {seen[m]} \cup {Held(t) : t \in {u \in Threads : key[u] = m}}

\* h is o, or o with a snapshot or a finish that o has not reached.
Extends(h, o) ==
    /\ h.uid = o.uid /\ h.gone = o.gone /\ h.deleting = o.deleting
    /\ h.created = o.created /\ h.spec = o.spec
    /\ h.admitted = o.admitted /\ h.since = o.since /\ h.until = o.until
    /\ h.snapshot \in {o.snapshot, h.spec}
    /\ Scheduled(o) => h.snapshot = o.snapshot
    /\ o.finished => h.finished

\* A version the controller holds, however old or tampered with, is never
\* ahead of the stored object; one that has its resource version, so that an
\* UpdateStatus with it would be accepted, only adds phases to it.  This is
\* what keeps writes into the shared store from undoing what others stored.
AcceptedVersionsExtend ==
    \A m \in Names : \A h \in Versions(m) :
        /\ h.rv <= api[m].rv
        /\ h.rv = api[m].rv => h = Nothing \/ Extends(h, api[m])

\* What can be read from any version, in the store or in flight: phases are
\* entered in order and in time.
PhasesInOrder(h, time) ==
    /\ IF h.admitted THEN h.since < h.until ELSE h.since = 0 /\ h.until = 0
    /\ Scheduled(h) => Started(h, time)
    /\ h.finished => Expired(h, time)

\* Phases of every version, stored or held, are in order and in time: nothing is
\* scheduled before its window opens or finished before it closes.
VersionsInOrder ==
    \A m \in Names : \A h \in Versions(m) \cup {api[m]} : PhasesInOrder(h, now)

\* MaintenanceJobs of an incarnation are created only after its stored window,
\* the one the user was shown when it was admitted, has opened.
JobsOnlyInWindow ==
    \A m \in Names : \A j \in jobs[m] :
        j.uid = api[m].uid => Started(api[m], now)

\* Versions of one incarnation agree on the window they were admitted with, and
\* none is of an incarnation to come.
WindowsAgree ==
    \A m \in Names : \A h \in Versions(m) :
        /\ h.uid <= api[m].uid
        /\ h.uid = api[m].uid /\ h.admitted =>
              api[m].admitted /\ h.since = api[m].since /\ h.until = api[m].until

\* Whatever cancels, replaces and delays jobs, the pending ones make sense
\* together: none twice, and no update of an object about to be added or deleted.
PendingJobsConsistent == Unique(jobQ) /\ Compatible(jobQ)

\* enqueueMaintenanceForScheduling looks for an entry and adds one in two steps,
\* in two goroutines: a name has at most one entry per goroutine.
FewTimers == \A m \in Names : Len(tq[m]) <= Cardinality(Threads)

View(o) ==
    IF o.gone
    THEN [gone |-> TRUE, deleting |-> FALSE, spec |-> NoSpec,
          admitted |-> FALSE, since |-> 0, until |-> 0,
          snapshot |-> NoSpec, finished |-> FALSE]
    ELSE [gone |-> FALSE, deleting |-> o.deleting, spec |-> o.spec,
          admitted |-> o.admitted, since |-> o.since, until |-> o.until,
          snapshot |-> o.snapshot, finished |-> o.finished]

Phases == INSTANCE MaintenancePhases WITH object <- [m \in Names |-> View(api[m])]

\* The stored objects go through their phases as MaintenancePhases says.
ImplementsPhases == Phases!Spec

\* Objects whose name was not used before: what happens to later ones is said by
\* RecreatedGetsAdmitted.
First(o) == o.uid = 1

\* An object that can be admitted is admitted, unless its user deletes it or makes it
\* one that cannot be: through conflicts, failed calls, lost answers, restarts and
\* panics.
Admissible(o) ==
    /\ ~o.gone /\ ~o.deleting
    /\ ~o.admitted /\ CanBeScheduledIn(o) /\ AdmissibleWindow(o)
AdmissibleGetsAdmitted ==
    \A m \in Names :
        (First(api[m]) /\ Admissible(api[m])) ~> ~(First(api[m]) /\ Admissible(api[m]))

\* An admitted object with a usable spec is scheduled once its window opens,
\* unless the window closes, its user deletes or changes the object first, or a
\* call fails: see JobsFollowStoredSnapshot for what comes of that.
Schedulable(o) ==
    /\ ~o.gone /\ ~o.deleting
    /\ o.admitted /\ o.since <= Horizon
    /\ o.spec.targeted /\ o.spec.valid /\ ~Scheduled(o)
AdmittedGetsScheduled ==
    \A m \in Names :
        (First(api[m]) /\ Schedulable(api[m]))
            ~> (\/ ~(First(api[m]) /\ Schedulable(api[m]))
                \/ Expired(api[m], now) \/ errors > 0)

\* A deleted object leaves the timeout queue: it is not polled for ever.
DeletedLeavesQueue ==
    \A m \in Names :
        api[m].gone ~> (~api[m].gone \/ (tq[m] = << >> /\ \A i \in DOMAIN ready : ready[i] # m))

-----------------------------------------------------------------------------
\* What the code's comments say, and the code does not do.

\* scheduleMaintenance: "make sure the maintenance object is immutable since
\* then (by setting status.scheduledAt to now)", then create MaintenanceJobs.
JobsFollowStoredSnapshot ==
    [][\A m \in Names : \A j \in jobs'[m] \ jobs[m] :
            j.uid = api[m].uid => api[m].snapshot = j.spec]_vars

\* onMaintenanceDeleting: "MUST not allow deleting a maintenance already
\* scheduled".
KeepsScheduled ==
    [][\A m \in Names :
        (pc["worker"] = "delete" /\ Live(m) /\ Scheduled(api[m]) /\ ~Finished(api[m])
            /\ pc'["worker"] # "delete" /\ userOps' = userOps /\ crashes' = crashes)
        => ~api'[m].gone]_vars

\* onMaintenanceAdded "will only be called once for each maintenance object in the
\* cluster", and "once the object has all the required fields, the controller will
\* admit it": also one whose name was used before.
RecreatedGetsAdmitted ==
    \A m \in Names : (Admissible(api[m]) /\ api[m].uid > 1) ~> ~Admissible(api[m])
=============================================================================
