--------------------------- MODULE MaintenanceJob ---------------------------
(***************************************************************************)
(* The life of one MaintenanceJob: the stages of a maintenance on a node.  *)
(* A stage drains nodes, uncordons them, runs a pod through a Kubernetes   *)
(* Job, or does none of these.                                             *)
(*                                                                         *)
(* The stored object (api) is created by the Maintenance controller and    *)
(* deleted by users.  The informer delivers its versions (watch) into the  *)
(* shared store (seen) and schedules jobs.  Three goroutines work on it:   *)
(*   - the reconcile worker of MaintenanceJobs fills in stage statuses and *)
(*     enters the object into the timeout queue (tq);                      *)
(*   - the scheduler takes it from the queue, makes a pass over its stages *)
(*     and enters it again;                                                *)
(*   - the reconcile worker of Jobs hears of the Jobs of pod stages.       *)
(* The scheduler changes the object of the store in place before it calls  *)
(* UpdateStatus, and goes on with the answer of the call.                  *)
(***************************************************************************)
EXTENDS JobQueue

CONSTANTS
    Nodes,         \* nodes of the cluster
    Specs,         \* stage lists MaintenanceJobs are created with
    PollInterval,  \* config.Maintenance.Jobs.PollInterval
    Horizon,       \* bound: the clock stops here
    MaxUserOps,    \* bound: creations and deletions
    MaxErrors,     \* bound: calls that fail
    MaxLost,       \* bound: UpdateStatus calls that succeed, but whose answer is lost
    MaxCrashes     \* bound: restarts other than those after a panic

\* Of a stage that asks for more than one thing, the first of these counts; nothing
\* makes users ask for any.  nodes are those the selector of a drain lists.
Kinds == {"drain", "uncordon", "pod", "none"}
Stage == [kind : Kinds, delay : Nat, timeout : Nat, nodes : SUBSET Nodes]

ASSUME SpecsAssumption == Specs \subseteq Seq(Stage)
ASSUME BoundsAssumption ==
    /\ PollInterval \in Nat /\ Horizon \in Nat
    /\ MaxUserOps \in Nat /\ MaxErrors \in Nat /\ MaxLost \in Nat /\ MaxCrashes \in Nat

\* MaintenanceJobStageStatus.  A time of 0 is unset.
StageStatus == [scheduledAt : Nat, finishedAt : Nat,
                running : BOOLEAN, succeeded : BOOLEAN, failed : BOOLEAN]
NewStage == [scheduledAt |-> 0, finishedAt |-> 0,
             running |-> FALSE, succeeded |-> FALSE, failed |-> FALSE]

\* A version of the object; deleting is its deletion timestamp.
Object == [rv : Nat, uid : Nat, gone : BOOLEAN, deleting : BOOLEAN, created : Nat,
           spec : Specs \cup {<< >>}, stages : Seq(StageStatus),
           succeededAt : Nat, failedAt : Nat]
Nothing == [rv |-> 0, uid |-> 0, gone |-> TRUE, deleting |-> FALSE, created |-> 0,
            spec |-> << >>, stages |-> << >>, succeededAt |-> 0, failedAt |-> 0]

\* The Kubernetes Job of a pod stage, owned by an incarnation (0: no Job).
JobStates == {"active", "complete", "failed"}
NoJob == [uid |-> 0, state |-> "active", created |-> 0]

VARIABLES
    now,      \* the clock
    api,      \* the stored object
    watch,    \* its versions not yet delivered
    seen,     \* the informer's store; a tombstone after a delete event
    cached,   \* the reconciler's cache has an object
    notice,   \* the action of the job the informer is about to schedule, if any
    jobQ,     \* the reconciler's job queue
    delayed,  \* jobs waiting in its backoff queue
    tq,       \* times at which the object is to leave the timeout queue
    ready,    \* how often it has left it and was not taken yet
    wpc, action, wcopy,  \* the worker: where it is, its action, the version it holds
    pc, copy, \* the scheduler: where it is, the version it holds
    at,       \* the stage the scheduler looks at
    shared,   \* copy is the object of the store, and changes with it
    todo,     \* the nodes a drain has yet to look at
    kjobs,    \* the Job of each stage
    events,   \* stages whose Job has an update not yet handled
    tainted,  \* nodes no pods are scheduled on any more
    userOps, errors, lost, crashes  \* how much of each bound is used

rec == <<cached, notice, jobQ, delayed>>
worker == <<wpc, action, wcopy>>
sched == <<pc, copy, at, shared, todo>>
cluster == <<kjobs, events, tainted>>
bounds == <<userOps, errors, lost, crashes>>
vars == <<now, api, watch, seen, rec, tq, ready, worker, sched, cluster, bounds>>

-----------------------------------------------------------------------------
\* Predicates on a version.

LastStage(h) == h.stages[Len(h.stages)]

Complete(h) == Len(h.stages) = Len(h.spec)

\* Finished and Succeeded panic when the lists are empty.
Finished(h) == Complete(h) /\ LastStage(h).finishedAt # 0

\* A faulty variant of the next definition, used by no specification.
WrongSucceeded(h) == Complete(h) /\ \E i \in DOMAIN h.stages : h.stages[i].succeeded
Succeeded(h) == Complete(h) /\ LastStage(h).succeeded

\* A faulty variant of the next definition: one stage too many.
WrongWithStages(h) ==
    [h EXCEPT !.stages = [i \in 1..Len(h.spec) + 1 |-> IF i \in DOMAIN @ THEN @[i] ELSE NewStage]]
\* The stages the status does not have yet are appended.
WithStages(h) ==
    [h EXCEPT !.stages = [i \in DOMAIN h.spec |-> IF i \in DOMAIN @ THEN @[i] ELSE NewStage]]

SetStage(h, i, s) == [h EXCEPT !.stages[i] = s]

Begun(s) == [s EXCEPT !.scheduledAt = now, !.running = TRUE]
Ended(s, ok) ==
    [s EXCEPT !.finishedAt = now, !.running = FALSE, !.succeeded = ok, !.failed = ~ok]

TimedOut(h, i) == now > h.stages[i].scheduledAt + h.spec[i].timeout

\* The delay of a stage counts from the end of the one before it; if that has
\* no end, from a time long ago.
DelayOver(h, i) ==
    LET since == IF i = 1 THEN h.created ELSE h.stages[i - 1].finishedAt
    IN  since = 0 \/ now >= since + h.spec[i].delay

-----------------------------------------------------------------------------
\* The API server, as in Maintenance.

Stored(o) == [o EXCEPT !.rv = api.rv + 1]
Put(o) == api' = Stored(o) /\ watch' = watch \cup {Stored(o)}

WithStatus(o, h) ==
    [o EXCEPT !.stages = h.stages, !.succeededAt = h.succeededAt, !.failedAt = h.failedAt]

Live == ~api.gone
Applied(h) == Live /\ api.rv = h.rv /\ Put(WithStatus(api, h))
CallFails(h) ==
    \/ (~Live \/ api.rv # h.rv) /\ UNCHANGED <<api, watch, errors, lost>>
    \/ errors < MaxErrors /\ errors' = errors + 1 /\ UNCHANGED <<api, watch, lost>>
    \/ lost < MaxLost /\ lost' = lost + 1 /\ Applied(h) /\ UNCHANGED errors

-----------------------------------------------------------------------------
\* Users, the Maintenance controller, the clock.

UserOp ==
    /\ userOps < MaxUserOps
    /\ userOps' = userOps + 1
    /\ UNCHANGED <<now, seen, rec, tq, ready, worker, sched, cluster, errors, lost, crashes>>

Create ==
    /\ UserOp
    /\ ~Live
    /\ \E s \in Specs :
        Put([Nothing EXCEPT !.uid = api.uid + 1, !.gone = FALSE, !.created = now, !.spec = s])

\* A background deletion removes the object, a foreground one marks it and leaves it
\* to the garbage collector.
Delete ==
    /\ UserOp
    /\ Live /\ ~api.deleting
    /\ Put([api EXCEPT !.gone = TRUE]) \/ Put([api EXCEPT !.deleting = TRUE])

CollectGarbage ==
    /\ Live /\ api.deleting
    /\ Put([api EXCEPT !.gone = TRUE])
    /\ UNCHANGED <<now, seen, rec, tq, ready, worker, sched, cluster, bounds>>

Tick ==
    /\ now < Horizon
    /\ now' = now + 1
    /\ UNCHANGED <<api, watch, seen, rec, tq, ready, worker, sched, cluster, bounds>>

\* The Job controller runs a Job; it or the garbage collector removes Jobs.
JobEnds(i) ==
    /\ kjobs[i].uid # 0 /\ kjobs[i].state = "active"
    /\ \E r \in {"complete", "failed"} : kjobs' = [kjobs EXCEPT ![i].state = r]
    /\ events' = events \cup {i}
    /\ UNCHANGED <<now, api, watch, seen, rec, tq, ready, worker, sched, tainted, bounds>>

CollectJob(i) ==
    /\ kjobs[i].uid # 0 /\ (~Live \/ api.deleting \/ kjobs[i].uid # api.uid)
    /\ kjobs' = [kjobs EXCEPT ![i] = NoJob]
    /\ events' = events \ {i}
    /\ UNCHANGED <<now, api, watch, seen, rec, tq, ready, worker, sched, tainted, bounds>>

-----------------------------------------------------------------------------
\* The informer stores a version (Deliver), and then schedules a job for it
\* (Announce).  What the scheduler holds is no longer the object of the store.

\* The one key of the queue.
MtJob == "mtjob"

Event(h) ==
    CASE h.gone -> "Cleanup"
      [] ~h.gone /\ seen.gone -> "Add"
      [] ~h.gone /\ ~seen.gone /\ h.deleting -> "Delete"
      [] OTHER -> "Update"

Deliver ==
    \E h \in watch :
        /\ notice = {}
        /\ \A g \in watch : h.rv <= g.rv
        /\ watch' = watch \ {h}
        /\ seen' = h
        /\ shared' = FALSE
        /\ cached' = TRUE
        /\ notice' = {Event(h)}
        /\ UNCHANGED <<now, api, jobQ, delayed, tq, ready, worker, pc, copy, at, todo,
                       cluster, bounds>>

\* Schedule cancels a pending equal job and offers it again.
Announce(a) ==
    /\ a \in notice
    /\ notice' = {}
    /\ jobQ' = Offer(Without(jobQ, a, MtJob), Job(a, MtJob))
    /\ delayed' = delayed \ {a}
    /\ UNCHANGED <<now, api, watch, seen, cached, tq, ready, worker, sched, cluster, bounds>>

Wake ==
    /\ \E i \in DOMAIN tq :
        /\ tq[i] <= now
        /\ \A k \in DOMAIN tq : tq[i] <= tq[k]
        /\ tq' = RemoveAt(tq, i)
    /\ ready' = ready + 1
    /\ UNCHANGED <<now, api, watch, seen, rec, worker, sched, cluster, bounds>>

FireDelayed(a) ==
    /\ a \in delayed
    /\ delayed' = delayed \ {a}
    /\ jobQ' = Offer(jobQ, Job(a, MtJob))
    /\ UNCHANGED <<now, api, watch, seen, cached, notice, tq, ready, worker, sched, cluster,
                   bounds>>

-----------------------------------------------------------------------------
\* enqueueMaintenanceJobForScheduling: does it end without an entry?  The stages
\* behind a running one are not looked at.
NoMoreScheduling(h) ==
    \/ \E i \in DOMAIN h.stages :
          h.stages[i].failed /\ \A k \in 1..i : ~h.stages[k].running
    \/ Complete(h) /\ \A i \in DOMAIN h.stages :
          h.stages[i].succeeded /\ ~h.stages[i].running

-----------------------------------------------------------------------------
\* The reconcile worker.

WorkerGoes(p, a, h) == wpc' = p /\ action' = a /\ wcopy' = h
WorkerRests == WorkerGoes("idle", "None", Nothing)

Acquire(a) ==
    /\ wpc = "idle"
    /\ jobQ # << >> /\ Head(jobQ) = Job(a, MtJob)
    /\ jobQ' = Tail(jobQ)
    /\ UNCHANGED <<now, api, watch, seen, notice, delayed, tq, ready, sched, cluster, bounds>>

HandleWithoutCache(a) ==
    /\ Acquire(a)
    /\ ~cached
    /\ WorkerGoes("retry", a, Nothing)
    /\ UNCHANGED cached

OnMaintenanceJobAdded ==
    /\ Acquire("Add")
    /\ cached
    /\ IF Complete(seen)
       THEN /\ seen.stages # << >>
            /\ IF Finished(seen) THEN WorkerRests ELSE WorkerGoes("enqueue", "Add", Nothing)
       ELSE IF Len(seen.stages) > Len(seen.spec)
       THEN WorkerRests
       ELSE WorkerGoes("fill", "Add", WithStages(seen))
    /\ UNCHANGED cached

\* onMaintenanceJobUpdated and onMaintenanceJobDeleting do nothing.
OnMaintenanceJobUpdated ==
    /\ Acquire("Update") \/ Acquire("Delete")
    /\ cached
    /\ WorkerRests
    /\ UNCHANGED cached

\* Nor does onMaintenanceJobDeleted; handleJob then drops the object from the cache
\* if no job is pending.  It looks for one and drops the object in two steps.
OnMaintenanceJobDeleted ==
    /\ Acquire("Cleanup")
    /\ cached
    /\ WorkerGoes("find", "Cleanup", Nothing)
    /\ UNCHANGED cached

FindPending ==
    /\ wpc = "find"
    /\ \/ HasAny(jobQ, MtJob) /\ WorkerRests
       \/ ~HasAny(jobQ, MtJob) /\ WorkerGoes("drop", "Cleanup", Nothing)
    /\ UNCHANGED <<now, api, watch, seen, rec, tq, ready, sched, cluster, bounds>>

DropCached ==
    /\ wpc = "drop"
    /\ cached' = FALSE
    /\ WorkerRests
    /\ UNCHANGED <<now, api, watch, seen, notice, jobQ, delayed, tq, ready, sched, cluster,
                   bounds>>

\* A faulty variant of the next definition: a failed update is not retried.
WrongSendStages ==
    /\ wpc = "fill"
    /\ \/ Applied(wcopy) /\ WorkerGoes("enqueue", "Add", Nothing) /\ UNCHANGED <<errors, lost>>
       \/ CallFails(wcopy) /\ WorkerRests
    /\ UNCHANGED <<now, seen, rec, tq, ready, sched, cluster, userOps, crashes>>

SendStages ==
    /\ wpc = "fill"
    /\ \/ Applied(wcopy) /\ WorkerGoes("enqueue", "Add", Nothing) /\ UNCHANGED <<errors, lost>>
       \/ CallFails(wcopy) /\ WorkerGoes("retry", "Add", Nothing)
    /\ UNCHANGED <<now, seen, rec, tq, ready, sched, cluster, userOps, crashes>>

EnqueueAdded ==
    /\ wpc = "enqueue"
    /\ \/ seen.gone /\ WorkerGoes("retry", "Add", Nothing) /\ UNCHANGED tq
       \/ ~seen.gone /\ NoMoreScheduling(seen) /\ WorkerRests /\ UNCHANGED tq
       \/ ~seen.gone /\ ~NoMoreScheduling(seen) /\ WorkerRests /\ tq' = Append(tq, now)
    /\ UNCHANGED <<now, api, watch, seen, rec, ready, sched, cluster, bounds>>

\* A failed job is offered again, at once or after a delay.
Retry ==
    /\ wpc = "retry"
    /\ \/ jobQ' = Offer(jobQ, Job(action, MtJob)) /\ UNCHANGED delayed
       \/ delayed' = delayed \cup {action} /\ UNCHANGED jobQ
    /\ WorkerRests
    /\ UNCHANGED <<now, api, watch, seen, cached, notice, tq, ready, sched, cluster, bounds>>

-----------------------------------------------------------------------------
\* The scheduler.  A pass of scheduleMaintenanceJob looks at one stage after the
\* other; copy is its mtJob, and what it writes into it is in the store as long
\* as copy is the store's object.

SchedGoes(p) == pc' = p /\ UNCHANGED <<copy, at, shared, todo>>
Write(h) ==
    /\ copy' = h
    /\ seen' = IF shared THEN h ELSE seen
    /\ UNCHANGED <<at, shared, todo>>

StartPass ==
    /\ pc = "idle" /\ ready > 0
    /\ ready' = ready - 1
    /\ IF seen.gone \/ seen.succeededAt # 0 \/ seen.failedAt # 0
       THEN SchedGoes("enqueue")
       ELSE pc' = "stage" /\ copy' = seen /\ at' = 1 /\ shared' = TRUE /\ UNCHANGED todo
    /\ UNCHANGED <<now, api, watch, seen, rec, tq, worker, cluster, bounds>>

Looking == pc = "stage" /\ at \in DOMAIN copy.stages
Current == copy.stages[at]
Kind == copy.spec[at].kind
OwnWork == Kind \in {"drain", "uncordon"}

\* Faulty variants of the next definition: a stage that has ended, or one that is
\* running, is begun again.
WrongIdle(s) == ~s.running
TooIdle(s) == ~s.succeeded /\ ~s.failed
Idle(s) == ~s.running /\ ~s.succeeded /\ ~s.failed

\* No stage is left, or nothing is to be done for this one yet.
PassEnds ==
    /\ pc = "stage"
    /\ at \in DOMAIN copy.stages =>
        CASE Current.failed \/ Current.succeeded -> Current.finishedAt = 0
          [] Current.running -> ~OwnWork
          [] OTHER -> ~DelayOver(copy, at)
    /\ SchedGoes("enqueue")
    /\ UNCHANGED <<now, api, watch, seen, rec, tq, ready, worker, cluster, bounds>>

RecordFailed ==
    /\ Looking
    /\ Current.failed /\ Current.finishedAt # 0
    /\ Write([copy EXCEPT !.failedAt = Current.finishedAt])
    /\ pc' = "send"
    /\ UNCHANGED <<now, api, watch, rec, tq, ready, worker, cluster, bounds>>

RecordSucceeded ==
    /\ Looking
    /\ Current.succeeded /\ Current.finishedAt # 0 /\ Succeeded(copy)
    /\ Write([copy EXCEPT !.succeededAt = Current.finishedAt])
    /\ pc' = "sendOn"
    /\ UNCHANGED <<now, api, watch, rec, tq, ready, worker, cluster, bounds>>

\* A faulty variant of the next definition: running stages are skipped, too.
WrongSkipStage ==
    /\ Looking
    /\ Current.running \/ (Current.succeeded /\ ~Succeeded(copy))
    /\ at' = at + 1
    /\ UNCHANGED <<now, api, watch, seen, rec, tq, ready, worker, pc, copy, shared, todo, cluster,
                   bounds>>

SkipStage ==
    /\ Looking
    /\ Current.succeeded /\ Current.finishedAt # 0 /\ ~Succeeded(copy)
    /\ at' = at + 1
    /\ UNCHANGED <<now, api, watch, seen, rec, tq, ready, worker, pc, copy, shared, todo, cluster,
                   bounds>>

\* A stage that asks for nothing: the loop goes on to the next one.
PassOver ==
    /\ Looking
    /\ Idle(Current) /\ DelayOver(copy, at) /\ Kind = "none"
    /\ at' = at + 1
    /\ UNCHANGED <<now, api, watch, seen, rec, tq, ready, worker, pc, copy, shared, todo, cluster,
                   bounds>>

TimeOut ==
    /\ Looking
    /\ Current.running /\ OwnWork /\ TimedOut(copy, at)
    /\ Write(SetStage(copy, at, Ended(Current, FALSE)))
    /\ pc' = "send"
    /\ UNCHANGED <<now, api, watch, rec, tq, ready, worker, cluster, bounds>>

\* drainNodes lists the nodes of the stage, which may fail, and looks at one after
\* the other: those that lack the taint get it.  When something fails, the stage goes
\* on running.
DrainFails ==
    /\ errors < MaxErrors /\ errors' = errors + 1
    /\ SchedGoes("send")
    /\ UNCHANGED <<now, api, watch, seen, rec, tq, ready, worker, kjobs, events,
                   userOps, lost, crashes>>

Draining == Looking /\ Current.running /\ Kind = "drain" /\ ~TimedOut(copy, at)

ListNodes ==
    /\ Draining
    /\ pc' = "drain" /\ todo' = copy.spec[at].nodes
    /\ UNCHANGED <<now, api, watch, seen, rec, tq, ready, worker, copy, at, shared, cluster,
                   bounds>>

ListFails == Draining /\ DrainFails /\ UNCHANGED tainted

\* A faulty variant of the next definition: a node that has the taint ends the loop, as
\* it does in uncordonNodes.
WrongTaintNode(n) ==
    /\ pc = "drain" /\ n \in todo
    /\ todo' = IF n \in tainted THEN {} ELSE todo \ {n}
    /\ tainted' = tainted \cup {n}
    /\ UNCHANGED <<now, api, watch, seen, rec, tq, ready, worker, pc, copy, at, shared,
                   kjobs, events, bounds>>

TaintNode(n) ==
    /\ pc = "drain" /\ n \in todo
    /\ todo' = todo \ {n}
    /\ tainted' = tainted \cup {n}
    /\ UNCHANGED <<now, api, watch, seen, rec, tq, ready, worker, pc, copy, at, shared,
                   kjobs, events, bounds>>

\* The patch may have arrived.
TaintFails(n) ==
    /\ pc = "drain" /\ n \in todo \ tainted
    /\ DrainFails
    /\ tainted' \in {tainted, tainted \cup {n}}

Drained ==
    /\ pc = "drain" /\ todo = {}
    /\ Write(SetStage(copy, at, Ended(Current, TRUE)))
    /\ pc' = "send"
    /\ UNCHANGED <<now, api, watch, rec, tq, ready, worker, cluster, bounds>>

Begin ==
    /\ Looking
    /\ Idle(Current) /\ DelayOver(copy, at) /\ OwnWork
    /\ Write(SetStage(copy, at, Begun(Current)))
    /\ pc' = "sendOn"
    /\ UNCHANGED <<now, api, watch, rec, tq, ready, worker, cluster, bounds>>

StartJob ==
    /\ Looking
    /\ Idle(Current) /\ DelayOver(copy, at) /\ Kind = "pod"
    /\ SchedGoes("create")
    /\ UNCHANGED <<now, api, watch, seen, rec, tq, ready, worker, cluster, bounds>>

\* The name of a Job is made of those of the MaintenanceJob and the stage: one of
\* an earlier incarnation stands in the way.
AddJob ==
    kjobs' = IF kjobs[at].uid # 0 THEN kjobs
             ELSE [kjobs EXCEPT ![at] = [uid |-> copy.uid, state |-> "active", created |-> now]]

\* A faulty variant of the next definition: the pass is not repeated after a
\* failure.
WrongCreateJob ==
    /\ pc = "create"
    /\ \/ AddJob /\ UNCHANGED errors /\ SchedGoes("enqueue")
       \/ /\ errors < MaxErrors /\ errors' = errors + 1
          /\ AddJob \/ UNCHANGED kjobs
          /\ SchedGoes("idle")
    /\ UNCHANGED <<now, api, watch, seen, rec, tq, ready, worker, events, tainted, userOps, lost,
                   crashes>>

CreateJob ==
    /\ pc = "create"
    /\ \/ AddJob /\ UNCHANGED errors
       \/ /\ errors < MaxErrors /\ errors' = errors + 1
          /\ AddJob \/ UNCHANGED kjobs
    /\ SchedGoes("enqueue")
    /\ UNCHANGED <<now, api, watch, seen, rec, tq, ready, worker, events, tainted, userOps, lost,
                   crashes>>

\* UpdateStatus calls after which the pass ends.
Send ==
    /\ pc = "send"
    /\ (Applied(copy) /\ UNCHANGED <<errors, lost>>) \/ CallFails(copy)
    /\ SchedGoes("enqueue")
    /\ UNCHANGED <<now, seen, rec, tq, ready, worker, cluster, userOps, crashes>>

\* UpdateStatus calls after which it goes on to the next stage, with the answer.
SendOn ==
    /\ pc = "sendOn"
    /\ \/ /\ Applied(copy) /\ UNCHANGED <<errors, lost>>
          /\ pc' = "stage" /\ at' = at + 1
          /\ copy' = Stored(WithStatus(api, copy)) /\ shared' = FALSE /\ UNCHANGED todo
       \/ CallFails(copy) /\ SchedGoes("enqueue")
    /\ UNCHANGED <<now, seen, rec, tq, ready, worker, cluster, userOps, crashes>>

EnqueueAgain ==
    /\ pc = "enqueue"
    /\ pc' = "idle" /\ copy' = Nothing /\ at' = 1 /\ shared' = FALSE /\ todo' = {}
    /\ tq' = IF seen.gone \/ NoMoreScheduling(seen) THEN tq ELSE Append(tq, now + PollInterval)
    /\ UNCHANGED <<now, api, watch, seen, rec, ready, worker, cluster, bounds>>

-----------------------------------------------------------------------------
\* The process dies, is started again and lists the stored object.
Restarted ==
    /\ seen' = Nothing
    /\ watch' = {o \in {api} : ~o.gone}
    /\ cached' = FALSE /\ notice' = {} /\ jobQ' = << >> /\ delayed' = {}
    /\ tq' = << >> /\ ready' = 0
    /\ wpc' = "idle" /\ action' = "None" /\ wcopy' = Nothing
    /\ pc' = "idle" /\ copy' = Nothing /\ at' = 1 /\ shared' = FALSE /\ todo' = {}
    /\ events' = {}
    /\ UNCHANGED <<now, api, kjobs, tainted, userOps, errors, lost>>

\* onMaintenanceJobAdded, with a MaintenanceJob of no stages.
LookAtNoStage ==
    /\ wpc = "idle"
    /\ jobQ # << >> /\ Head(jobQ) = Job("Add", MtJob)
    /\ cached /\ Complete(seen) /\ seen.stages = << >>
    /\ Restarted
    /\ UNCHANGED crashes

\* uncordonNodes reads the node selector of the drain spec, which the stage does
\* not have.
UncordonNodes ==
    /\ Looking
    /\ Current.running /\ Kind = "uncordon" /\ ~TimedOut(copy, at)
    /\ Restarted
    /\ UNCHANGED crashes

Crash ==
    /\ crashes < MaxCrashes
    /\ crashes' = crashes + 1
    /\ Restarted

-----------------------------------------------------------------------------
\* The reconcile worker of Jobs.

\* The stage status that the Job of a stage stands for.
StageOfJob(j) ==
    [scheduledAt |-> j.created,
     finishedAt |-> IF j.state = "active" THEN 0 ELSE now,
     running |-> j.state = "active",
     succeeded |-> j.state = "complete",
     failed |-> j.state = "failed"]

\* The switch takes its first case that holds, so that an update is due only if
\* everything has changed; and finishedAt is compared with itself.
NeedToUpdate(old, new) ==
    /\ old.scheduledAt # new.scheduledAt
    /\ old.running # new.running
    /\ old.succeeded # new.succeeded
    /\ old.failed # new.failed
    /\ old.finishedAt # old.finishedAt

\* The MaintenanceJob is looked up by the name of the Job's owner.
OnJobUpdated(i) ==
    /\ i \in events
    /\ LET new == StageOfJob(kjobs[i])
           due == /\ ~seen.gone /\ i \in DOMAIN seen.stages
                  /\ seen.stages[i].finishedAt = 0
                  /\ NeedToUpdate(seen.stages[i], new)
           h == SetStage(seen, i, new)
       IN IF due
          THEN \/ Applied(h) /\ UNCHANGED <<errors, lost>> /\ events' = events \ {i}
               \/ CallFails(h) /\ UNCHANGED events
          ELSE events' = events \ {i} /\ UNCHANGED <<api, watch, errors, lost>>
    /\ UNCHANGED <<now, seen, rec, tq, ready, worker, sched, kjobs, tainted, userOps, crashes>>

-----------------------------------------------------------------------------
Positions == 1..Max({Len(s) : s \in Specs})

Init ==
    /\ now = 1
    /\ api = Nothing /\ seen = Nothing /\ watch = {}
    /\ cached = FALSE /\ notice = {} /\ jobQ = << >> /\ delayed = {}
    /\ tq = << >> /\ ready = 0
    /\ wpc = "idle" /\ action = "None" /\ wcopy = Nothing
    /\ pc = "idle" /\ copy = Nothing /\ at = 1 /\ shared = FALSE /\ todo = {}
    /\ kjobs = [i \in Positions |-> NoJob] /\ events = {} /\ tainted = {}
    /\ userOps = 0 /\ errors = 0 /\ lost = 0 /\ crashes = 0

Worker ==
    \/ \E a \in JobActions : HandleWithoutCache(a)
    \/ OnMaintenanceJobAdded \/ LookAtNoStage \/ OnMaintenanceJobUpdated
    \/ OnMaintenanceJobDeleted \/ FindPending \/ DropCached
    \/ SendStages \/ EnqueueAdded \/ Retry

Pass ==
    \/ PassEnds \/ RecordFailed \/ RecordSucceeded \/ SkipStage \/ PassOver
    \/ TimeOut \/ ListNodes \/ ListFails \/ Drained \/ UncordonNodes
    \/ (\E n \in Nodes : TaintNode(n) \/ TaintFails(n))
    \/ Begin \/ StartJob \/ CreateJob \/ Send \/ SendOn

Scheduler == StartPass \/ Pass \/ EnqueueAgain

Informer == Deliver \/ \E a \in notice : Announce(a)

Cluster == \E i \in Positions : JobEnds(i) \/ CollectJob(i)

Next ==
    \/ Create \/ Delete \/ CollectGarbage \/ Tick \/ Cluster
    \/ Informer \/ Wake \/ (\E a \in delayed : FireDelayed(a))
    \/ Worker \/ Scheduler
    \/ (\E i \in Positions : OnJobUpdated(i))
    \/ Crash

Spec == Init /\ [][Next]_vars

\* The clock, the informer, the timers and the goroutines run on, Jobs end, and
\* those whose owner is gone are collected.
Fairness ==
    /\ WF_vars(Tick) /\ WF_vars(Informer) /\ WF_vars(Wake)
    /\ WF_vars(Worker) /\ WF_vars(Scheduler)
    /\ WF_vars(\E a \in delayed : FireDelayed(a))
    /\ \A i \in Positions :
        WF_vars(JobEnds(i)) /\ WF_vars(CollectJob(i)) /\ WF_vars(OnJobUpdated(i))

FairSpec == Spec /\ Fairness

-----------------------------------------------------------------------------
\* Properties.

WorkerPCs == {"idle", "retry", "fill", "enqueue", "find", "drop"}
SchedPCs == {"idle", "stage", "drain", "create", "send", "sendOn", "enqueue"}

\* Every variable has its type, and no status has more stages than its spec.
TypeOK ==
    /\ now \in Nat
    /\ \A h \in watch \cup {api, seen, copy, wcopy} :
        h \in Object /\ Len(h.stages) <= Len(h.spec)
    /\ cached \in BOOLEAN /\ shared \in BOOLEAN /\ notice \subseteq JobActions
    /\ jobQ \in Seq([action : JobActions, key : {MtJob}]) /\ delayed \subseteq JobActions
    /\ tq \in Seq(Nat) /\ ready \in Nat
    /\ wpc \in WorkerPCs /\ action \in JobActions \cup {"None"}
    /\ pc \in SchedPCs /\ at \in Nat \ {0} /\ todo \subseteq Nodes
    /\ kjobs \in [Positions -> [uid : Nat, state : JobStates, created : Nat]]
    /\ events \subseteq Positions /\ tainted \subseteq Nodes
    /\ userOps \in Nat /\ errors \in Nat /\ lost \in Nat /\ crashes \in Nat

\* Versions of the object, wherever they are.
Versions == watch \cup {api, seen, copy, wcopy}

\* Stages may begin together, and what the scheduler writes into the shared store
\* may never be stored; still, in every version a stage only has a result once all
\* stages before it that ask for something have succeeded, and is not running any more.
ResultsInTurn ==
    \A h \in Versions : \A i \in DOMAIN h.stages :
        h.stages[i].succeeded \/ h.stages[i].failed =>
            /\ \A k \in 1..i - 1 : h.spec[k].kind # "none" => h.stages[k].succeeded
            /\ ~h.stages[i].running
            /\ h.stages[i].scheduledAt # 0
            /\ h.stages[i].scheduledAt <= h.stages[i].finishedAt

\* The result of a stage, once stored, stays: no pass on an old version and no
\* second entry in the timeout queue takes it back.
ResultsStay ==
    [][api'.uid = api.uid =>
        \A i \in DOMAIN api.stages :
            api.stages[i].finishedAt # 0 => api'.stages[i] = api.stages[i]]_vars

\* A recorded outcome is that of the stages: success of the last one and of all others
\* that ask for something, or the failure of one at that time, never both.
OutcomeOfStages ==
    \A h \in Versions :
        /\ h.succeededAt # 0 =>
              /\ Complete(h) /\ h.stages # << >> /\ LastStage(h).succeeded
              /\ \A i \in DOMAIN h.stages : h.spec[i].kind # "none" => h.stages[i].succeeded
        /\ h.failedAt # 0 => \E i \in DOMAIN h.stages :
              h.stages[i].failed /\ h.stages[i].finishedAt = h.failedAt

\* A drain stage has only succeeded in a version when every node that its selector
\* lists has been tainted, by one pass or by several: through failing patches, second
\* passes, restarts and the drains of other stages and incarnations.
SuccessMeansTainted ==
    \A h \in Versions : \A i \in DOMAIN h.stages :
        h.spec[i].kind = "drain" /\ h.stages[i].succeeded => h.spec[i].nodes \subseteq tainted

\* What is seen of the stored object.
View(o) ==
    IF o.gone
    THEN [gone |-> TRUE, spec |-> << >>, stages |-> << >>, succeededAt |-> 0, failedAt |-> 0]
    ELSE [gone |-> FALSE, spec |-> o.spec, stages |-> o.stages,
          succeededAt |-> o.succeededAt, failedAt |-> o.failedAt]

Phases == INSTANCE StagePhases WITH object <- View(api)

\* The stages of the stored object begin, end and make up the outcome as StagePhases
\* says: through updates that fail and are carried along by later ones, passes on old
\* versions, second entries in the timeout queue, and restarts.
ImplementsPhases == Phases!Spec

\* The first incarnation is there, and not to be deleted.
First == Live /\ ~api.deleting /\ api.uid = 1

\* The first incarnation of the MaintenanceJob gets a status for each of its
\* stages, unless it is deleted: through failed calls and restarts.
StagesGetListed == First ~> (~First \/ Complete(api))

\* Its pod stages, those that come first or behind stages that ask for nothing and
\* drains that have time enough, get their Jobs: through failed calls and restarts.
\* (Of an object created early enough for the delay of the stage to end before the
\* clock stops.)
PodStagesGetJobs ==
    \A i \in Positions :
        (/\ First /\ i \in DOMAIN api.spec
         /\ api.spec[i].kind = "pod" /\ api.created + api.spec[i].delay <= Horizon)
            ~> (~First \/ kjobs[i].uid = 1)

-----------------------------------------------------------------------------
\* What the code's comments say, and the code does not do.

\* onJobUpdated "will trigger updates for MaintenanceJob status": the end of a Job
\* ends its stage.
JobEndsStage ==
    \A i \in Positions :
        (First /\ kjobs[i].uid = 1 /\ kjobs[i].state # "active")
            ~> (~First \/ (i \in DOMAIN api.stages /\ api.stages[i].finishedAt # 0))

\* scheduleMaintenanceJob: "stage succeeded, continue to next stage": a pod is
\* started only when the stages before it, like the drain, have succeeded.
PodsStartInTurn ==
    [][\A i \in Positions :
        (kjobs[i].uid = 0 /\ kjobs'[i].uid # 0) =>
            \A k \in 1..i - 1 : copy.stages[k].succeeded]_vars

\* enqueueMaintenanceJobForScheduling, of a MaintenanceJob that has failed: "user
\* can trigger rescheduling by deleting this one".  The one created next gets its
\* first stage begun, also if the controller has yet to see the old one go; at least
\* the worker goes on trying to add it.
RecreatedGetsScheduled ==
    (/\ Live /\ ~api.deleting /\ api.uid = 2
     /\ \E h \in watch \cup {seen} :
            h.uid = 1 /\ \E i \in DOMAIN h.stages : h.stages[i].failed)
        ~> (\/ ~Live \/ api.deleting \/ Has(jobQ, "Add", MtJob)
            \/ Complete(api) /\ api.stages[1].scheduledAt # 0)
=============================================================================
