# A verification project for vihara

vihara is a Kubernetes controller that carries out node maintenance. A user
creates a cluster-wide `Maintenance`; the controller admits it, waits for its
time window, and creates one `MaintenanceJob` per selected node, whose stages
drain the node, run pods on it (as Kubernetes Jobs) and uncordon it.

This directory holds TLA+ modules that model the controller, the TLC
configurations that check them on small instances, and TLAPS proofs of what is
said about them for every instance. Every definition is translated from the
source; `PROJECT.json` maps each one to its lines.

## 1. Inventory

### Components, their state and operations

| Component | Source | State | Operations |
|---|---|---|---|
| Maintenance controller | `pkg/controller/maintenance/maintenance.go`, `controller.go`, `pkg/apis/vihara/v1alpha1/types_maintenance.go` | the stored object; the informer's store; `mtScheduleTQ` | `onMaintenanceAdded/Updated/Deleting/Deleted`, `enqueueMaintenanceForScheduling`, `scheduleMaintenance` |
| MaintenanceJob controller | `maintenencejob.go`, `job.go`, `types_maintenancejob.go` | the stored object with a status per stage; the informer's store; `mtJobScheduleTQ`; the Jobs of pod stages; the taints of nodes | `onMaintenanceJobAdded`, `scheduleMaintenanceJob`, `enqueueMaintenanceJobForScheduling`, `drainNodes`, `uncordonNodes`, `onJobUpdated` |
| Generation of MaintenanceJobs | `maintenance.go:394-765`, `maintenencejob.go:428-575` | none (functions of the snapshot, the nodes, the dependencies) | node selection, dependencies, env of a node, `mergeEnv`, `mergeEnvFrom` |
| Reconciler core | `vendor/arhat.dev/pkg/reconcile`, `kubehelper` | object cache, job queue, backoff queue | `Schedule`, `CancelSchedule`, `handleJob`, informer callbacks |
| JobQueue | `vendor/arhat.dev/pkg/queue/job_queue.go` | slice of jobs and index | `Offer`, `Acquire`, `Remove`, `Find` |
| TimeoutQueue | `vendor/arhat.dev/pkg/queue/timeout_queue.go` | slice of entries, index, timer, channels | `OfferWithTime/Delay`, `Remove`, `Find`, `sort`, delivery |
| Process | `pkg/cmd`, `pkg/util/manager`, `controller.go:168-228` | leader lease, goroutines | start, stop, exit on a lost lease |
| Configuration, constants, version; generated clients | `pkg/conf`, `pkg/constant`, `pkg/version`, `pkg/apis/vihara/generated` | none | none |

### How they interact

- The API server stores objects and sends each stored version to the informer,
  in order. Every write gives a new resource version; `UpdateStatus` is refused
  when the version it was read from is not the stored one.
- The informer puts the version into a shared store and calls back into the
  reconciler, which schedules a job (Add, Update, Delete, Cleanup) for the name.
  The job queue drops, replaces or cancels jobs of a name that conflict.
- One worker goroutine per reconciler takes jobs and runs the handlers. A
  handler that returns an error has its job offered again, at once or later.
- One more goroutine per kind of object takes names from a timeout queue, makes
  a pass (`scheduleMaintenance`, `scheduleMaintenanceJob`) and enters the name
  again (`processMaintenanceSchedule`, `processMaintenanceJobSchedule`).
- Both goroutines get *pointers into the shared store*. `scheduleMaintenance`,
  `enqueueMaintenanceForScheduling` and `scheduleMaintenanceJob` change fields
  of these objects in place before they call `UpdateStatus`.

### What is hard here

1. Writes into the shared store that the API server then refuses, or whose
   answer is lost: the controller sees phases that were never stored.
2. Decisions on a version that is old when the call is made: deletion by name,
   creation of jobs, finishing.
3. A name that is used again while timers, jobs and versions of the old object
   are still about.
4. The rules of the job queue: a job that is dropped has to be covered by the
   one that is pending.
5. Restarts (also those the code brings about itself: dereferences of unset
   pointers kill the process), after which all queues are empty.
6. The timeout queue: two goroutines, a timer and a mutex that is held across
   sends on channels, and an index into a slice that is sorted, cut and shifted.
7. MaintenanceJobs are created from caches that lag: dependencies, jobs that
   exist already, names that collide.
8. Things that must happen in the end: admission, scheduling, finishing, the
   end of stages, leaving the queues.

`PROJECT.json` lists these as hazards, at the lines where they bite.

### What makes each component correct

- *Maintenance*: phases are entered in order and within the window; the window
  of an admitted object never moves; a snapshot is the spec stored at that
  instant and never taken again; objects make progress.
- *MaintenanceJob*: results of stages come in turn, stay, and are what happened
  to the nodes; the outcome is that of the stages that ask for something; stages
  make progress.
- *Job queue*: pending jobs are unique and make sense together.
- *Timeout queue*: a name has few entries; entries leave when due, in order.
- *Generation*: each selected, available node gets one job for its machine; env
  lists are merged with the node's values taking precedence.

## 2. Modules

| Module | What it is |
|---|---|
| `JobQueue` | the job queue as operators on sequences: `Offer`, `Without` (remove), `HasAny` (find); `Unique`, `Compatible` |
| `JobQueueProofs` | lemmas and the theorem that `Offer` keeps a queue consistent |
| `Maintenance` | the Maintenance controller: users, API server, informer, worker, scheduler, timers, restarts |
| `MaintenancePhases` | what the controller promises of the stored objects (abstract specification) |
| `MCMaintenance` | specs of Maintenance objects for TLC |
| `MaintenanceTypeProofs` | `TypeCorrect`: the type invariant |
| `MaintenanceSafetyProofs` | the safety invariants |
| `MaintenanceRefinementProofs` | `Maintenance` implements `MaintenancePhases` |
| `MaintenanceJob` | the MaintenanceJob controller and the Jobs of pod stages |
| `StagePhases` | what the controller promises of a stored MaintenanceJob (abstract specification) |
| `MCMaintenanceJob` | stage lists for TLC |
| `MaintenanceJobProofs` | its safety invariants, that results stay, and that `MaintenanceJob` implements `StagePhases` |
| `TimeoutQueue` | the timeout queue with its goroutines, timer, mutex and channels, and its clients |
| `DelayQueue` | what a timeout queue promises its clients (abstract specification) |
| `MCTimeoutQueue` | for TLC |
| `TimeoutQueueProofs` | its safety invariants, and that `TimeoutQueue` implements `DelayQueue` |
| `Dispatch` | how scheduled Maintenance objects get their MaintenanceJobs: dependencies, nodes, names, creation |
| `JobTemplate` | what a MaintenanceJob is generated with: validation and resolution of environments, `mergeEnv`, `mergeEnvFrom`, the stages of a node |
| `MCDispatch` | nodes, snapshots and scenarios for TLC |
| `JobTemplateProofs` | theorems about `JobTemplate` |
| `DispatchProofs` | the safety properties of `Dispatch` |

### Maintenance

Names are independent but share the worker, the scheduler and the job queue. The
state is

- `api`: the stored object of each name, with its resource version (`rv`),
  incarnation (`uid`), deletion mark, spec and the three phases of its status;
- `watch`: stored versions the informer has not delivered; `seen`: the
  informer's store (after a delete event, what the cache of the reconciler still
  has); `cached`: whether that cache has an entry;
- `notice`: the job that the informer is about to schedule;
- `jobQ`, `delayed`: the job queue and the backoff queue; `tq`, `ready`: the
  timeout queue and the names that have left it;
- `pc`, `key`, `copy`, `action`: where each goroutine is, and what it holds;
- `jobs`: the MaintenanceJobs created, as the incarnation and the spec they come
  from.

A handler is cut where it calls the API server or enters a queue, because
between those points it only reads the store once. So `onMaintenanceAdded` is
`OnMaintenanceAdded` (read, decide, compute the window), `SendAdmitted` (the
`UpdateStatus` call) and `OfferNext`; `scheduleMaintenance` is
`ScheduleMaintenance` (which writes the snapshot into the store), `MarkScheduled`
and `CreateMaintenanceJobs`; `enqueueMaintenanceForScheduling`, called by both
goroutines, is `EnqueueStops`, `EnqueueFinishes`, `EnqueueOffers`, `SendFinished`
and `OfferToTQ`. A spec is what the life cycle can tell apart: whether it is for
this controller, whether it is usable, and its schedule.

The informer puts a version into its store and into the cache of the reconciler
(`Deliver`) and then schedules the job for it (`Announce`). The worker takes a job
and looks its object up in one step, which reads what the informer has stored. After
a deletion it looks for pending jobs of the name and drops the cached object
(`OnMaintenanceDeleted`, `FindPending`, `DropCached`): three steps, between which the
informer may have stored a new object of the name, which is then the one that is
dropped (run `recreated`).

A failing call is one of: a stale version, a call that did not arrive, a call
that was carried out but whose answer was lost. `Restarted` empties everything
the process holds and lists the stored objects again. It is also what happens
where the code dereferences an unset pointer: after a failed update to finished
(`maintenance.go:299` and on), and when a name comes out of the timeout queue
whose new object is not admitted (`:322`).

### MaintenanceJob

One MaintenanceJob name. Besides the queues and goroutines as above there are
`at` (the stage the pass looks at), `shared` (whether the object the pass holds
is the one of the store, so that its writes are seen by others; a delivery ends
that), `todo` (the nodes that a drain has yet to look at), `kjobs` and `events` (the
Kubernetes Job of each stage and its pending update), and `tainted` (the nodes that have
the taint of a drain). Nobody takes a taint away: `uncordonNodes` would, but dies
before. As for a Maintenance, the informer's `Deliver` and `Announce` and the worker's
`FindPending` and `DropCached` are steps of their own, and a foreground deletion marks
the object (`Delete`) before it goes (`CollectGarbage`).

A stage is one of four kinds. The fields `drain`, `uncordon` and `pod` of a stage are all
optional, and nothing checks that one is set: a stage of no kind falls through
the switch of `scheduleMaintenanceJob`, never begins, and the loop goes on
(`PassOver`). A list of stages may be empty, too: the worker then reads the last of no
stages and the process dies (`LookAtNoStage`).

The pass of `scheduleMaintenanceJob` is one action per branch of its loop:
`RecordFailed`, `RecordSucceeded`, `SkipStage`, `PassOver`, `TimeOut`, `UncordonNodes` (a
panic), `Begin`, `StartJob` and `CreateJob`, `PassEnds`; `Send` are the updates after
which the pass returns, `SendOn` those after which the loop goes on, with the answer. A
drain lists the nodes of its stage (`ListNodes`, `ListFails`), looks at one after the
other and taints those that lack the taint (`TaintNode`, `TaintFails`), and succeeds when
none is left (`Drained`); after a failure the stage goes on running and the next pass
starts over. The nodes a selector lists are fixed for a stage. There may be none, in
which case the drain succeeds and has tainted nothing.

### TimeoutQueue

`Maintenance` and `MaintenanceJob` use the queue by what it does for them (an
entry leaves when it is due, the earliest first). This module is the queue itself.
`data`, `index`, `nextSort` are the fields of that name; `mu` is the mutex,
`resetCh` and `timeoutCh` the channels of capacity one; `alarm` and `rung` are the
`time.Timer` and its channel; `sorter` is where the goroutine of the timer is, and
`expired`, `signaled` are what it hands to the goroutine that delivers.
Everything between `Lock` and `Unlock` that does not block is one step; where the
code sends with the mutex held, there is a step before (`OfferWithTime`, `Scan`)
and one for the send (`Sent`, `SortSent`), and `sort.Sort` is a step for every swap.
The consumer takes an entry and may need the queue to handle it, as both
goroutines of the controller do (`enqueueMaintenanceForScheduling`).

The queue can stop for ever in three ways, which `Jammed` lists. All were found
with TLC, the second one with two offers and a removal:

- a client holds the mutex and sends on `resetCh`, which is full, and the only
  goroutine that reads it waits for the mutex to sort;
- that goroutine sends on `resetCh` itself, from `sort`, while it is full;
- it waits in `sort`, with the mutex, for the last batch to be taken, and the
  consumer waits for the mutex to look for an entry or to offer one (this takes
  four offers, one more than the run has).

A jam of the queue stops scheduling until the process is started again.

### Dispatch and JobTemplate

`Dispatch` is `scheduleMaintenance` from where the object is scheduled. `api` and
`jobs` are the stored objects, `seen` and `jobSeen` the caches, which catch up object
by object. A pass is `StartPass` (an entry of the queue is due), one
`CheckDependency` for each dependency, `ListNodes`, and for each new job
`PickName` (the loop over suffixes) and `SendJob`; each of these reads the caches of
its own instant. Objects of the two controllers end at any time and with any
result (`Finish`, `EndJob`): when they do is the subject of the other modules. `spec.nodes`
stands for the list of names and the label selector together. Names keep their
structure where it matters: a suffix of a node's name may look like one the loop
adds, so names of different nodes can collide. The machine id a node reports has
nothing to do with its name: any two nodes may report the same one from the start (a
cloned id), and `ChangeNode` gives a node another one (a machine that comes back under
another name).

`JobTemplate` has the functions of the snapshot. Texts are sequences of parts, so
that a format is what it puts in front of a text; a missing pointer is an empty
sequence, and dereferencing it is the outcome `"panic"`. `Dispatch` uses their
outcomes, and `JobTemplateProofs` is about their results.

Definitions named `Wrong...` are faulty variants of the definition after them.
No specification uses them; they show that a property notices that fault.

## 3. Runs

`tlc -config <cfg> <module>`; bounds are CONSTANTS (`Horizon`, `MaxUserOps`,
`MaxErrors`, `MaxLost`, `MaxCrashes`) in the guards.

| Run | Instance | Checks |
|---|---|---|
| `safety` | 1 name; usable and unusable spec, and one for another controller; clock to 4; 3 user operations, 1 failing call or lost answer, 1 restart, three of these together | `TypeOK`, `AcceptedVersionsExtend`, `VersionsInOrder`, `WindowsAgree`, `JobsOnlyInWindow`, `PendingJobsConsistent`, `FewTimers`, `ImplementsPhases` |
| `progress` | fair; a window that opens late and one that closes early; clock to 3; 2 user operations, or 1 with a failing call and a restart | `AdmissibleGetsAdmitted`, `AdmittedGetsScheduled`, `DeletedLeavesQueue` |
| `stages` | 2 nodes; two drain stages around a stage of no kind, an uncordon stage, or no stage; clock to 3; 3 user operations, 1 failing call, 1 lost answer, 1 restart | `TypeOK`, `ResultsInTurn`, `ResultsStay`, `OutcomeOfStages`, `SuccessMeansTainted`, `ImplementsPhases` |
| `pods` | fair; a delayed pod stage behind a stage of no kind, or a pod stage behind a drain; clock to 2; 2 user operations, or 1 with a failing call and a restart | `StagesGetListed`, `PodStagesGetJobs` |
| `timers` | fair; 2 clients, one of them the consumer; 2 keys, clock to 2, 3 offers, 1 removal | `TypeOK`, `IndexRight`, `WakesInTime`, `ImplementsDelayQueue`, `EntriesTimeOut` |
| `dispatch` | fair; 2 nodes with colliding names, each with a machine id of its own or both with the same; 1 or 2 Maintenance objects, depending on each other as a whole or node by node; up to 2 changes by users or of nodes, 1 failing call, 1 restart | `TypeOK`, `OneJobPerNodeMachine`, `DependenciesMet`, `EligibleNodesGetJobs` |

Why the bounds are enough for what the runs are for. In `safety` the window opens
at 2 and closes after 3, or later for an object created later, so a clock to 4
passes through every part of a window; `FewDisturbances` leaves out behaviours in
which more than three operations, failures and restarts come together, or more than
two once the window is open. Two user operations make create/edit and create/delete,
three make an object that comes back under its name; every failure the properties
depend on needs one failing call; and what several names add (they only share queues
and goroutines) is covered by the proofs, which hold for any set of names and all
bounds. In `progress` and `pods` a behaviour has either two user operations or failing
calls and restarts (`UsersOrFaults`). A bound of this kind never cuts a behaviour off:
it only leaves out the steps of users and failures that nothing is assumed to bring
about. In `progress` a window closes before the clock stops, and there are behaviours in
which an object expires and is finished, expires outside the queue, or has the failed
update to finished end the process. In `stages` a drain of both nodes comes behind one
of a single node, so it meets nodes that have the taint and nodes that lack it, and it
times out unless its first pass comes at once; the constraint there leaves out late
combinations of disturbances (`now + userOps + 2 * (errors + lost + crashes) <= 7`).
Three
offers and a removal reach two entries of one key, a removal from the middle, a
second batch behind the first, a timer that fires while a new wait arrives, and two
of the three jams. Two nodes are enough for names that collide and for jobs that
are created in both orders; which scenario has which bounds is in `MCDispatch`.

Deadlock is not checked: the clock and the users stop at their bounds, and the
controller rests when there is nothing to do.

Disagreements between the code and what its comments say, each shown by a run
that TLC must find violated (`PROJECT.json` "findings" quotes the lines):

| Run | Property violated | What happens |
|---|---|---|
| `phantom` | `JobsFollowStoredSnapshot` | the update that marks an object as scheduled fails, and jobs are created from a snapshot that was never stored |
| `stale_delete` | `KeepsScheduled` | a delete decided earlier removes an object scheduled since, or its successor |
| `recreated` | `RecreatedGetsAdmitted` | an object is created again while the worker clears the cache of the old one: the entry of the new one is dropped, its Add job fails for ever, and it is never admitted |
| `job_end` | `JobEndsStage` | the end of a Job never reaches its stage |
| `turns` | `PodsStartInTurn` | the pass that begins a drain also starts the pod behind it |
| `rescheduled` | `RecreatedGetsScheduled` | a failed MaintenanceJob, deleted and created again, is never scheduled if an update was pending: the queue refuses its Add job |

### Fairness

`FairSpec` assumes weak fairness of the clock, of the informer, of the timers, and of
each goroutine as a whole. The code justifies these: the
goroutines run loops that wait for nothing but work (`core.go:97-108`,
`controller.go:215-225`), timers and the informer have goroutines of their own, and
no goroutine holds a lock across an API call. A goroutine is fair as a whole:
which of its calls fails is bounded by `MaxErrors`, and its branches exclude each
other. The timers are fair as two wholes, the timeout queue and the backoff queue, each
of which lets go what is due. For MaintenanceJobs, Jobs are assumed to end and those
without an owner to be collected. Nothing is assumed of users or of restarts. In the
fair runs `PollInterval` is 0: with a clock that stops, a positive interval would leave
the last entry of the queue waiting for ever.

In `TimeoutQueue`, the clock, the timer of the runtime, both goroutines, a send
that can go through, and the consumer are fair; clients need not offer anything. In
`Dispatch` the steps of a pass, the caches and the garbage collector are weakly fair, and
`StartPass` is strongly fair for every name: a pass of another object makes it
impossible for a while, but each object enters the queue again after its pass.

What progress is not promised:

- `AdmissibleGetsAdmitted` and `AdmittedGetsScheduled` are about objects whose name was not
  used before, and `StagesGetListed` and `PodStagesGetJobs` about the first incarnation:
  objects that come back under their name may be forgotten (runs `recreated` and
  `rescheduled`);
- `AdmittedGetsScheduled` exempts runs in which a call failed, since then the phase
  can stay in the store of the controller only (run `phantom`), and objects that expire;
- `EntriesTimeOut` exempts a jam;
- `StagesGetListed` and `PodStagesGetJobs` are checked without lost answers, since a lost
  answer to the first status update can cost the MaintenanceJob its place in the queue
  (the retried Add job is refused while the Update of the stored status is pending).

## 4. Proofs

The theorems about `Maintenance` are for any names, any specs, any configuration and all
bounds (assumptions `SpecsAssumption`, `ConfigAssumption`, `BoundsAssumption`:
specs are records of the right type, times and bounds are natural numbers).

`JobQueueProofs`. `OfferConsistent`: offering a job to a unique and compatible
queue gives one. It rests on what removing a job does (`WithoutConsistent`),
taking the first (`TailConsistent`) and adding one (`AppendConsistent`).

`MaintenanceTypeProofs`. `TypeCorrect : Spec => [](TypeOK /\ SpecsKnown)`.
`TypeOK` is not inductive: a snapshot is the spec of a version, and a created job
needs a real one. `SpecsKnown` adds that a version that is not gone has a spec,
and a goroutine about to create jobs has a snapshot.

`MaintenanceSafetyProofs`. The inductive invariant is `VInv`: the types, plus

- `Consistent`: every version outside the API server is no newer than the stored
  object; of the same version it extends it; of the same incarnation it has the
  same window if it has one; its own phases are in order and in time. Versions of
  one resource version in `watch` and `api` must agree on it, which is why
  `AcceptedVersionsExtend` alone is not inductive: a write with an accepted
  version must keep all *other* versions behind;
- `HeldConsistent`: the same for what goroutines hold, seen before the admission
  they are about to send;
- `AboutToAdmit`: what the worker is about to send as an admission has a window in
  order and was not admitted.

From it follow `AcceptedVersionsExtendAlways`, `VersionsInOrderAlways` and
`WindowsAgreeAlways`; with invariants of the created jobs, the queue and the
timers, `JobsOnlyInWindowAlways`, `PendingJobsConsistentAlways` and
`FewTimersAlways`.

`MaintenanceRefinementProofs`. `MaintenanceImplementsPhases : Spec =>
ImplementsPhases`, under the mapping that shows of a stored object all but its
version numbers, and nothing of one that is gone. Every write is a step of
`MaintenancePhases`: users' are by definition; an accepted update is
`Admit`, `Schedule` or `Finish` because `AcceptedVersionsExtend` says what it can
add, and `AboutToMark` and `AboutToFinish` say what the goroutine is about to add
and that the object is not being deleted. An update that finishes an object may
bring along a snapshot that never reached the API server: `Finish` of
`MaintenancePhases` allows it, since the proof (and TLC) showed that the code does.

The invariants were checked with TLC on the instances of `safety` before they were
proved.

`TimeoutQueueProofs`, for any keys, clients, horizon and bounds
(`ConsumerAssumption`: the consumer is a client, and no client is called like the
owner the timer's goroutine is; `BoundsAssumption`). The inductive invariant `Inv`
adds to the types and the two invariants of the run:

- `MutexRight`: the goroutine of the timer holds the mutex exactly between locking
  and unlocking in `sort`, so no client touches the slice then; whoever is in a
  send has something to send;
- `WaitsRight`: `now` plus a wait on its way is never before the first instant,
  which makes `TypeCorrect` hold of the timer;
- `Numbered`: numbers tell entries apart;
- `Scanned`: from the loop of `sort` on, the slice is sorted, the `count` entries at
  the front are due, and the next sort is set for the one after them. Without it
  a batch could hold an entry that is not due, and `WakesInTime` would not survive
  `HandOver`;
- `Delivering`: a batch is there only while it is signaled.

What a step does to the slice is a lemma of its own (`OfferEffect`,
`RemoveEffect`, `SwapEffect`, `HandOverEffect`), used for the index, for the timer and
for the refinement. `TypeCorrect`, `IndexIsRight` and `TimerIsSetInTime` follow from
`Inv`. `IsADelayQueue : Spec => ImplementsDelayQueue` takes `waiting` for the set of
entries in `data` and `out` for `timeoutCh \o expired`: offering, removing, handing
over and taking are the actions of `DelayQueue`, and all that sorts, sends and
delivers stutters. The invariant was checked on the instance of `timers` first.

`MaintenanceJobProofs`, for any stage lists, poll interval and bounds. The inductive
invariant `Inv` has three parts:

- `ControlTyped`: where the goroutines are, and what they may hold there;
- `VersionsRight`: *every* version that is about (stored, on its way, in the
  informer's store, held by a goroutine) is `Sound` and `Behind` the stored one.
  Sound is what the invariants of the run say of the stored version, and that
  stages that ask for something begin in turn and end after their begin, that a status
  has no stages or all of them, and that the time of a success is the end of a stage.
  Behind is that a version
  an update would be accepted with, which is one of the stored resource version,
  continues the stored one (`Keeps`): it has all its results and its outcome, and its
  stages that have begun have begun then. What is said of the stored version alone is not
  inductive: a pass works on the informer's store, and an update makes its work the
  stored version;
- `PassRight`: a pass only goes past stages that succeeded, were the last to begin or
  ask for nothing, so a result it records is in turn; and a drain has left no node
  behind that lacks the taint, so that when it is through all of its nodes have it.

`TypeCorrect`, `ResultsComeInTurn`, `OutcomeIsOfStages`, `SuccessMeansAllTainted` and the
action property `ResultsAreKept` follow from `Inv`. `MaintenanceJobImplementsPhases : Spec
=> ImplementsPhases` takes for the object of `StagePhases` the spec and the status of the
stored one, or `Gone`: an accepted `UpdateStatus`, from the worker or from a pass, and
also if its answer is lost, is its `Update`, because `Keeps` and `Sound` hold of what is
sent; users' steps and the clock are its own; all else stutters. `Update` lets several
stages begin or end at once, since one call carries what calls before it failed to
bring, lets stages of no kind be passed over, and lets the time of a success move (see
section 5): TLC showed that with the promise that it stays the code would not comply.

`DispatchProofs`, for any nodes, any snapshots and dependencies, and all bounds
(`NodesAssumption`, `MachinesAssumption`, `ScenariosAssumption`: names of nodes are a
base and numbers, dependencies are on objects that have a name here). Its invariant:

- `Typed`: the types; sets of jobs are finite, and none has two jobs of one name; what
  a pass holds is of the object it is for;
- `Behind`: the cache of Maintenance objects is behind the API server, and no job is
  of an incarnation still to come;
- `CacheRight`: a job in the cache is one of the API server, perhaps ended since, or its
  name was freed. The identity of a job is its name and the number of changes that were to
  come when it was created; a user's deletion is a change, so only the garbage
  collector could make way for a job of the same identity, and then the owner has gone;
- `NamesRight`: a job, created or about to be, has the name of a candidate for its
  node, and all candidates before were *passed over*: freed since, or the names of
  jobs for other machines. Two jobs that one node has for one machine have different
  candidates, and the later one passed over the name of the earlier, which is for the
  same machine: so it was freed. Of two nodes nothing like this holds (section 5);
- `DependenciesRight`: each dependency checked in this pass goes on to hold for the
  nodes that are available, of the incarnation it was checked against. Checks of
  different dependencies are apart, so it is not enough that each holds when it is
  checked: later steps may end jobs, create them for other objects, or replace the
  object.

From it follow `TypeCorrect`, `NoSecondJob` and `CreatedAfterDependencies`. The index in
`OneJobPerNodeMachine` is bounded by the jobs there are and were: `CandidatesDiffer` says that
the candidates for a node differ, so there are no more of them in use than names
(`CandidatesCounted`). `FirstFreeFacts` says that the loop over candidates ends. An object
that depends on itself is left out of `DependenciesMet`: the attempt to prove it showed
that, if such an object finishes just after its pass has begun, the pass creates several
jobs, of which the first does not meet the dependency when the next is created.

Both invariants were checked with TLC, on the instances of `stages` and `dispatch`, before
they were proved.

`JobTemplateProofs`. `MergedIsOverride`: what the two loops of `mergeEnv` and
`mergeEnvFrom` build is an override, if the keys of the first list differ: it has,
of every key of the second list, the last element with it, of the others the
element of the first list, and nothing else. The positions that remain are sorted
by the code; `Nth` picks them by rank, and `RankProperties`, `RankOnto` and
`NthProperties` say that this reaches each position once. `MergeEnvOverrides` is
this for variables, whose key is their name; the assumption is needed, since of a
name the container has twice the second variable survives behind that of the node.
`StagesOfNode` follows it through `generateMaintenanceJob`.
`ValidatedReferenceResolves` and `PlainValuePanics` say which entries that validation
lets through can be resolved: all that have a reference, and none that has only a
plain value, for which the process dies.

All safety and action properties of the passing runs are theorems. Only model-checked:
liveness (`AdmissibleGetsAdmitted`, `AdmittedGetsScheduled`, `DeletedLeavesQueue`,
`StagesGetListed`, `PodStagesGetJobs`, `EntriesTimeOut`, `EligibleNodesGetJobs`), since
fairness and ENABLED are beyond the proof system used, and the six disagreements
above, which are counterexamples. The theorems about `Maintenance`, `MaintenanceJob` and
`Dispatch` are about each on its own: that the queue these use is `TimeoutQueue`, and that
objects in `Dispatch` come and go as the other two say, is by construction and not proved.

## 5. What is not modelled, and the plan

Not modelled: pausing a queue and stopping the process (shutdown only), leader
election (a lost lease ends the process: a restart here), the previous object the
reconciler keeps for handlers (none reads it), Events and logging, validation by
hash of the snapshot (nobody else writes it), users who write status fields, and
edits of the spec of a MaintenanceJob. Of the timeout queue `Clear`, `Forbid`,
`Allow` and `Remains`, which nothing here calls. Of dependencies, conditions other
than the two that are documented (they end the pass). Of a drain, how the selector is
resolved, nodes that come, go or change their labels meanwhile, and users who take taints
away; the code evicts no pods, and `SuccessMeansTainted` says no more than that the nodes
listed got the taint. Reasons and messages in stage statuses. Reading a field while
another goroutine changes it in place is a data race; the models let each goroutine see
each write as a whole.

Seen while modelling, and not shown by a run of its own: `succeededAt` and
`failedAt` of a MaintenanceJob are only set by a pass after the last stage ended,
but the name is not entered into the queue for that pass (`maintenencejob.go:376-397`);
if another entry leads to that pass, it records success with the end of the first
stage, and then, with the answer, with that of the next (`:144`), so that
`succeededAt` moves; an `uncordon` stage kills the process on every pass until it
times out (`:264`); a MaintenanceJob with a stage of no kind stays in the queue for ever,
since not all of its stages succeed (`:239-257`, `:376-397`), and if that stage comes
last, no pass records success; an empty list of stages kills the process when the object
is added;
a Maintenance that expires while it is in no queue stays unfinished: `onMaintenanceUpdated`
does not enqueue expired objects, as its comment says (`maintenance.go:126-129`);
a machine that two nodes report, since its id was cloned or since it comes back under
another name, gets a MaintenanceJob for each of them, because the machine id is compared
only with jobs whose name is made of the name of the same node (`maintenance.go:550`,
`:595`; the comment there says "has same machineID, same machine, do not create again",
and `OneJobPerNodeMachine` is what is left of it);
a Maintenance edited to an unusable spec after enqueuing is still scheduled; an env
entry with a plain value kills the process at every pass (`maintenance.go:692`,
theorem `PlainValuePanics`); the key of a secret is replaced by its name (`:737`); the
timeout queue can jam (above); an individual dependency does not wait for jobs
that were not created yet (`maintenance.go:433`).

What could be added: of `MaintenanceJob`, the consistency of its job queue and the number
of its timers, as for `Maintenance`.
