------------------------------ MODULE Dispatch ------------------------------
(***************************************************************************)
(* How the scheduled Maintenance objects get their MaintenanceJobs: passes *)
(* of scheduleMaintenance behind the point where an object is scheduled.   *)
(* A pass looks at the dependencies in the informers' caches, lists the    *)
(* nodes, and creates one job per node and machine under a name that is    *)
(* free in the cache.  It is repeated until the object is finished.        *)
(*                                                                         *)
(* When an object is scheduled, finished and deleted is the subject of     *)
(* Maintenance; how a MaintenanceJob ends is that of MaintenanceJob.  Here *)
(* both just happen, as do changes of nodes, and the caches lag behind.    *)
(***************************************************************************)
EXTENDS Integers, FiniteSets, JobTemplate

CONSTANTS
    Names,         \* of Maintenance objects
    Nodes,         \* names of nodes: a base, and a suffix of numbers
    Paths,         \* field paths that can be extracted from a node
    MaxMachines,   \* bound on the machine ids that nodes report
    Scenarios      \* what may happen: the snapshots of the Maintenance objects there
                   \* are, the machines the nodes may report at first, and bounds on
                   \* changes by users and of nodes, on failing calls, and on restarts

ASSUME NodesAssumption == Nodes \subseteq [base : STRING, suffix : Seq(Nat)]
ASSUME MachinesAssumption == MaxMachines \in Nat \ {0}

Dependency ==
    [on : Names, individual : BOOLEAN, condition : {"succeeded", "failed"}]

ASSUME ScenariosAssumption ==
    \A s \in Scenarios :
        /\ DOMAIN s.spec \subseteq Names
        /\ \A m \in DOMAIN s.spec : s.spec[m].depends \subseteq Dependency
        /\ s.machines \subseteq [Nodes -> 1..MaxMachines]
        /\ s.changes \in Nat /\ s.errors \in Nat /\ s.crashes \in Nat

\* How a MaintenanceJob stands; "failedEarly" before its last stage.
Outcomes == {"active", "succeeded", "failed", "failedEarly"}

VARIABLES
    spec,      \* the snapshot of each Maintenance there is
    api,       \* Maintenance objects of the API server
    seen,      \* the same in the cache
    jobs,      \* MaintenanceJobs of the API server
    jobSeen,   \* the same in the cache
    nodes,     \* the state of the nodes
    pc,        \* where the scheduler is in its pass
    pass,      \* what it has found out in this pass
    todo,      \* nodes it still has to create a job for
    creating,  \* the job it is creating, if any
    freed,     \* names of MaintenanceJobs that were deleted
    changes, errors, crashes   \* how many are still to come at most

objects == <<api, seen>>
scheduler == <<pc, pass, todo, creating>>
bounds == <<changes, errors, crashes>>
vars == <<spec, objects, jobs, jobSeen, nodes, scheduler, freed, bounds>>

NoPass(m) == [m |-> m, uid |-> 0, left |-> {}, checked |-> {}, unavailable |-> {}, blind |-> {}]

\* The name of the i-th MaintenanceJob tried for a node.
JobName(m, node, i) ==
    [m |-> m, base |-> node.base, suffix |-> node.suffix \o IF i = 1 THEN << >> ELSE <<i>>]

Named(js, name) == {j \in js : j.name = name}

\* What tells a job of an object that exists from others of its name: only users
\* delete such jobs, so the count of changes that were to come when it was created.
Id(job) == <<job.name, job.uid>>

-----------------------------------------------------------------------------
(* The decisions of a pass. *)

Finished(job) == job.outcome \in {"succeeded", "failed"}

Meets(job, condition) == Finished(job) /\ job.outcome = condition

\* The jobs of the cache that an incarnation of a Maintenance controls.
Owned(js, m, uid) == {j \in js : j.m = m /\ j.owner = uid}

\* A faulty variant of the next definition, used by no specification: any job that
\* has come to its end will do.
WrongUnmet(js, d) == {j \in Owned(js, d.on, seen[d.on].uid) : j.outcome = "active"}

\* The jobs that do not meet a dependency.
Unmet(js, d) == {j \in Owned(js, d.on, seen[d.on].uid) : ~Meets(j, d.condition)}

\* A faulty variant of the next definition, used by no specification: nodes that have
\* not reported their machine are not left out.
WrongSelected(m, n) ==
    /\ spec[m].nodes = {} \/ n \in spec[m].nodes
    /\ nodes[n].tainted => spec[m].tolerates

\* A node that gets a MaintenanceJob of m, as far as the node itself goes.
Selected(m, n) ==
    /\ spec[m].nodes = {} \/ n \in spec[m].nodes
    /\ nodes[n].tainted => spec[m].tolerates
    /\ nodes[n].machine # 0

\* Fields of the nodes: only whether there is one decides how a pass goes on.
Fields == [p \in Paths |-> <<p>>]

\* Candidate i of a name is free in the cache, and those before it are not.
FirstFree(m, n) ==
    CHOOSE i \in 1..Cardinality(jobSeen) + 1 :
        /\ Named(jobSeen, JobName(m, n, i)) = {}
        /\ \A h \in 1..i - 1 : Named(jobSeen, JobName(m, n, h)) # {}

\* Faulty variants of the next definition, used by no specification: machines are
\* not compared, or a name in use is not tried with a suffix.
WrongHasJobNot(m, t) == FALSE
WrongHasJobAny(m, t) == Named(jobSeen, JobName(m, t.node, 1)) # {}

\* A job for the machine is met in the cache while looking for a free name.
HasJob(m, t) ==
    \E i \in 1..FirstFree(m, t.node) - 1 :
        \E j \in Named(jobSeen, JobName(m, t.node, i)) : j.machine = t.machine

-----------------------------------------------------------------------------
(* Users, the garbage collector, the nodes and the jobs themselves. *)

Create(m) ==
    /\ m \in DOMAIN spec
    /\ ~api[m].live
    /\ api' = [api EXCEPT ![m] = [uid |-> @.uid + 1, live |-> TRUE, finished |-> FALSE]]
    /\ UNCHANGED <<spec, seen, jobs, jobSeen, nodes, scheduler, freed, bounds>>

Delete(m) ==
    /\ api[m].live
    /\ changes > 0
    /\ changes' = changes - 1
    /\ api' = [api EXCEPT ![m].live = FALSE]
    /\ UNCHANGED <<spec, seen, jobs, jobSeen, nodes, scheduler, freed, errors, crashes>>

\* How a Maintenance and its jobs end is followed only if another one waits for it.
WaitedFor(m) == \E k \in DOMAIN spec : \E d \in spec[k].depends : d.on = m

Finish(m) ==
    /\ WaitedFor(m)
    /\ api[m].live /\ ~api[m].finished
    /\ api' = [api EXCEPT ![m].finished = TRUE]
    /\ UNCHANGED <<spec, seen, jobs, jobSeen, nodes, scheduler, freed, bounds>>

JobGoes(job) ==
    /\ jobs' = jobs \ {job}
    /\ freed' = freed \cup {job.name}
    /\ UNCHANGED <<spec, objects, jobSeen, nodes, scheduler, errors, crashes>>

DeleteJob ==
    \E job \in jobs : changes > 0 /\ changes' = changes - 1 /\ JobGoes(job)

\* Jobs go when their owner has gone.
CollectJob ==
    \E job \in jobs :
        /\ ~(api[job.m].live /\ api[job.m].uid = job.owner)
        /\ JobGoes(job)
        /\ UNCHANGED changes

EndJob ==
    \E job \in jobs, outcome \in Outcomes \ {"active"} :
        /\ job.outcome = "active"
        /\ WaitedFor(job.m)
        /\ jobs' = (jobs \ {job}) \cup {[job EXCEPT !.outcome = outcome]}
        /\ UNCHANGED <<spec, objects, jobSeen, nodes, scheduler, freed, bounds>>

\* A node gets or loses a taint, leaves, or reports some machine, which another node may
\* report too: a machine that comes back under another name, or an id that was cloned.
ChangeNode ==
    \E n \in Nodes :
        /\ changes > 0
        /\ changes' = changes - 1
        /\ \/ nodes' = [nodes EXCEPT ![n].tainted = ~@]
           \/ \E k \in 0..MaxMachines \ {nodes[n].machine} :
                nodes' = [nodes EXCEPT ![n].machine = k]
        /\ UNCHANGED <<spec, objects, jobs, jobSeen, scheduler, freed, errors, crashes>>

-----------------------------------------------------------------------------
(* The informers. *)

DeliverMaintenance ==
    \E m \in Names :
        /\ seen[m] # api[m]
        /\ seen' = [seen EXCEPT ![m] = api[m]]
        /\ UNCHANGED <<spec, api, jobs, jobSeen, nodes, scheduler, freed, bounds>>

DeliverJob ==
    \E name \in {j.name : j \in jobs \cup jobSeen} :
        /\ Named(jobs, name) # Named(jobSeen, name)
        /\ jobSeen' = (jobSeen \ Named(jobSeen, name)) \cup Named(jobs, name)
        /\ UNCHANGED <<spec, objects, jobs, nodes, scheduler, freed, bounds>>

-----------------------------------------------------------------------------
(* scheduleMaintenance. *)

EndPass == pc' = "idle" /\ pass' = NoPass(pass.m) /\ todo' = {} /\ creating' = Nil

\* What is left of the loop over the new jobs; the pass ends with it.
Loop(left, call) ==
    IF left = {} /\ call = Nil THEN EndPass
    ELSE pc' = "create" /\ todo' = left /\ creating' = call /\ UNCHANGED pass

\* An entry of the timeout queue is due: the object of the cache is scheduled.
StartPass(m) ==
    /\ pc = "idle"
    /\ seen[m].live /\ ~seen[m].finished
    /\ pc' = "depends"
    /\ pass' = [NoPass(m) EXCEPT !.uid = seen[m].uid, !.left = spec[m].depends]
    /\ UNCHANGED <<spec, objects, jobs, jobSeen, nodes, todo, creating, freed, bounds>>

\* One dependency is compared with the caches.  The pass ends if the Maintenance is
\* not there, or all of it is waited for and is not finished or has other results.
CheckDependency ==
    \E d \in pass.left :
        LET owner == seen[d.on].uid
            unmet == Unmet(jobSeen, d) IN
        /\ pc = "depends"
        /\ IF ~seen[d.on].live \/ (~d.individual /\ (~seen[d.on].finished \/ unmet # {}))
           THEN EndPass
           ELSE /\ pass' = [pass EXCEPT
                       !.left = @ \ {d},
                       !.checked = @ \cup {<<d, owner>>},
                       !.unavailable = @ \cup {j.node : j \in unmet},
                       !.blind = @ \cup ({Id(j) : j \in Owned(jobs, d.on, owner)} \
                                       {Id(j) : j \in Owned(jobSeen, d.on, owner)})]
                /\ UNCHANGED <<pc, todo, creating>>
        /\ UNCHANGED <<spec, objects, jobs, jobSeen, nodes, freed, bounds>>

\* The nodes are listed and a job is generated for each.  If the environment cannot
\* be resolved for one of them, none gets a job; a panic ends the process.
ListNodes ==
    LET ns == {n \in Nodes : Selected(pass.m, n) /\ n \notin pass.unavailable}
        outcome == IF ns = {} THEN "ok" ELSE EnvOutcome(Fields, spec[pass.m]) IN
    /\ pc = "depends" /\ pass.left = {}
    /\ IF outcome = "ok"
       THEN Loop({[node |-> n, machine |-> nodes[n].machine] : n \in ns}, Nil)
       ELSE EndPass
    /\ IF outcome = "panic"
       THEN seen' = api /\ jobSeen' = jobs
       ELSE UNCHANGED <<seen, jobSeen>>
    /\ UNCHANGED <<spec, api, jobs, nodes, freed, bounds>>

\* The loop over candidates for a name.
PickName ==
    \E t \in todo :
        LET job == [name |-> JobName(pass.m, t.node, FirstFree(pass.m, t.node)), uid |-> 0,
                    m |-> pass.m, owner |-> pass.uid, node |-> t.node,
                    machine |-> t.machine, outcome |-> "active"] IN
        /\ pc = "create" /\ creating = Nil
        /\ Loop(todo \ {t}, IF HasJob(pass.m, t) THEN Nil ELSE <<job>>)
        /\ UNCHANGED <<spec, objects, jobs, jobSeen, nodes, freed, bounds>>

\* The job as the API server creates it.
Created == [creating[1] EXCEPT !.uid = changes]

\* The call that creates it.  Whatever it answers, the pass goes on.
SendJob ==
    /\ creating # Nil
    /\ Loop(todo, Nil)
    /\ \/ /\ jobs' = IF Named(jobs, creating[1].name) = {} THEN jobs \cup {Created} ELSE jobs
          /\ UNCHANGED errors
       \/ errors > 0 /\ errors' = errors - 1 /\ UNCHANGED jobs
    /\ UNCHANGED <<spec, objects, jobSeen, nodes, freed, changes, crashes>>

\* The nodes cannot be listed, or a job of a dependency leaves the cache while they
\* are gone through.
Fail ==
    /\ pc = "depends"
    /\ errors > 0
    /\ errors' = errors - 1
    /\ EndPass
    /\ UNCHANGED <<spec, objects, jobs, jobSeen, nodes, freed, changes, crashes>>

\* The process dies and comes back, with caches filled from the API server.
Restart ==
    /\ crashes > 0
    /\ crashes' = crashes - 1
    /\ EndPass
    /\ seen' = api
    /\ jobSeen' = jobs
    /\ UNCHANGED <<spec, api, jobs, nodes, freed, changes, errors>>

-----------------------------------------------------------------------------

Init ==
    /\ \E s \in Scenarios :
          /\ spec = s.spec /\ changes = s.changes /\ errors = s.errors /\ crashes = s.crashes
          /\ \E f \in s.machines :
                nodes = [n \in Nodes |-> [machine |-> f[n], tainted |-> FALSE]]
    /\ api = [m \in Names |-> [uid |-> 1, live |-> m \in DOMAIN spec, finished |-> FALSE]]
    /\ seen = api
    /\ jobs = {}
    /\ jobSeen = {}
    /\ pc = "idle"
    /\ pass = NoPass(CHOOSE m \in Names : TRUE)
    /\ todo = {}
    /\ creating = Nil
    /\ freed = {}

Step == CheckDependency \/ ListNodes \/ PickName \/ SendJob

Next ==
    \/ \E m \in Names : Create(m) \/ Delete(m) \/ Finish(m) \/ StartPass(m)
    \/ DeleteJob \/ CollectJob \/ EndJob \/ ChangeNode
    \/ DeliverMaintenance \/ DeliverJob
    \/ Step \/ Fail \/ Restart

Spec == Init /\ [][Next]_vars

\* Every object not finished is enqueued again after a pass, and the queue serves
\* all of them; the goroutine runs; the caches catch up and orphans are collected.
Fairness ==
    /\ \A m \in Names : SF_vars(StartPass(m))
    /\ WF_vars(Step)
    /\ WF_vars(DeliverMaintenance) /\ WF_vars(DeliverJob) /\ WF_vars(CollectJob)

FairSpec == Spec /\ Fairness

-----------------------------------------------------------------------------
(* Properties. *)

Job == [name : [m : Names, base : STRING, suffix : Seq(Nat)], uid : Nat, m : Names, owner : Nat,
        node : Nodes, machine : 1..MaxMachines, outcome : Outcomes]

TypeOK ==
    /\ \A objs \in {api, seen} :
          objs \in [Names -> [uid : Nat, live : BOOLEAN, finished : BOOLEAN]]
    /\ \A js \in {jobs, jobSeen} :
          js \subseteq Job /\ \A j, k \in js : j.name = k.name => j = k
    /\ nodes \in [Nodes -> [machine : 0..MaxMachines, tainted : BOOLEAN]]
    /\ pc \in {"idle", "depends", "create"}
    /\ todo \subseteq [node : Nodes, machine : 1..MaxMachines]
    /\ creating \in Seq(Job)

\* The names a MaintenanceJob for a node may have had so far.
Candidates(m, n) ==
    {JobName(m, n, i) : i \in 1..Cardinality(jobs) + Cardinality(freed)}

\* "Has same machineID, same machine, do not create again" (maintenance.go:596), as far
\* as it goes: even with a cache that lags, an answer that was lost, a restart, or names
\* of nodes that look like suffixed ones, two jobs of one Maintenance are for the same
\* machine only if two nodes reported it, or a job with a name of its node was deleted.
OneJobPerNodeMachine ==
    \A j, k \in jobs :
        j.m = k.m /\ j.owner = k.owner /\ j.machine = k.machine /\ j # k
            => j.node # k.node \/ Candidates(j.m, j.node) \cap freed # {}

\* A MaintenanceJob is created only after what its Maintenance depends on: the
\* Maintenance waited for as a whole is finished, and every job of it that stands in
\* the way has the required result, unless it was not in the cache yet when it was
\* looked for (or the Maintenance has gone since).  This is not said of an object that
\* depends on itself: the first job of a pass would stand in the way of the next.
DependenciesMet ==
    [][creating # Nil /\ Created \in jobs' \ jobs =>
        \A d \in {e \in spec[pass.m].depends : e.on # pass.m} :
            \E uid \in {c[2] : c \in {e \in pass.checked : e[1] = d}} :
                api[d.on].live /\ api[d.on].uid = uid =>
                /\ d.individual \/ api[d.on].finished
                /\ \A k \in Owned(jobs, d.on, uid) :
                      \/ d.individual /\ k.node # creating[1].node
                      \/ Meets(k, d.condition)
                      \/ Id(k) \in pass.blind]_vars

\* Nothing stands in the way of a MaintenanceJob of m on node n.
Eligible(m, n) ==
    /\ m \in DOMAIN spec
    /\ api[m].live /\ ~api[m].finished
    /\ Selected(m, n)
    /\ EnvOutcome(Fields, spec[m]) = "ok"
    /\ \A d \in spec[m].depends :
          /\ api[d.on].live
          /\ d.individual \/ api[d.on].finished
          /\ \A j \in Owned(jobs, d.on, api[d.on].uid) :
                (d.individual /\ j.node # n) \/ Meets(j, d.condition)

\* The machine of a node that stays eligible gets a job under a name of the node, through
\* calls that fail, restarts, caches that lag, jobs of an earlier incarnation or machine
\* in the way, and jobs that are deleted.  The job may be that of a node whose name looks
\* like a suffixed one and that reports the same machine.
EligibleNodesGetJobs ==
    \A m \in Names, n \in Nodes :
        []<>(Eligible(m, n) =>
                \E j \in Owned(jobs, m, api[m].uid) :
                    j.machine = nodes[n].machine /\ j.name \in Candidates(m, n))
=============================================================================
