--------------------------- MODULE DispatchProofs ---------------------------
(***************************************************************************)
(* For any Maintenance objects, nodes and dependencies: no node gets two   *)
(* jobs of one object for the same machine while names stay in use, and no *)
(* job is created before what its object depends on.                       *)
(***************************************************************************)
EXTENDS Dispatch, JobTemplateProofs

-----------------------------------------------------------------------------
(* The inductive invariant. *)

Maintenance == [uid : Nat, live : BOOLEAN, finished : BOOLEAN]
Task == [node : Nodes, machine : 1..MaxMachines]

\* A set of jobs, none of them of the same name as another.
JobSet(js) == js \subseteq Job /\ IsFiniteSet(js) /\ \A j, k \in js : j.name = k.name => j = k

ScenarioTyped ==
    /\ DOMAIN spec \subseteq Names /\ \A m \in DOMAIN spec : spec[m].depends \subseteq Dependency
    /\ changes \in Nat /\ errors \in Nat /\ crashes \in Nat

ObjectsTyped == api \in [Names -> Maintenance] /\ seen \in [Names -> Maintenance]

JobsTyped ==
    /\ JobSet(jobs) /\ JobSet(jobSeen) /\ IsFiniteSet(freed)
    /\ nodes \in [Nodes -> [machine : 0..MaxMachines, tainted : BOOLEAN]]

PassFields == {"m", "uid", "left", "checked", "unavailable", "blind"}

\* A pass is one of an object there is, and a job it is about to create is one of it.
PassTyped ==
    /\ DOMAIN pass = PassFields
    /\ pc \in {"idle", "depends", "create"}
    /\ pc # "idle" => pass.m \in DOMAIN spec /\ pass.uid \in Nat
    /\ pc = "create" => pass.left = {}
    /\ pc # "create" => todo = {}
    /\ todo \subseteq Task
    /\ creating \in Seq(Job)
    /\ creating # Nil => /\ pc = "create" /\ creating = <<creating[1]>>
                         /\ creating[1].m = pass.m /\ creating[1].owner = pass.uid

Typed == ScenarioTyped /\ ObjectsTyped /\ JobsTyped /\ PassTyped

\* The incarnation of a Maintenance that a job belongs to has gone, for good.
OwnerGone(job) == ~(api[job.m].live /\ api[job.m].uid = job.owner)

\* The cache of Maintenance objects is behind the API server; no job is of an
\* incarnation still to come, and each was created before the changes still to come.
Behind ==
    /\ \A m \in Names :
          /\ seen[m].uid <= api[m].uid
          /\ seen[m].uid = api[m].uid /\ seen[m].finished => api[m].finished
          /\ api[m].live \/ seen[m].live => m \in DOMAIN spec
    /\ \A j \in jobs \cup jobSeen : j.owner <= api[j.m].uid
    /\ \A j \in jobs : j.uid >= changes
    /\ pc # "idle" => pass.uid <= api[pass.m].uid

\* x, in the cache, is what the job j of the API server was before it ended.
Same(x, j) ==
    /\ x.name = j.name /\ x.uid = j.uid /\ x.m = j.m /\ x.owner = j.owner
    /\ x.node = j.node /\ x.machine = j.machine
    /\ x.outcome # "active" => x.outcome = j.outcome

\* A job of the cache is in the API server, or has been deleted there: by a user, which
\* was a change, or because its owner has gone.  What has its identity is the job itself.
CacheRight ==
    \A x \in jobSeen :
        /\ \/ \E j \in jobs : Same(x, j)
           \/ x.name \in freed /\ (x.uid > changes \/ OwnerGone(x))
        /\ \A j \in jobs : Id(j) = Id(x) => Same(x, j) \/ OwnerGone(x)

\* Candidate i of the name of a job was passed over: it has been freed since, or it is
\* the name of a job on another machine.
Passed(job, i) ==
    \/ JobName(job.m, job.node, i) \in freed
    \/ \E j \in jobs : j.name = JobName(job.m, job.node, i) /\ j.machine # job.machine

\* A job has one of the names of its node, and all before it were passed over.
Placed(job) ==
    \E a \in Nat \ {0} :
        job.name = JobName(job.m, job.node, a) /\ \A i \in 1..a - 1 : Passed(job, i)

NamesRight == \A job \in jobs \cup {creating[i] : i \in DOMAIN creating} : Placed(job)

\* A dependency that was checked in this pass, against an incarnation of the object,
\* holds for all nodes that are available.
Held(d, uid) ==
    api[d.on].live /\ api[d.on].uid = uid =>
        /\ d.individual \/ api[d.on].finished
        /\ \A k \in Owned(jobs, d.on, uid) :
              \/ d.individual /\ k.node \in pass.unavailable
              \/ Meets(k, d.condition)
              \/ Id(k) \in pass.blind

DependenciesRight ==
    pc # "idle" =>
        /\ \A d \in {e \in spec[pass.m].depends : e.on # pass.m} \ pass.left :
              \E uid \in Nat :
                  <<d, uid>> \in pass.checked /\ uid <= api[d.on].uid /\ Held(d, uid)
        /\ \A n \in pass.unavailable :
              (\A t \in todo : t.node # n) /\ (creating # Nil => creating[1].node # n)

Inv == Typed /\ Behind /\ CacheRight /\ NamesRight /\ DependenciesRight

-----------------------------------------------------------------------------
(* Candidates for the name of a job. *)

\* The candidates for a node differ from each other, also when its own name looks like
\* a candidate of another node.
LEMMA CandidatesDiffer ==
    ASSUME NEW m, NEW n \in Nodes, NEW i \in Nat \ {0}, NEW k \in Nat \ {0},
           JobName(m, n, i) = JobName(m, n, k)
    PROVE  i = k
<1> DEFINE tail(x) == IF x = 1 THEN << >> ELSE <<x>>
<1>1. PICK s \in Seq(Nat) : s = n.suffix
  BY NodesAssumption
<1>2. \A x : JobName(m, n, x).suffix = s \o tail(x)
  BY <1>1 DEF JobName
<1>3. s \o tail(i) = s \o tail(k)
  BY <1>2
<1>4. /\ tail(i) \in Seq(Nat) /\ tail(k) \in Seq(Nat)
      /\ Len(tail(i)) = (IF i = 1 THEN 0 ELSE 1) /\ Len(tail(k)) = (IF k = 1 THEN 0 ELSE 1)
      /\ i # 1 => tail(i)[1] = i
      /\ k # 1 => tail(k)[1] = k
  <2>1. << >> \in Seq(Nat) /\ <<i>> \in Seq(Nat) /\ <<k>> \in Seq(Nat)
    OBVIOUS
  <2>. QED BY <2>1
<1> HIDE DEF tail
<1>5. PICK t \in Seq(Nat) : t = tail(i)
  BY <1>4
<1>6. PICK u \in Seq(Nat) : u = tail(k)
  BY <1>4
<1>7. Len(t) = Len(u)
  <2>1. Len(s \o t) = Len(s) + Len(t) /\ Len(s \o u) = Len(s) + Len(u)
    OBVIOUS
  <2>2. Len(s) \in Nat /\ Len(t) \in Nat /\ Len(u) \in Nat
    OBVIOUS
  <2>. QED BY <1>3, <1>5, <1>6, <2>1, <2>2
<1>8. CASE i = 1 \/ k = 1
  BY <1>4, <1>5, <1>6, <1>7, <1>8
<1>9. CASE i # 1 /\ k # 1
  <2>1. Len(t) = 1 /\ Len(u) = 1
    BY <1>4, <1>5, <1>6, <1>9
  <2>2. (s \o t)[Len(s) + 1] = t[1] /\ (s \o u)[Len(s) + 1] = u[1]
    <3>1. PICK x \in Nat : x = Len(s)
      OBVIOUS
    <3>2. ASSUME NEW v \in Seq(Nat), Len(v) = 1
          PROVE  (s \o v)[x + 1] = v[1]
      <4>1. \A p \in 1..Len(s) + Len(v) :
                (s \o v)[p] = IF p <= Len(s) THEN s[p] ELSE v[p - Len(s)]
        BY ConcatProperties
      <4>2. PICK p \in Nat : p = x + 1
        OBVIOUS
      <4>3. p \in 1..Len(s) + Len(v) /\ ~(p <= Len(s)) /\ p - Len(s) = 1
        BY <3>1, <3>2, <4>2
      <4>4. (s \o v)[p] = v[p - Len(s)]
        BY <4>1, <4>3
      <4>. QED BY <4>2, <4>3, <4>4
    <3>. QED BY <2>1, <3>1, <3>2
  <2>3. t[1] = i /\ u[1] = k
    BY <1>4, <1>5, <1>6, <1>9
  <2>4. s \o t = s \o u
    BY <1>3, <1>5, <1>6
  <2>. QED BY <2>2, <2>3, <2>4
<1>. QED BY <1>8, <1>9

\* As many candidates as are in a set of names, there are names in it.
LEMMA CandidatesCounted ==
    ASSUME NEW m, NEW n \in Nodes, NEW S, IsFiniteSet(S), NEW a \in Nat,
           \A i \in 1..a : JobName(m, n, i) \in S
    PROVE  a <= Cardinality(S)
<1> DEFINE f == [i \in 1..a |-> JobName(m, n, i)]
<1>1. \A i, k \in 1..a : JobName(m, n, i) = JobName(m, n, k) => i = k
  BY CandidatesDiffer
<1>2. f \in Injection(1..a, S)
  BY <1>1 DEF Injection, IsInjective
<1>3. Cardinality(1..a) <= Cardinality(S)
  BY <1>2, FS_Injection
<1>4. Cardinality(1..a) = a
  BY FS_Interval
<1>. QED BY <1>3, <1>4

\* Jobs have at most as many names as there are jobs.
LEMMA NamesCounted ==
    ASSUME NEW js, IsFiniteSet(js)
    PROVE  /\ IsFiniteSet({j.name : j \in js})
           /\ Cardinality({j.name : j \in js}) <= Cardinality(js)
<1> DEFINE f == [j \in js |-> j.name]
<1>1. f \in Surjection(js, {j.name : j \in js})
  BY DEF Surjection
<1>. QED BY <1>1, FS_Surjection

\* A set of numbers has a least element.
LEMMA LeastNumber ==
    ASSUME NEW S, S \subseteq Nat, IsFiniteSet(S), S # {}
    PROVE  \E j \in S : \A h \in S : j <= h
<1>1. Cardinality(S) \in Nat /\ Cardinality(S) # 0
  BY FS_CardinalityType, FS_EmptySet
<1>2. PICK j \in S : Rank(S, j) = 1
  <2>1. 1 \in 1..Cardinality(S)
    BY <1>1
  <2>. QED BY <2>1, RankOnto
<1>3. ASSUME NEW h \in S
      PROVE  j <= h
  <2> DEFINE T == {g \in S : g <= j}
  <2>1. IsFiniteSet(T) /\ Cardinality(T) = 1
    BY <1>2, FS_Subset DEF Rank
  <2>2. PICK x : T = {x}
    BY <2>1, FS_Singleton
  <2>3. h \in T => h = j
    BY <2>2
  <2>. QED BY <2>3
<1>. QED BY <1>3

\* The loop of scheduleMaintenance over candidates ends, at the first that is free in the
\* cache.
LEMMA FirstFreeFacts ==
    ASSUME IsFiniteSet(jobSeen), NEW m, NEW n \in Nodes
    PROVE  /\ FirstFree(m, n) \in Nat \ {0}
           /\ Named(jobSeen, JobName(m, n, FirstFree(m, n))) = {}
           /\ \A h \in 1..FirstFree(m, n) - 1 : Named(jobSeen, JobName(m, n, h)) # {}
<1>1. PICK c \in Nat : c = Cardinality(jobSeen)
  BY FS_CardinalityType
<1> DEFINE T == {i \in 1..c + 1 : Named(jobSeen, JobName(m, n, i)) = {}}
<1>2. T # {}
  <2>1. SUFFICES ASSUME T = {}
                 PROVE  FALSE
    OBVIOUS
  <2>2. PICK S : S = {j.name : j \in jobSeen}
    OBVIOUS
  <2>3. \A i \in 1..c + 1 : JobName(m, n, i) \in S
    BY <2>1, <2>2 DEF Named
  <2>4. IsFiniteSet(S) /\ Cardinality(S) <= c
    BY <1>1, <2>2, NamesCounted
  <2>5. c + 1 <= Cardinality(S)
    <3>1. PICK a \in Nat : a = c + 1
      OBVIOUS
    <3>. QED BY <2>3, <2>4, <3>1, CandidatesCounted
  <2>6. Cardinality(S) \in Nat
    BY <2>4, FS_CardinalityType
  <2>. QED BY <2>4, <2>5, <2>6
<1>3. T \subseteq Nat /\ IsFiniteSet(T)
  <2>1. IsFiniteSet(1..c + 1) /\ T \in SUBSET (1..c + 1)
    BY FS_Interval
  <2>. QED BY <2>1, FS_Subset
<1>4. PICK i \in T : \A h \in T : i <= h
  BY <1>2, <1>3, LeastNumber
<1>5. \A h \in 1..i - 1 : Named(jobSeen, JobName(m, n, h)) # {}
  <2>1. ASSUME NEW h \in 1..i - 1, Named(jobSeen, JobName(m, n, h)) = {}
        PROVE  FALSE
    <3>1. h \in T /\ h < i
      BY <2>1
    <3>. QED BY <1>4, <3>1
  <2>. QED BY <2>1
<1>6. i \in 1..Cardinality(jobSeen) + 1 /\ Named(jobSeen, JobName(m, n, i)) = {}
  BY <1>1
<1>7. /\ FirstFree(m, n) \in 1..Cardinality(jobSeen) + 1
      /\ Named(jobSeen, JobName(m, n, FirstFree(m, n))) = {}
      /\ \A h \in 1..FirstFree(m, n) - 1 : Named(jobSeen, JobName(m, n, h)) # {}
  BY <1>5, <1>6 DEF FirstFree
<1>. QED BY <1>1, <1>7

-----------------------------------------------------------------------------
(* Types. *)

\* A candidate is a name.
LEMMA CandidateTyped ==
    ASSUME NEW m \in Names, NEW n \in Nodes, NEW i \in Nat \ {0}
    PROVE  JobName(m, n, i) \in [m : Names, base : STRING, suffix : Seq(Nat)]
<1>1. n.base \in STRING /\ n.suffix \in Seq(Nat)
  BY NodesAssumption
<1>2. PICK t \in Seq(Nat) : t = IF i = 1 THEN << >> ELSE <<i>>
  <2>1. << >> \in Seq(Nat) /\ <<i>> \in Seq(Nat)
    OBVIOUS
  <2>. QED BY <2>1
<1>3. n.suffix \o t \in Seq(Nat)
  BY <1>1, ConcatProperties
<1>. QED BY <1>1, <1>2, <1>3 DEF JobName

\* Fewer jobs.
LEMMA JobsLess ==
    ASSUME NEW js, JobSet(js), NEW ks, ks \subseteq js
    PROVE  JobSet(ks)
<1>1. IsFiniteSet(ks)
  BY FS_Subset DEF JobSet
<1>. QED BY <1>1 DEF JobSet

\* One more job, of a name that is free.
LEMMA JobsMore ==
    ASSUME NEW js, JobSet(js), NEW k \in Job, Named(js, k.name) = {}
    PROVE  JobSet(js \cup {k})
<1>1. IsFiniteSet(js \cup {k})
  BY FS_AddElement DEF JobSet
<1>. QED BY <1>1 DEF JobSet, Named

\* A job that has ended in the place of the one that ran.
LEMMA JobsEnded ==
    ASSUME NEW js, JobSet(js), NEW j \in js, NEW o \in Outcomes,
           NEW e, e = [j EXCEPT !.outcome = o]
    PROVE  /\ JobSet((js \ {j}) \cup {e})
           /\ e \in Job /\ e.name = j.name /\ e.uid = j.uid /\ e.m = j.m /\ e.owner = j.owner
           /\ e.node = j.node /\ e.machine = j.machine /\ e.outcome = o
<1>1. j \in Job
  BY DEF JobSet
<1>2. /\ e \in Job /\ e.name = j.name /\ e.uid = j.uid /\ e.m = j.m /\ e.owner = j.owner
      /\ e.node = j.node /\ e.machine = j.machine /\ e.outcome = o
  BY <1>1 DEF Job
<1>3. JobSet(js \ {j})
  BY JobsLess
<1>4. Named(js \ {j}, e.name) = {}
  BY <1>2 DEF JobSet, Named
<1>. QED BY <1>2, <1>3, <1>4, JobsMore

\* What the informer makes of its jobs when it hears of a name.
LEMMA JobsDelivered ==
    ASSUME NEW js, JobSet(js), NEW ks, JobSet(ks), NEW name
    PROVE  JobSet((ks \ Named(ks, name)) \cup Named(js, name))
<1>1. JobSet(ks \ Named(ks, name)) /\ JobSet(Named(js, name))
  <2>1. Named(js, name) \subseteq js
    BY DEF Named
  <2>. QED BY <2>1, JobsLess
<1>2. IsFiniteSet((ks \ Named(ks, name)) \cup Named(js, name))
  BY <1>1, FS_Union DEF JobSet
<1>. QED BY <1>1, <1>2 DEF JobSet, Named

\* A pass begins without anything found out.
LEMMA NoPassFacts ==
    ASSUME NEW m, NEW u, NEW left,
           NEW p, p = [NoPass(m) EXCEPT !.uid = u, !.left = left]
    PROVE  /\ p.m = m /\ p.uid = u /\ p.left = left /\ p.checked = {}
           /\ p.unavailable = {} /\ p.blind = {}
           /\ DOMAIN p = PassFields
BY DEF NoPass, PassFields

\* What a pass has found out about a dependency.
Checked(d, p) ==
    LET owner == seen[d.on].uid
        unmet == Unmet(jobSeen, d)
    IN  p = [pass EXCEPT
                !.left = @ \ {d},
                !.checked = @ \cup {<<d, owner>>},
                !.unavailable = @ \cup {j.node : j \in unmet},
                !.blind = @ \cup ({Id(j) : j \in Owned(jobs, d.on, owner)} \
                                {Id(j) : j \in Owned(jobSeen, d.on, owner)})]

\* The fields of a pass that has checked a dependency.
LEMMA CheckedFacts ==
    ASSUME DOMAIN pass = PassFields, NEW d, NEW p, Checked(d, p)
    PROVE  /\ DOMAIN p = PassFields /\ p.m = pass.m /\ p.uid = pass.uid
           /\ p.left = pass.left \ {d}
           /\ p.checked = pass.checked \cup {<<d, seen[d.on].uid>>}
           /\ p.unavailable = pass.unavailable \cup {j.node : j \in Unmet(jobSeen, d)}
           /\ p.blind = pass.blind \cup ({Id(j) : j \in Owned(jobs, d.on, seen[d.on].uid)} \
                                       {Id(j) : j \in Owned(jobSeen, d.on, seen[d.on].uid)})
BY DEF Checked, PassFields

\* A pass that has ended has nothing of its own.
LEMMA EndedPassFacts ==
    ASSUME NEW m
    PROVE  DOMAIN NoPass(m) = PassFields /\ NoPass(m).m = m
BY DEF NoPass, PassFields

\* The loop over the new jobs goes on or ends.
LEMMA LoopTyped ==
    ASSUME PassTyped, pc # "idle", pass.left = {}, UNCHANGED spec,
           NEW left, left \subseteq Task,
           NEW call \in Seq(Job), Loop(left, call),
           call # Nil => /\ call = <<call[1]>>
                         /\ call[1].m = pass.m /\ call[1].owner = pass.uid
    PROVE  PassTyped'
<1>1. CASE EndPass
  <2>1. Nil \in Seq(Job)
    BY DEF Nil
  <2>. QED BY <1>1, <2>1, EndedPassFacts DEF EndPass, PassTyped
<1>2. CASE pc' = "create" /\ todo' = left /\ creating' = call /\ UNCHANGED pass
  BY <1>2 DEF PassTyped
<1>. QED BY <1>1, <1>2 DEF Loop

\* So does it when a pass ends.
LEMMA EndPassTyped ==
    ASSUME EndPass
    PROVE  PassTyped'
<1>1. Nil \in Seq(Job)
  BY DEF Nil
<1>. QED BY <1>1, EndedPassFacts DEF EndPass, PassTyped

\* The job a pass picks a name for.
NewJob(t) ==
    [name |-> JobName(pass.m, t.node, FirstFree(pass.m, t.node)), uid |-> 0,
     m |-> pass.m, owner |-> pass.uid, node |-> t.node,
     machine |-> t.machine, outcome |-> "active"]

\* It is a job.
LEMMA NewJobTyped ==
    ASSUME Typed, pc # "idle", NEW t \in Task
    PROVE  NewJob(t) \in Job
<1>1. pass.m \in Names /\ pass.uid \in Nat /\ IsFiniteSet(jobSeen)
  BY DEF Typed, PassTyped, ScenarioTyped, JobsTyped, JobSet
<1>2. t.node \in Nodes /\ t.machine \in 1..MaxMachines
  BY DEF Task
<1>3. FirstFree(pass.m, t.node) \in Nat \ {0}
  BY <1>1, <1>2, FirstFreeFacts
<1>4. JobName(pass.m, t.node, FirstFree(pass.m, t.node))
        \in [m : Names, base : STRING, suffix : Seq(Nat)]
  BY <1>1, <1>2, <1>3, CandidateTyped
<1>. QED BY <1>1, <1>2, <1>4 DEF NewJob, Job, Outcomes

\* The job that is created is the one a name was picked for, but for the number.
LEMMA CreatedFacts ==
    ASSUME Typed, creating # Nil
    PROVE  /\ creating[1] \in Job /\ Created \in Job /\ Created.name = creating[1].name
           /\ Created.uid = changes /\ Created.m = pass.m /\ Created.owner = pass.uid
           /\ Created.node = creating[1].node /\ Created.machine = creating[1].machine
           /\ Created.outcome = creating[1].outcome
           /\ DOMAIN creating = {1}
<1>1. creating \in Seq(Job) /\ creating = <<creating[1]>> /\ changes \in Nat
  BY DEF Typed, PassTyped, ScenarioTyped
<1>2. creating[1] \in Job /\ DOMAIN creating = {1}
  <2>1. PICK c \in Seq(Job) : c = creating /\ c = <<c[1]>>
    BY <1>1
  <2>2. Len(c) = 1 /\ DOMAIN c = {1}
    BY <2>1
  <2>3. c[1] \in Job
    BY <2>2
  <2>. QED BY <2>1, <2>2, <2>3
<1>3. PICK k \in Nat : k = changes
  BY <1>1
<1>4. PICK j \in Job : j = creating[1]
  BY <1>2
<1>5. Created = [j EXCEPT !.uid = k]
  BY <1>3, <1>4 DEF Created
<1>6. j.m = pass.m /\ j.owner = pass.uid
  BY <1>4 DEF Typed, PassTyped
<1>. QED BY <1>2, <1>3, <1>4, <1>5, <1>6 DEF Job

\* The types are kept by every step.
LEMMA TypedStep ==
    ASSUME Typed, Behind, [Next]_vars
    PROVE  Typed'
<1>. USE DEF objects, scheduler, bounds
<1>0. ScenarioTyped /\ ObjectsTyped /\ JobsTyped /\ PassTyped
  BY DEF Typed
<1>1. ScenarioTyped'
  <2>1. UNCHANGED spec
    BY DEF Next, Create, Delete, Finish, StartPass, DeleteJob, CollectJob, JobGoes, EndJob,
         ChangeNode, DeliverMaintenance, DeliverJob, Step, CheckDependency, ListNodes, PickName,
         SendJob, Fail, Restart, vars
  <2>2. /\ UNCHANGED changes \/ (changes > 0 /\ changes' = changes - 1)
        /\ UNCHANGED errors \/ (errors > 0 /\ errors' = errors - 1)
        /\ UNCHANGED crashes \/ (crashes > 0 /\ crashes' = crashes - 1)
    BY DEF Next, Create, Delete, Finish, StartPass, DeleteJob, CollectJob, JobGoes, EndJob,
         ChangeNode, DeliverMaintenance, DeliverJob, Step, CheckDependency, ListNodes, PickName,
         SendJob, Fail, Restart, vars
  <2>3. changes' \in Nat
    BY <1>0, <2>2 DEF ScenarioTyped
  <2>4. errors' \in Nat
    BY <1>0, <2>2 DEF ScenarioTyped
  <2>5. crashes' \in Nat
    BY <1>0, <2>2 DEF ScenarioTyped
  <2>. QED BY <1>0, <2>1, <2>3, <2>4, <2>5 DEF ScenarioTyped
<1>2. ObjectsTyped'
  <2>1. CASE UNCHANGED <<api, seen>>
    BY <1>0, <2>1 DEF ObjectsTyped
  <2>2. ASSUME NEW m \in Names, Create(m) \/ Delete(m) \/ Finish(m)
        PROVE  ObjectsTyped'
    <3>1. api[m] \in Maintenance
      BY <1>0 DEF ObjectsTyped
    <3>2. CASE Create(m)
      <4>1. [uid |-> api[m].uid + 1, live |-> TRUE, finished |-> FALSE] \in Maintenance
        BY <3>1 DEF Maintenance
      <4>. QED BY <1>0, <3>2, <4>1 DEF Create, ObjectsTyped
    <3>3. CASE Delete(m)
      <4>1. [api[m] EXCEPT !.live = FALSE] \in Maintenance
        BY <3>1 DEF Maintenance
      <4>. QED BY <1>0, <3>3, <4>1 DEF Delete, ObjectsTyped
    <3>4. CASE Finish(m)
      <4>1. [api[m] EXCEPT !.finished = TRUE] \in Maintenance
        BY <3>1 DEF Maintenance
      <4>. QED BY <1>0, <3>4, <4>1 DEF Finish, ObjectsTyped
    <3>. QED BY <2>2, <3>2, <3>3, <3>4
  <2>3. CASE DeliverMaintenance
    BY <1>0, <2>3 DEF DeliverMaintenance, ObjectsTyped
  <2>4. CASE ListNodes \/ Restart
    BY <1>0, <2>4 DEF ListNodes, Restart, ObjectsTyped
  <2>5. \/ \E m \in Names : StartPass(m)
        \/ DeleteJob \/ CollectJob \/ EndJob \/ ChangeNode \/ DeliverJob
        \/ CheckDependency \/ PickName \/ SendJob \/ Fail \/ UNCHANGED vars
        => UNCHANGED <<api, seen>>
    BY DEF StartPass, DeleteJob, CollectJob, JobGoes, EndJob, ChangeNode, DeliverJob,
           CheckDependency, PickName, SendJob, Fail, vars
  <2>. QED BY <2>1, <2>2, <2>3, <2>4, <2>5 DEF Next, Step
<1>3. JobsTyped'
  <2>1. CASE UNCHANGED <<jobs, jobSeen, freed, nodes>>
    BY <1>0, <2>1 DEF JobsTyped, JobSet
  <2>2. ASSUME NEW job \in jobs, JobGoes(job)
        PROVE  JobsTyped'
    <3>1. jobs' \subseteq jobs /\ freed' = freed \cup {job.name} /\ UNCHANGED <<jobSeen, nodes>>
      BY <2>2 DEF JobGoes
    <3>2. PICK js : js = jobs' /\ JobSet(js)
      BY <1>0, <3>1, JobsLess DEF JobsTyped
    <3>3. IsFiniteSet(freed \cup {job.name})
      BY <1>0, FS_AddElement DEF JobsTyped
    <3>. QED BY <1>0, <3>1, <3>2, <3>3 DEF JobsTyped, JobSet
  <2>3. CASE EndJob
    <3>1. PICK job \in jobs, o \in Outcomes :
             /\ jobs' = (jobs \ {job}) \cup {[job EXCEPT !.outcome = o]}
             /\ UNCHANGED <<jobSeen, freed, nodes>>
      BY <2>3 DEF EndJob
    <3>2. PICK js : js = jobs' /\ JobSet(js)
      BY <1>0, <3>1, JobsEnded DEF JobsTyped
    <3>. QED BY <1>0, <3>1, <3>2 DEF JobsTyped, JobSet
  <2>4. CASE ChangeNode
    <3>1. nodes' \in [Nodes -> [machine : 0..MaxMachines, tainted : BOOLEAN]]
      <4>1. PICK n \in Nodes :
              \/ nodes' = [nodes EXCEPT ![n].tainted = ~@]
              \/ \E k \in 0..MaxMachines \ {nodes[n].machine} :
                    nodes' = [nodes EXCEPT ![n].machine = k]
        BY <2>4 DEF ChangeNode
      <4>2. \A r \in [machine : 0..MaxMachines, tainted : BOOLEAN] :
               /\ [r EXCEPT !.tainted = ~@] \in [machine : 0..MaxMachines, tainted : BOOLEAN]
               /\ \A k \in 0..MaxMachines :
                    [r EXCEPT !.machine = k] \in [machine : 0..MaxMachines, tainted : BOOLEAN]
        OBVIOUS
      <4>. QED BY <1>0, <4>1, <4>2 DEF JobsTyped
    <3>. QED BY <1>0, <2>4, <3>1 DEF ChangeNode, JobsTyped, JobSet
  <2>5. CASE DeliverJob
    <3>1. PICK name : /\ jobSeen' = (jobSeen \ Named(jobSeen, name)) \cup Named(jobs, name)
                      /\ UNCHANGED <<jobs, freed, nodes>>
      BY <2>5 DEF DeliverJob
    <3>2. PICK js : js = jobSeen' /\ JobSet(js)
      BY <1>0, <3>1, JobsDelivered DEF JobsTyped
    <3>. QED BY <1>0, <3>1, <3>2 DEF JobsTyped, JobSet
  <2>6. CASE ListNodes \/ Restart
    <3>1. UNCHANGED <<jobs, freed, nodes>> /\ jobSeen' \in {jobs, jobSeen}
      BY <2>6 DEF ListNodes, Restart
    <3>. QED BY <1>0, <3>1 DEF JobsTyped, JobSet
  <2>7. CASE SendJob
    <3>1. /\ UNCHANGED <<jobSeen, freed, nodes>>
          /\ UNCHANGED jobs \/ (Named(jobs, creating[1].name) = {} /\ jobs' = jobs \cup {Created})
      BY <2>7 DEF SendJob
    <3>2. PICK c : c = Created /\ c \in Job /\ c.name = creating[1].name
      BY <2>7, CreatedFacts DEF SendJob
    <3>3. PICK js : js = jobs' /\ JobSet(js)
      BY <1>0, <3>1, <3>2, JobsMore DEF JobsTyped
    <3>. QED BY <1>0, <3>1, <3>3 DEF JobsTyped, JobSet
  <2>8. CASE DeleteJob \/ CollectJob
    BY <2>2, <2>8 DEF DeleteJob, CollectJob
  <2>9. \/ \E m \in Names : Create(m) \/ Delete(m) \/ Finish(m) \/ StartPass(m)
        \/ DeliverMaintenance \/ CheckDependency \/ PickName \/ Fail \/ UNCHANGED vars
        => UNCHANGED <<jobs, jobSeen, freed, nodes>>
    BY DEF Create, Delete, Finish, StartPass, DeliverMaintenance, CheckDependency, PickName,
           Fail, vars
  <2>. QED BY <2>1, <2>3, <2>4, <2>5, <2>6, <2>7, <2>8, <2>9 DEF Next, Step
<1>4. PassTyped'
  <2>1. CASE UNCHANGED <<spec, scheduler>>
    BY <1>0, <2>1 DEF PassTyped
  <2>2. CASE EndPass
    BY <2>2, EndPassTyped
  <2>3. ASSUME NEW m \in Names, StartPass(m)
        PROVE  PassTyped'
    <3>1. /\ seen[m].live /\ pc = "idle" /\ pc' = "depends" /\ UNCHANGED <<spec, todo, creating>>
          /\ pass' = [NoPass(m) EXCEPT !.uid = seen[m].uid, !.left = spec[m].depends]
      BY <2>3 DEF StartPass
    <3>2. pass'.m = m /\ pass'.uid = seen[m].uid /\ DOMAIN pass' = PassFields
      <4>1. PICK u, l, p : /\ u = seen[m].uid /\ l = spec[m].depends /\ p = pass'
                           /\ p = [NoPass(m) EXCEPT !.uid = u, !.left = l]
        BY <3>1
      <4>2. p.m = m /\ p.uid = u /\ DOMAIN p = PassFields
        BY <4>1 DEF NoPass, PassFields
      <4>. QED BY <4>1, <4>2
    <3>3. seen[m].uid \in Nat /\ m \in DOMAIN spec
      BY <1>0, <3>1 DEF ObjectsTyped, Maintenance, Behind
    <3>4. creating' = Nil
      BY <1>0, <3>1 DEF PassTyped
    <3>. QED BY <1>0, <3>1, <3>2, <3>3, <3>4 DEF PassTyped
  <2>4. CASE CheckDependency
    <3>1. CASE EndPass
      BY <3>1, EndPassTyped
    <3>2. ASSUME NEW d, Checked(d, pass'), UNCHANGED <<spec, pc, todo, creating>>
          PROVE  PassTyped'
      <4>1. PICK p : p = pass' /\ Checked(d, p)
        BY <3>2
      <4>2. DOMAIN p = PassFields /\ p.m = pass.m /\ p.uid = pass.uid
        BY <1>0, <4>1, CheckedFacts DEF PassTyped
      <4>3. pc = "depends"
        BY <2>4 DEF CheckDependency
      <4>4. creating' = Nil
        BY <1>0, <3>2, <4>3 DEF PassTyped
      <4>. QED BY <1>0, <3>2, <4>1, <4>2, <4>3, <4>4 DEF PassTyped
    <3>. QED BY <2>4, <3>1, <3>2 DEF CheckDependency, Checked
  <2>5. CASE ListNodes
    <3>1. CASE EndPass
      BY <3>1, EndPassTyped
    <3>2. ASSUME NEW ns, ns \subseteq {n \in Nodes : Selected(pass.m, n)},
                 Loop({[node |-> n, machine |-> nodes[n].machine] : n \in ns}, Nil)
          PROVE  PassTyped'
      <4> DEFINE left == {[node |-> n, machine |-> nodes[n].machine] : n \in ns}
      <4>1. \A n \in ns : n \in Nodes /\ nodes[n].machine \in 1..MaxMachines
        BY <1>0, <3>2, MachinesAssumption DEF Selected, JobsTyped
      <4>2. left \subseteq Task
        BY <4>1 DEF Task
      <4>3. pc # "idle" /\ pass.left = {} /\ UNCHANGED spec
        BY <2>5 DEF ListNodes
      <4>4. Nil \in Seq(Job)
        BY DEF Nil
      <4>. QED BY <1>0, <3>2, <4>2, <4>3, <4>4, LoopTyped
    <3>3. {n \in Nodes : Selected(pass.m, n) /\ n \notin pass.unavailable}
             \subseteq {n \in Nodes : Selected(pass.m, n)}
      OBVIOUS
    <3>. QED BY <2>5, <3>1, <3>2, <3>3 DEF ListNodes
  <2>6. CASE PickName
    <3>1. PICK t \in todo : /\ pc = "create" /\ UNCHANGED spec
                            /\ \/ Loop(todo \ {t}, Nil)
                               \/ Loop(todo \ {t}, <<NewJob(t)>>)
      BY <2>6 DEF PickName, NewJob
    <3>2. pass.left = {} /\ t \in Task /\ todo \ {t} \subseteq Task
      BY <1>0, <3>1 DEF PassTyped
    <3>3. PICK j \in Job : j = NewJob(t) /\ j.m = pass.m /\ j.owner = pass.uid
      BY <3>1, <3>2, NewJobTyped DEF NewJob
    <3>4. Nil \in Seq(Job) /\ <<j>> \in Seq(Job) /\ <<j>> = <<(<<j>>)[1]>>
      BY DEF Nil
    <3>5. CASE Loop(todo \ {t}, Nil)
      BY <1>0, <3>1, <3>2, <3>4, <3>5, LoopTyped
    <3>6. CASE Loop(todo \ {t}, <<NewJob(t)>>)
      <4>1. PICK call \in Seq(Job) : call = <<j>> /\ call[1] = j
        BY <3>4
      <4>2. Loop(todo \ {t}, call)
        BY <3>3, <3>6, <4>1
      <4>3. call = <<call[1]>> /\ call[1].m = pass.m /\ call[1].owner = pass.uid
        BY <3>3, <4>1
      <4>. QED BY <1>0, <3>1, <3>2, <4>2, <4>3, LoopTyped
    <3>. QED BY <3>1, <3>5, <3>6
  <2>7. CASE SendJob
    <3>1. creating # Nil /\ Loop(todo, Nil) /\ UNCHANGED spec
      BY <2>7 DEF SendJob
    <3>2. Nil \in Seq(Job)
      BY DEF Nil
    <3>. QED BY <1>0, <3>1, <3>2, LoopTyped DEF PassTyped
  <2>8. CASE Fail \/ Restart
    BY <2>2, <2>8 DEF Fail, Restart
  <2>9. \/ \E m \in Names : Create(m) \/ Delete(m) \/ Finish(m)
        \/ DeleteJob \/ CollectJob \/ EndJob \/ ChangeNode \/ DeliverMaintenance \/ DeliverJob
        \/ UNCHANGED vars
        => UNCHANGED <<spec, scheduler>>
    BY DEF Create, Delete, Finish, DeleteJob, CollectJob, JobGoes, EndJob, ChangeNode,
           DeliverMaintenance, DeliverJob, vars
  <2>. QED BY <2>1, <2>3, <2>4, <2>5, <2>6, <2>7, <2>8, <2>9 DEF Next, Step
<1>. QED BY <1>1, <1>2, <1>3, <1>4 DEF Typed

-----------------------------------------------------------------------------
(* What all steps have in common. *)

\* Incarnations follow each other, one that has gone does not come back, and one that is
\* finished stays so.
LEMMA ObjectsGoOn ==
    ASSUME Typed, [Next]_vars, NEW m \in Names
    PROVE  /\ api[m].uid \in Nat /\ api'[m].uid \in Nat /\ api[m].uid <= api'[m].uid
           /\ api'[m].uid = api[m].uid =>
                /\ api'[m].live => api[m].live
                /\ api[m].finished => api'[m].finished
           /\ api'[m].live /\ ~api[m].live => m \in DOMAIN spec
<1>. USE DEF objects, scheduler, bounds
<1>1. api \in [Names -> Maintenance] /\ api[m] \in Maintenance /\ api[m].uid \in Nat
  BY DEF Typed, ObjectsTyped, Maintenance
<1>2. CASE UNCHANGED api
  BY <1>1, <1>2
<1>3. ASSUME NEW k \in Names, Create(k)
      PROVE  /\ api'[m].uid \in Nat /\ api[m].uid <= api'[m].uid
             /\ api'[m].uid = api[m].uid =>
                  /\ api'[m].live => api[m].live
                  /\ api[m].finished => api'[m].finished
             /\ api'[m].live /\ ~api[m].live => m \in DOMAIN spec
  <2>1. CASE m = k
    <3>1. api'[m] = [uid |-> api[m].uid + 1, live |-> TRUE, finished |-> FALSE] /\ m \in DOMAIN spec
      BY <1>1, <1>3, <2>1 DEF Create
    <3>2. api'[m].uid = api[m].uid + 1
      BY <3>1
    <3>. QED BY <1>1, <3>1, <3>2
  <2>2. CASE m # k
    <3>1. api'[m] = api[m]
      BY <1>1, <1>3, <2>2 DEF Create
    <3>. QED BY <1>1, <3>1
  <2>. QED BY <2>1, <2>2
<1>4. ASSUME NEW k \in Names, Delete(k) \/ Finish(k)
      PROVE  /\ api'[m].uid \in Nat /\ api[m].uid <= api'[m].uid
             /\ api'[m].uid = api[m].uid =>
                  /\ api'[m].live => api[m].live
                  /\ api[m].finished => api'[m].finished
             /\ api'[m].live /\ ~api[m].live => m \in DOMAIN spec
  <2>1. /\ api'[m] \in {api[m], [api[m] EXCEPT !.live = FALSE], [api[m] EXCEPT !.finished = TRUE]}
    BY <1>1, <1>4 DEF Delete, Finish
  <2>2. PICK o \in Maintenance : o = api[m]
    BY <1>1
  <2>3. /\ [o EXCEPT !.live = FALSE].uid = o.uid /\ [o EXCEPT !.live = FALSE].live = FALSE
        /\ [o EXCEPT !.live = FALSE].finished = o.finished
        /\ [o EXCEPT !.finished = TRUE].uid = o.uid /\ [o EXCEPT !.finished = TRUE].live = o.live
        /\ [o EXCEPT !.finished = TRUE].finished = TRUE
    BY DEF Maintenance
  <2>4. PICK p : p = api'[m]
    OBVIOUS
  <2>5. p.uid = o.uid /\ (p.live => o.live) /\ (o.finished => p.finished)
    BY <2>1, <2>2, <2>3, <2>4
  <2>. QED BY <1>1, <2>2, <2>4, <2>5
<1>5. \/ \E k \in Names : StartPass(k)
      \/ DeleteJob \/ CollectJob \/ EndJob \/ ChangeNode \/ DeliverMaintenance \/ DeliverJob
      \/ Step \/ Fail \/ Restart \/ UNCHANGED vars
      => UNCHANGED api
  BY DEF StartPass, DeleteJob, CollectJob, JobGoes, EndJob, ChangeNode, DeliverMaintenance,
         DeliverJob, Step, CheckDependency, ListNodes, PickName, SendJob, Fail, Restart, vars
<1>. QED BY <1>1, <1>2, <1>3, <1>4, <1>5 DEF Next

\* The bounds are used up.
LEMMA ChangesGoOn ==
    ASSUME Typed, [Next]_vars
    PROVE  changes \in Nat /\ changes' \in Nat /\ changes' <= changes /\ UNCHANGED spec
<1>. USE DEF objects, scheduler, bounds
<1>1. UNCHANGED spec
  BY DEF Next, Create, Delete, Finish, StartPass, DeleteJob, CollectJob, JobGoes, EndJob,
       ChangeNode, DeliverMaintenance, DeliverJob, Step, CheckDependency, ListNodes, PickName,
       SendJob, Fail, Restart, vars
<1>2. UNCHANGED changes \/ (changes > 0 /\ changes' = changes - 1)
  BY DEF Next, Create, Delete, Finish, StartPass, DeleteJob, CollectJob, JobGoes, EndJob,
       ChangeNode, DeliverMaintenance, DeliverJob, Step, CheckDependency, ListNodes, PickName,
       SendJob, Fail, Restart, vars
<1>3. changes \in Nat
  BY DEF Typed, ScenarioTyped
<1>. QED BY <1>1, <1>2, <1>3

\* What may happen to the jobs of the API server.
JobLeaves(job) ==
    /\ jobs' = jobs \ {job} /\ freed' = freed \cup {job.name}
    /\ UNCHANGED <<api, seen, jobSeen, pc, pass, todo, creating>>
    /\ (changes > 0 /\ changes' = changes - 1) \/ OwnerGone(job)
JobEnds(job, e) ==
    /\ jobs' = (jobs \ {job}) \cup {e} /\ e \in Job
    /\ job.outcome = "active"
    /\ e.name = job.name /\ e.uid = job.uid /\ e.m = job.m /\ e.owner = job.owner
    /\ e.node = job.node /\ e.machine = job.machine
    /\ UNCHANGED <<api, seen, jobSeen, freed, changes, pc, pass, todo, creating>>
JobComes ==
    /\ creating # Nil /\ Named(jobs, creating[1].name) = {} /\ jobs' = jobs \cup {Created}
    /\ UNCHANGED <<api, seen, jobSeen, freed, changes>>
    /\ Loop(todo, Nil)
JobsStay == UNCHANGED <<jobs, freed>>

\* They stay, or one of them leaves, ends or comes.
LEMMA JobsGoOn ==
    ASSUME Typed, [Next]_vars
    PROVE  \/ JobsStay
           \/ \E job \in jobs : JobLeaves(job)
           \/ \E job \in jobs, e \in Job : JobEnds(job, e)
           \/ JobComes
<1>. USE DEF objects, scheduler, bounds
<1>1. CASE DeleteJob
  BY <1>1 DEF DeleteJob, JobGoes, JobLeaves
<1>2. CASE CollectJob
  <2>1. PICK job \in jobs : OwnerGone(job) /\ JobGoes(job) /\ UNCHANGED changes
    BY <1>2 DEF CollectJob, OwnerGone
  <2>. QED BY <2>1 DEF JobGoes, JobLeaves
<1>3. CASE EndJob
  <2>1. PICK job \in jobs, o \in Outcomes :
           /\ jobs' = (jobs \ {job}) \cup {[job EXCEPT !.outcome = o]} /\ job.outcome = "active"
           /\ UNCHANGED <<api, seen, jobSeen, freed, changes, pc, pass, todo, creating>>
    BY <1>3 DEF EndJob
  <2>2. PICK e : e = [job EXCEPT !.outcome = o]
    OBVIOUS
  <2>0. job \in Job
    BY DEF Typed, JobsTyped, JobSet
  <2>3. /\ e \in Job /\ e.name = job.name /\ e.uid = job.uid /\ e.m = job.m
        /\ e.owner = job.owner /\ e.node = job.node /\ e.machine = job.machine
    BY <2>0, <2>2 DEF Job
  <2>. QED BY <2>1, <2>2, <2>3 DEF JobEnds
<1>4. CASE SendJob
  BY <1>4 DEF SendJob, JobComes, JobsStay
<1>5. \/ \E m \in Names : Create(m) \/ Delete(m) \/ Finish(m) \/ StartPass(m)
      \/ ChangeNode \/ DeliverMaintenance \/ DeliverJob
      \/ CheckDependency \/ ListNodes \/ PickName \/ Fail \/ Restart \/ UNCHANGED vars
      => JobsStay
  BY DEF Create, Delete, Finish, StartPass, ChangeNode, DeliverMaintenance, DeliverJob,
         CheckDependency, ListNodes, PickName, Fail, Restart, vars, JobsStay
<1>. QED BY <1>1, <1>2, <1>3, <1>4, <1>5 DEF Next, Step

\* The caches change by what they hear of the API server only.
LEMMA CachesGoOn ==
    ASSUME Typed, [Next]_vars
    PROVE  /\ jobSeen' \subseteq jobSeen \cup jobs
           /\ jobSeen' # jobSeen => UNCHANGED <<api, jobs, freed, changes>>
           /\ \A m \in Names : seen'[m] = seen[m] \/ (seen'[m] = api[m] /\ UNCHANGED api)
<1>. USE DEF objects, scheduler, bounds
<1>0. seen \in [Names -> Maintenance] /\ api \in [Names -> Maintenance]
  BY DEF Typed, ObjectsTyped
<1>1. CASE DeliverMaintenance
  BY <1>0, <1>1 DEF DeliverMaintenance
<1>2. CASE DeliverJob
  BY <1>2 DEF DeliverJob, Named
<1>3. CASE ListNodes \/ Restart
  BY <1>3 DEF ListNodes, Restart
<1>4. CASE UNCHANGED <<seen, jobSeen>>
  BY <1>4
<1>5. \/ \E m \in Names : Create(m) \/ Delete(m) \/ Finish(m) \/ StartPass(m)
      \/ DeleteJob \/ CollectJob \/ EndJob \/ ChangeNode
      \/ CheckDependency \/ PickName \/ SendJob \/ Fail \/ UNCHANGED vars
      => UNCHANGED <<seen, jobSeen>>
  BY DEF Create, Delete, Finish, StartPass, DeleteJob, CollectJob, JobGoes, EndJob, ChangeNode,
         CheckDependency, PickName, SendJob, Fail, vars
<1>. QED BY <1>1, <1>2, <1>3, <1>4, <1>5 DEF Next, Step

\* A pass goes on with its object, or begins.
LEMMA PassGoesOn ==
    ASSUME Typed, [Next]_vars, pc' # "idle"
    PROVE  \/ pc # "idle" /\ pass'.m = pass.m /\ pass'.uid = pass.uid
           \/ \E m \in Names : StartPass(m)
<1>. USE DEF objects, scheduler, bounds
<1>0. PassTyped
  BY DEF Typed
<1>1. CASE CheckDependency
  <2>1. ~EndPass /\ pc = "depends"
    BY <1>1 DEF EndPass, CheckDependency
  <2>2. PICK d, p : p = pass' /\ Checked(d, p)
    BY <1>1, <2>1 DEF CheckDependency, Checked
  <2>. QED BY <1>0, <2>1, <2>2, CheckedFacts DEF PassTyped
<1>2. CASE ListNodes \/ PickName \/ SendJob
  BY <1>0, <1>2 DEF ListNodes, PickName, SendJob, Loop, EndPass, PassTyped
<1>3. CASE Fail \/ Restart
  BY <1>3 DEF Fail, Restart, EndPass
<1>4. CASE UNCHANGED scheduler
  BY <1>4
<1>5. \/ \E m \in Names : Create(m) \/ Delete(m) \/ Finish(m)
      \/ DeleteJob \/ CollectJob \/ EndJob \/ ChangeNode \/ DeliverMaintenance \/ DeliverJob
      \/ UNCHANGED vars
      => UNCHANGED scheduler
  BY DEF Create, Delete, Finish, DeleteJob, CollectJob, JobGoes, EndJob, ChangeNode,
         DeliverMaintenance, DeliverJob, vars
<1>. QED BY <1>1, <1>2, <1>3, <1>4, <1>5 DEF Next, Step

-----------------------------------------------------------------------------
(* The caches are behind. *)

\* They stay so: what they hear of is what there is, and incarnations only follow.
LEMMA BehindStep ==
    ASSUME Typed, Behind, [Next]_vars
    PROVE  Behind'
<1>1. ASSUME NEW m \in Names
      PROVE  /\ seen'[m].uid <= api'[m].uid
             /\ seen'[m].uid = api'[m].uid /\ seen'[m].finished => api'[m].finished
             /\ api'[m].live \/ seen'[m].live => m \in DOMAIN spec'
  <2>1. UNCHANGED spec
    BY ChangesGoOn
  <2>2. /\ api[m].uid \in Nat /\ api'[m].uid \in Nat /\ api[m].uid <= api'[m].uid
        /\ api'[m].uid = api[m].uid => (api[m].finished => api'[m].finished)
        /\ api'[m].live /\ ~api[m].live => m \in DOMAIN spec
    BY ObjectsGoOn
  <2>3. seen[m].uid \in Nat
    BY DEF Typed, ObjectsTyped, Maintenance
  <2>4. /\ seen[m].uid <= api[m].uid
        /\ seen[m].uid = api[m].uid /\ seen[m].finished => api[m].finished
        /\ api[m].live \/ seen[m].live => m \in DOMAIN spec
    BY DEF Behind
  <2>5. CASE seen'[m] = seen[m]
    <3>1. seen[m].uid = api'[m].uid => api[m].uid = api'[m].uid
      BY <2>2, <2>3, <2>4
    <3>2. seen[m].uid <= api'[m].uid
      BY <2>2, <2>3, <2>4
    <3>. QED BY <2>1, <2>2, <2>4, <2>5, <3>1, <3>2
  <2>6. CASE seen'[m] = api[m] /\ UNCHANGED api
    BY <2>1, <2>2, <2>4, <2>6
  <2>. QED BY <2>5, <2>6, CachesGoOn
<1>2. ASSUME NEW j \in jobs' \cup jobSeen'
      PROVE  j.owner <= api'[j.m].uid
  <2>1. ASSUME NEW k \in jobs \cup jobSeen
        PROVE  k.owner <= api'[k.m].uid
    <3>1. k \in Job
      BY DEF Typed, JobsTyped, JobSet
    <3>2. k.owner \in Nat /\ k.m \in Names
      BY <3>1 DEF Job
    <3>3. api[k.m].uid \in Nat /\ api'[k.m].uid \in Nat /\ api[k.m].uid <= api'[k.m].uid
      BY <3>2, ObjectsGoOn
    <3>4. k.owner <= api[k.m].uid
      BY DEF Behind
    <3>. QED BY <3>2, <3>3, <3>4
  <2>2. CASE j \in jobs \cup jobSeen
    BY <2>1, <2>2
  <2>3. CASE JobComes /\ j = Created
    <3>1. j.m = pass.m /\ j.owner = pass.uid /\ pc # "idle"
      BY <2>3, CreatedFacts DEF JobComes, Typed, PassTyped
    <3>. QED BY <2>3, <3>1 DEF JobComes, Behind
  <2>4. ASSUME NEW k \in jobs, NEW e \in Job, JobEnds(k, e), j = e
        PROVE  j.owner <= api'[j.m].uid
    BY <2>1, <2>4 DEF JobEnds
  <2>5. \/ j \in jobs \cup jobSeen
        \/ JobComes /\ j = Created
        \/ \E k \in jobs, e \in Job : JobEnds(k, e) /\ j = e
    BY JobsGoOn, CachesGoOn DEF JobsStay, JobLeaves, JobEnds, JobComes
  <2>. QED BY <2>2, <2>3, <2>4, <2>5
<1>3. ASSUME NEW j \in jobs'
      PROVE  j.uid >= changes'
  <2>1. changes \in Nat /\ changes' \in Nat /\ changes' <= changes
    BY ChangesGoOn
  <2>2. ASSUME NEW k \in jobs
        PROVE  k.uid >= changes'
    <3>1. k.uid \in Nat
      BY DEF Typed, JobsTyped, JobSet, Job
    <3>2. k.uid >= changes
      BY DEF Behind
    <3>. QED BY <2>1, <3>1, <3>2
  <2>3. CASE JobComes /\ j = Created
    <3>1. j.uid = changes
      BY <2>3, CreatedFacts DEF JobComes
    <3>. QED BY <2>1, <3>1
  <2>4. \/ j \in jobs
        \/ JobComes /\ j = Created
        \/ \E k \in jobs, e \in Job : JobEnds(k, e) /\ j = e
    BY JobsGoOn DEF JobsStay, JobLeaves, JobEnds, JobComes
  <2>. QED BY <2>2, <2>3, <2>4 DEF JobEnds
<1>4. ASSUME pc' # "idle"
      PROVE  pass'.uid <= api'[pass'.m].uid
  <2>1. CASE pc # "idle" /\ pass'.m = pass.m /\ pass'.uid = pass.uid
    <3>1. pass.m \in Names /\ pass.uid \in Nat
      BY <2>1 DEF Typed, PassTyped, ScenarioTyped
    <3>2. /\ api[pass.m].uid \in Nat /\ api'[pass.m].uid \in Nat
          /\ api[pass.m].uid <= api'[pass.m].uid
      BY <3>1, ObjectsGoOn
    <3>3. pass.uid <= api[pass.m].uid
      BY <2>1 DEF Behind
    <3>. QED BY <2>1, <3>1, <3>2, <3>3
  <2>2. ASSUME NEW m \in Names, StartPass(m)
        PROVE  pass'.uid <= api'[pass'.m].uid
    <3>1. pass' = [NoPass(m) EXCEPT !.uid = seen[m].uid, !.left = spec[m].depends] /\ UNCHANGED api
      BY <2>2 DEF StartPass, objects
    <3>2. pass'.m = m /\ pass'.uid = seen[m].uid
      BY <3>1 DEF NoPass
    <3>. QED BY <3>1, <3>2 DEF Behind
  <2>. QED BY <1>4, <2>1, <2>2, PassGoesOn
<1>. QED BY <1>1, <1>2, <1>3, <1>4 DEF Behind

-----------------------------------------------------------------------------
(* What the cache of jobs tells. *)

\* An incarnation that has gone does not come back.
LEMMA OwnerStaysGone ==
    ASSUME Typed, [Next]_vars,
           NEW x \in Job, x.owner <= api[x.m].uid, OwnerGone(x)
    PROVE  OwnerGone(x)'
<1>1. x.m \in Names /\ x.owner \in Nat
  BY DEF Job
<1>2. /\ api[x.m].uid \in Nat /\ api'[x.m].uid \in Nat /\ api[x.m].uid <= api'[x.m].uid
      /\ api'[x.m].uid = api[x.m].uid => (api'[x.m].live => api[x.m].live)
  BY <1>1, ObjectsGoOn
<1>3. SUFFICES ASSUME api'[x.m].live, api'[x.m].uid = x.owner
               PROVE  FALSE
  BY DEF OwnerGone
<1>4. api'[x.m].uid = api[x.m].uid /\ api[x.m].uid = x.owner
  BY <1>1, <1>2, <1>3
<1>. QED BY <1>2, <1>3, <1>4 DEF OwnerGone

\* A job of the cache stays one that is in the API server, or was.
LEMMA CacheStep ==
    ASSUME Typed, Behind, CacheRight, [Next]_vars
    PROVE  CacheRight'
<1>0. /\ \A j, k \in jobs : j.name = k.name => j = k
      /\ jobs \subseteq Job /\ jobSeen \subseteq Job
  BY DEF Typed, JobsTyped, JobSet
<1>1. CASE jobSeen' # jobSeen
  <2>1. jobSeen' \subseteq jobSeen \cup jobs /\ UNCHANGED <<api, jobs, freed, changes>>
    BY <1>1, CachesGoOn
  <2>2. ASSUME NEW x \in jobSeen \cup jobs
        PROVE  /\ \/ \E j \in jobs : Same(x, j)
                  \/ x.name \in freed /\ (x.uid > changes \/ OwnerGone(x))
               /\ \A j \in jobs : Id(j) = Id(x) => Same(x, j) \/ OwnerGone(x)
    <3>1. CASE x \in jobSeen
      BY <3>1 DEF CacheRight
    <3>2. CASE x \in jobs
      <4>1. Same(x, x)
        BY DEF Same
      <4>2. \A j \in jobs : Id(j) = Id(x) => j = x
        BY <1>0, <3>2 DEF Id
      <4>. QED BY <3>2, <4>1, <4>2
    <3>. QED BY <3>1, <3>2
  <2>. QED BY <2>1, <2>2 DEF CacheRight, OwnerGone
<1>2. ASSUME jobSeen' = jobSeen, NEW x \in jobSeen
      PROVE  /\ \/ \E j \in jobs' : Same(x, j)
                \/ x.name \in freed' /\ (x.uid > changes' \/ OwnerGone(x)')
             /\ \A j \in jobs' : Id(j) = Id(x) => Same(x, j) \/ OwnerGone(x)'
  <2>1. x \in Job /\ x.uid \in Nat
    BY <1>0 DEF Job
  <2>2. OwnerGone(x) => OwnerGone(x)'
    <3>1. x.owner <= api[x.m].uid
      BY DEF Behind
    <3>. QED BY <2>1, <3>1, OwnerStaysGone
  <2>3. changes \in Nat /\ changes' \in Nat /\ changes' <= changes
    BY ChangesGoOn
  <2>4. x.uid > changes => x.uid > changes'
    BY <2>1, <2>3
  <2>5. /\ \/ \E j \in jobs : Same(x, j)
           \/ x.name \in freed /\ (x.uid > changes \/ OwnerGone(x))
        /\ \A j \in jobs : Id(j) = Id(x) => Same(x, j) \/ OwnerGone(x)
    BY DEF CacheRight
  <2>6. CASE JobsStay
    BY <2>2, <2>4, <2>5, <2>6 DEF JobsStay
  <2>7. ASSUME NEW job \in jobs, JobLeaves(job)
        PROVE  /\ \/ \E j \in jobs' : Same(x, j)
                  \/ x.name \in freed' /\ (x.uid > changes' \/ OwnerGone(x)')
               /\ \A j \in jobs' : Id(j) = Id(x) => Same(x, j) \/ OwnerGone(x)'
    <3>1. CASE Same(x, job)
      <4>1. x.name \in freed' /\ x.uid = job.uid /\ x.m = job.m /\ x.owner = job.owner
        BY <2>7, <3>1 DEF JobLeaves, Same
      <4>2. job.uid >= changes /\ job.uid \in Nat
        BY <2>1, <4>1 DEF Behind
      <4>3. CASE changes > 0 /\ changes' = changes - 1
        <5>1. x.uid > changes'
          BY <2>3, <4>1, <4>2, <4>3
        <5>. QED BY <2>2, <2>5, <2>7, <4>1, <5>1 DEF JobLeaves
      <4>4. CASE OwnerGone(job)
        <5>1. OwnerGone(x)
          BY <4>1, <4>4 DEF OwnerGone
        <5>. QED BY <2>2, <2>5, <2>7, <4>1, <5>1 DEF JobLeaves
      <4>. QED BY <2>7, <4>3, <4>4 DEF JobLeaves
    <3>2. CASE ~Same(x, job)
      BY <2>2, <2>4, <2>5, <2>7, <3>2 DEF JobLeaves
    <3>. QED BY <3>1, <3>2
  <2>8. ASSUME NEW job \in jobs, NEW e \in Job, JobEnds(job, e)
        PROVE  /\ \/ \E j \in jobs' : Same(x, j)
                  \/ x.name \in freed' /\ (x.uid > changes' \/ OwnerGone(x)')
               /\ \A j \in jobs' : Id(j) = Id(x) => Same(x, j) \/ OwnerGone(x)'
    <3>1. Same(x, job) => Same(x, e)
      BY <2>8 DEF JobEnds, Same
    <3>2. Id(e) = Id(job)
      BY <2>8 DEF JobEnds, Id
    <3>3. jobs' = (jobs \ {job}) \cup {e} /\ UNCHANGED <<freed, changes>>
      BY <2>8 DEF JobEnds
    <3>4. (\E j \in jobs : Same(x, j)) => \E j \in jobs' : Same(x, j)
      BY <3>1, <3>3
    <3>. QED BY <2>2, <2>5, <3>1, <3>2, <3>3, <3>4
  <2>9. CASE JobComes
    <3>1. PICK c : /\ c = Created /\ c.name = creating[1].name /\ c.uid = changes
                   /\ jobs' = jobs \cup {c} /\ UNCHANGED <<freed, changes>>
      BY <2>9, CreatedFacts DEF JobComes
    <3>2. ASSUME Id(c) = Id(x)
          PROVE  OwnerGone(x)
      <4>1. x.name = creating[1].name /\ x.uid = changes
        BY <3>1, <3>2 DEF Id
      <4>2. ~\E j \in jobs : Same(x, j)
        BY <2>9, <4>1 DEF JobComes, Named, Same
      <4>3. ~(x.uid > changes)
        BY <2>3, <4>1
      <4>. QED BY <2>5, <4>2, <4>3
    <3>. QED BY <2>2, <2>5, <3>1, <3>2
  <2>. QED BY <2>6, <2>7, <2>8, <2>9, JobsGoOn
<1>. QED BY <1>1, <1>2 DEF CacheRight, OwnerGone

-----------------------------------------------------------------------------
(* How names are taken. *)

\* A candidate that was passed over stays so.
LEMMA PassedStays ==
    ASSUME Typed, [Next]_vars, NEW job, NEW i, Passed(job, i)
    PROVE  Passed(job, i)'
<1>1. PICK name : name = JobName(job.m, job.node, i)
  OBVIOUS
<1>2. SUFFICES name \in freed' \/ \E j \in jobs' : j.name = name /\ j.machine # job.machine
  BY <1>1 DEF Passed
<1>3. name \in freed \/ \E j \in jobs : j.name = name /\ j.machine # job.machine
  BY <1>1 DEF Passed
<1>4. CASE JobsStay
  BY <1>3, <1>4 DEF JobsStay
<1>5. ASSUME NEW k \in jobs, JobLeaves(k)
      PROVE  name \in freed' \/ \E j \in jobs' : j.name = name /\ j.machine # job.machine
  BY <1>3, <1>5 DEF JobLeaves
<1>6. ASSUME NEW k \in jobs, NEW e \in Job, JobEnds(k, e)
      PROVE  name \in freed' \/ \E j \in jobs' : j.name = name /\ j.machine # job.machine
  <2>1. /\ jobs' = (jobs \ {k}) \cup {e} /\ UNCHANGED freed
        /\ e.name = k.name /\ e.machine = k.machine
    BY <1>6 DEF JobEnds
  <2>. QED BY <1>3, <2>1
<1>7. CASE JobComes
  BY <1>3, <1>7 DEF JobComes
<1>. QED BY <1>4, <1>5, <1>6, <1>7, JobsGoOn

\* A job stays placed.
LEMMA PlacedStays ==
    ASSUME Typed, [Next]_vars, NEW job, Placed(job)
    PROVE  Placed(job)'
<1>1. PICK a \in Nat \ {0} :
         job.name = JobName(job.m, job.node, a) /\ \A i \in 1..a - 1 : Passed(job, i)
  BY DEF Placed
<1>2. \A i \in 1..a - 1 : Passed(job, i)'
  BY <1>1, PassedStays
<1>. QED BY <1>1, <1>2 DEF Placed

\* That a job is placed depends on its name, node and machine only.
LEMMA PlacedAlike ==
    ASSUME NEW j, NEW k, Placed(j), k.name = j.name, k.m = j.m, k.node = j.node,
           k.machine = j.machine
    PROVE  Placed(k)
BY DEF Placed, Passed

\* The name that is picked for a job is one of its node, with those before it passed over.
LEMMA NameIsPlaced ==
    ASSUME Typed, CacheRight, pc = "create", NEW t \in todo, ~HasJob(pass.m, t)
    PROVE  Placed(NewJob(t))
<1>1. PICK job : job = NewJob(t)
  OBVIOUS
<1>2. PICK m, n : m = pass.m /\ n = t.node
  OBVIOUS
<1>3. m \in Names /\ n \in Nodes /\ IsFiniteSet(jobSeen)
  BY <1>2 DEF Typed, ScenarioTyped, JobsTyped, JobSet, PassTyped, Task
<1>4. PICK a : a = FirstFree(m, n)
  OBVIOUS
<1>5. /\ a \in Nat \ {0}
      /\ \A h \in 1..a - 1 : Named(jobSeen, JobName(m, n, h)) # {}
  BY <1>3, <1>4, FirstFreeFacts
<1>6. /\ job.name = JobName(m, n, a) /\ job.m = m /\ job.node = n
      /\ job.machine = t.machine
  BY <1>1, <1>2, <1>4 DEF NewJob
<1>7. ASSUME NEW i \in 1..a - 1
      PROVE  Passed(job, i)
  <2>1. PICK x \in jobSeen : x.name = JobName(m, n, i)
    BY <1>5 DEF Named
  <2>2. x.machine # job.machine
    BY <1>2, <1>4, <1>6, <2>1 DEF HasJob, Named
  <2>3. (\E j \in jobs : Same(x, j)) \/ x.name \in freed
    BY DEF CacheRight
  <2>. QED BY <1>6, <2>1, <2>2, <2>3 DEF Passed, Same
<1>8. Placed(job)
  BY <1>3, <1>5, <1>6, <1>7 DEF Placed
<1>. QED BY <1>1, <1>8

\* The call that is on its way stays the same, or is that for a new job, or is done.
LEMMA CallsGoOn ==
    ASSUME Typed, [Next]_vars
    PROVE  \/ creating' = creating
           \/ creating' = Nil
           \/ \E t \in todo : /\ pc = "create" /\ ~HasJob(pass.m, t)
                              /\ creating' = <<NewJob(t)>>
<1>. USE DEF objects, scheduler, bounds
<1>1. CASE PickName
  BY <1>1 DEF PickName, NewJob, Loop, EndPass
<1>2. CASE CheckDependency \/ ListNodes \/ SendJob \/ Fail \/ Restart
  BY <1>2 DEF CheckDependency, ListNodes, SendJob, Fail, Restart, Loop, EndPass
<1>3. CASE UNCHANGED creating
  BY <1>3
<1>4. \/ \E m \in Names : Create(m) \/ Delete(m) \/ Finish(m) \/ StartPass(m)
      \/ DeleteJob \/ CollectJob \/ EndJob \/ ChangeNode \/ DeliverMaintenance \/ DeliverJob
      \/ UNCHANGED vars
      => UNCHANGED creating
  BY DEF Create, Delete, Finish, StartPass, DeleteJob, CollectJob, JobGoes, EndJob, ChangeNode,
         DeliverMaintenance, DeliverJob, vars
<1>. QED BY <1>1, <1>2, <1>3, <1>4 DEF Next, Step

\* All jobs stay placed, and new ones are.
LEMMA NamesStep ==
    ASSUME Typed, CacheRight, NamesRight, [Next]_vars
    PROVE  NamesRight'
<1>1. ASSUME NEW job \in jobs'
      PROVE  Placed(job)'
  <2>1. CASE job \in jobs
    BY <2>1, PlacedStays DEF NamesRight
  <2>2. CASE JobComes /\ job = Created
    <3>1. PICK k : k = creating[1]
      OBVIOUS
    <3>2. /\ job.name = k.name /\ job.m = k.m /\ job.node = k.node /\ job.machine = k.machine
          /\ DOMAIN creating = {1}
      BY <2>2, <3>1, CreatedFacts DEF JobComes, Typed, PassTyped
    <3>3. Placed(k)
      BY <3>1, <3>2 DEF NamesRight
    <3>. QED BY <3>2, <3>3, PlacedAlike, PlacedStays
  <2>3. ASSUME NEW k \in jobs, NEW e \in Job, JobEnds(k, e), job = e
        PROVE  Placed(job)'
    <3>1. job.name = k.name /\ job.m = k.m /\ job.node = k.node /\ job.machine = k.machine
      BY <2>3 DEF JobEnds
    <3>2. Placed(k)
      BY DEF NamesRight
    <3>. QED BY <3>1, <3>2, PlacedAlike, PlacedStays
  <2>4. \/ job \in jobs
        \/ JobComes /\ job = Created
        \/ \E k \in jobs, e \in Job : JobEnds(k, e) /\ job = e
    BY JobsGoOn DEF JobsStay, JobLeaves, JobEnds, JobComes
  <2>. QED BY <2>1, <2>2, <2>3, <2>4
<1>2. ASSUME NEW i \in DOMAIN creating', NEW job, job = creating'[i]
      PROVE  Placed(job)'
  <2>1. CASE creating' = creating
    BY <1>2, <2>1, PlacedStays DEF NamesRight
  <2>2. CASE creating' = Nil
    BY <2>2 DEF Nil
  <2>3. ASSUME NEW t \in todo, pc = "create", ~HasJob(pass.m, t), creating' = <<NewJob(t)>>
        PROVE  Placed(job)'
    <3>1. job = NewJob(t)
      BY <1>2, <2>3
    <3>2. Placed(NewJob(t))
      BY <2>3, NameIsPlaced
    <3>3. Placed(job)
      BY <3>1, <3>2
    <3>. QED BY <3>3, PlacedStays
  <2>. QED BY <2>1, <2>2, <2>3, CallsGoOn
<1>3. \A job \in jobs' \cup {creating'[i] : i \in DOMAIN creating'} : Placed(job)'
  BY <1>1, <1>2
<1>. QED BY <1>3 DEF NamesRight

-----------------------------------------------------------------------------
(* How dependencies are checked. *)

\* What a pass knows stays, as long as it goes on, except that another dependency may
\* have been checked.
LEMMA PassGrows ==
    ASSUME Typed, [Next]_vars, pc # "idle", pc' # "idle"
    PROVE  \/ pass' = pass
           \/ /\ pc = "depends" /\ pc' = "depends"
              /\ UNCHANGED <<api, jobs, jobSeen, todo, creating>>
              /\ \E d \in pass.left :
                    /\ Checked(d, pass') /\ seen[d.on].live
                    /\ d.individual \/ (seen[d.on].finished /\ Unmet(jobSeen, d) = {})
<1>. USE DEF objects, scheduler, bounds
<1>1. CASE CheckDependency
  <2>1. ~EndPass /\ pc = "depends"
    BY <1>1 DEF EndPass, CheckDependency
  <2>. QED BY <1>1, <2>1 DEF CheckDependency, Checked
<1>2. CASE ListNodes \/ PickName \/ SendJob
  BY <1>2 DEF ListNodes, PickName, SendJob, Loop, EndPass
<1>3. CASE Fail \/ Restart
  BY <1>3 DEF Fail, Restart, EndPass
<1>4. CASE UNCHANGED pass
  BY <1>4
<1>5. \/ \E m \in Names : Create(m) \/ Delete(m) \/ Finish(m)
      \/ DeleteJob \/ CollectJob \/ EndJob \/ ChangeNode \/ DeliverMaintenance \/ DeliverJob
      \/ UNCHANGED vars
      => UNCHANGED pass
  BY DEF Create, Delete, Finish, DeleteJob, CollectJob, JobGoes, EndJob, ChangeNode,
         DeliverMaintenance, DeliverJob, vars
<1>6. ~\E m \in Names : StartPass(m)
  BY DEF StartPass
<1>. QED BY <1>1, <1>2, <1>3, <1>4, <1>5, <1>6 DEF Next, Step

\* A dependency that held goes on to hold: an incarnation that is finished stays so, jobs
\* that have ended stay as they are, and new jobs are of another object.
LEMMA HeldStays ==
    ASSUME Typed, [Next]_vars, pc # "idle",
           pass.unavailable \subseteq pass'.unavailable, pass.blind \subseteq pass'.blind,
           NEW d \in Dependency, d.on # pass.m, NEW uid \in Nat, uid <= api[d.on].uid,
           Held(d, uid)
    PROVE  Held(d, uid)'
<1>0. d.on \in Names
  BY DEF Dependency
<1>1. /\ api[d.on].uid \in Nat /\ api'[d.on].uid \in Nat /\ api[d.on].uid <= api'[d.on].uid
      /\ api'[d.on].uid = api[d.on].uid =>
           /\ api'[d.on].live => api[d.on].live
           /\ api[d.on].finished => api'[d.on].finished
  BY <1>0, ObjectsGoOn
<1>2. SUFFICES ASSUME api'[d.on].live, api'[d.on].uid = uid
               PROVE  /\ d.individual \/ api'[d.on].finished
                      /\ \A k \in Owned(jobs', d.on, uid) :
                            \/ d.individual /\ k.node \in pass'.unavailable
                            \/ Meets(k, d.condition)
                            \/ Id(k) \in pass'.blind
  BY DEF Held, Owned, Meets, Finished, Id
<1>3. api[d.on].uid = uid /\ api'[d.on].uid = api[d.on].uid /\ api[d.on].live
  BY <1>1, <1>2
<1>4. /\ d.individual \/ api[d.on].finished
      /\ \A k \in Owned(jobs, d.on, uid) :
            \/ d.individual /\ k.node \in pass.unavailable
            \/ Meets(k, d.condition)
            \/ Id(k) \in pass.blind
  BY <1>3 DEF Held
<1>5. ASSUME NEW k \in jobs', k.m = d.on, k.owner = uid
      PROVE  \/ d.individual /\ k.node \in pass'.unavailable
             \/ Meets(k, d.condition)
             \/ Id(k) \in pass'.blind
  <2>1. CASE k \in jobs
    BY <1>4, <1>5, <2>1 DEF Owned
  <2>2. CASE JobComes /\ k = Created
    BY <1>5, <2>2, CreatedFacts DEF JobComes
  <2>3. ASSUME NEW j \in jobs, NEW e \in Job, JobEnds(j, e), k = e
        PROVE  \/ d.individual /\ k.node \in pass'.unavailable
               \/ Id(k) \in pass'.blind
    <3>1. /\ j.m = d.on /\ j.owner = uid /\ j.outcome = "active" /\ k.node = j.node
          /\ Id(k) = Id(j)
      BY <1>5, <2>3 DEF JobEnds, Id
    <3>2. ~Meets(j, d.condition)
      BY <3>1 DEF Meets, Finished
    <3>. QED BY <1>4, <3>1, <3>2 DEF Owned
  <2>4. \/ k \in jobs
        \/ JobComes /\ k = Created
        \/ \E j \in jobs, e \in Job : JobEnds(j, e) /\ k = e
    BY JobsGoOn DEF JobsStay, JobLeaves, JobEnds, JobComes
  <2>. QED BY <2>1, <2>2, <2>3, <2>4
<1>. QED BY <1>1, <1>3, <1>4, <1>5 DEF Owned

\* A dependency that has just been checked holds: what the cache showed of the object and
\* its jobs is true of them, and jobs it did not show are remembered.
LEMMA CheckedHolds ==
    ASSUME Typed, Behind, CacheRight, UNCHANGED <<api, jobs>>,
           NEW d \in Dependency, Checked(d, pass'),
           d.individual \/ (seen[d.on].finished /\ Unmet(jobSeen, d) = {}),
           NEW uid, uid = seen[d.on].uid
    PROVE  Held(d, uid)'
<1>0. PICK p : p = pass' /\ Checked(d, p)
  OBVIOUS
<1>1. /\ p.unavailable = pass.unavailable \cup {j.node : j \in Unmet(jobSeen, d)}
      /\ p.blind = pass.blind \cup ({Id(j) : j \in Owned(jobs, d.on, seen[d.on].uid)} \
                                  {Id(j) : j \in Owned(jobSeen, d.on, seen[d.on].uid)})
  BY <1>0, CheckedFacts DEF Typed, PassTyped
<1>2. SUFFICES ASSUME api[d.on].live, api[d.on].uid = uid
               PROVE  /\ d.individual \/ api[d.on].finished
                      /\ \A k \in Owned(jobs, d.on, uid) :
                            \/ d.individual /\ k.node \in p.unavailable
                            \/ Meets(k, d.condition)
                            \/ Id(k) \in p.blind
  BY <1>0 DEF Held, Owned, Meets, Finished, Id
<1>3. d.individual \/ api[d.on].finished
  BY <1>2 DEF Behind, Dependency
<1>4. ASSUME NEW k \in Owned(jobs, d.on, uid), Id(k) \notin p.blind
      PROVE  (d.individual /\ k.node \in p.unavailable) \/ Meets(k, d.condition)
  <2>1. PICK x \in Owned(jobSeen, d.on, uid) : Id(x) = Id(k)
    BY <1>1, <1>4
  <2>2. ~OwnerGone(x)
    BY <1>2 DEF OwnerGone, Owned
  <2>3. Same(x, k)
    BY <2>1, <2>2 DEF CacheRight, Owned
  <2>4. CASE x \in Unmet(jobSeen, d)
    <3>1. d.individual /\ x.node \in p.unavailable
      BY <1>1, <2>4
    <3>. QED BY <2>3, <3>1 DEF Same
  <2>5. CASE x \notin Unmet(jobSeen, d)
    <3>1. Meets(x, d.condition)
      BY <2>5 DEF Unmet
    <3>. QED BY <2>3, <3>1 DEF Meets, Finished, Same
  <2>. QED BY <2>4, <2>5
<1>. QED BY <1>3, <1>4

\* Nodes that are not available do not get jobs: they are not listed.
LEMMA TasksGoOn ==
    ASSUME Typed, [Next]_vars, pc # "idle", pc' # "idle"
    PROVE  /\ \A t \in todo' : t \in todo \/ t.node \notin pass.unavailable
           /\ \/ creating' = Nil
              \/ creating' = creating
              \/ \E t \in todo : creating' # Nil /\ creating'[1].node = t.node
<1>. USE DEF objects, scheduler, bounds
<1>1. CASE ListNodes
  BY <1>1 DEF ListNodes, Loop, EndPass
<1>2. CASE PickName
  <2>1. PICK t \in todo : \/ Loop(todo \ {t}, Nil)
                          \/ Loop(todo \ {t}, <<NewJob(t)>>)
    BY <1>2 DEF PickName, NewJob
  <2>2. todo' = todo \ {t} /\ (creating' = Nil \/ creating' = <<NewJob(t)>>)
    BY <2>1 DEF Loop, EndPass
  <2>3. PICK j : j = NewJob(t)
    OBVIOUS
  <2>4. <<j>> # Nil /\ (<<j>>)[1] = j /\ j.node = t.node
    BY <2>3 DEF Nil, NewJob
  <2>. QED BY <2>2, <2>3, <2>4
<1>3. CASE SendJob
  BY <1>3 DEF SendJob, Loop, EndPass
<1>4. CASE CheckDependency \/ Fail \/ Restart
  BY <1>4 DEF CheckDependency, Fail, Restart, EndPass
<1>5. CASE UNCHANGED <<todo, creating>>
  BY <1>5
<1>6. \/ \E m \in Names : Create(m) \/ Delete(m) \/ Finish(m) \/ StartPass(m)
      \/ DeleteJob \/ CollectJob \/ EndJob \/ ChangeNode \/ DeliverMaintenance \/ DeliverJob
      \/ UNCHANGED vars
      => UNCHANGED <<todo, creating>>
  BY DEF Create, Delete, Finish, StartPass, DeleteJob, CollectJob, JobGoes, EndJob, ChangeNode,
         DeliverMaintenance, DeliverJob, vars
<1>. QED BY <1>1, <1>2, <1>3, <1>4, <1>5, <1>6 DEF Next, Step

\* What was checked in a pass goes on to hold until the pass ends.
LEMMA DependenciesStep ==
    ASSUME Typed, Behind, CacheRight, DependenciesRight, [Next]_vars
    PROVE  DependenciesRight'
<1>. USE DEF objects, scheduler, bounds
<1>1. SUFFICES ASSUME pc' # "idle"
               PROVE  DependenciesRight'
  BY DEF DependenciesRight
<1>2. ASSUME NEW m \in Names, StartPass(m)
      PROVE  DependenciesRight'
  <2>1. PICK u, left, p :
           /\ u = seen[m].uid /\ left = spec[m].depends /\ p = pass'
           /\ p = [NoPass(m) EXCEPT !.uid = u, !.left = left]
    BY <1>2 DEF StartPass
  <2>2. p.m = m /\ p.left = left /\ p.unavailable = {}
    BY <2>1 DEF NoPass
  <2>3. {d \in spec'[p.m].depends : d.on # p.m} \ p.left = {}
    BY <1>2, <2>1, <2>2 DEF StartPass
  <2>4. \A d \in {e \in spec'[pass'.m].depends : e.on # pass'.m} \ pass'.left : FALSE
    BY <2>1, <2>3
  <2>. QED BY <2>1, <2>2, <2>4 DEF DependenciesRight
<1>3. ASSUME pc # "idle", pass'.m = pass.m, UNCHANGED spec
      PROVE  DependenciesRight'
  <2>0. pass.m \in DOMAIN spec /\ spec[pass.m].depends \subseteq Dependency
    BY <1>3 DEF Typed, PassTyped, ScenarioTyped
  <2>1. CASE pass' = pass
    <3>1. ASSUME NEW d \in {e \in spec[pass.m].depends : e.on # pass.m} \ pass.left
          PROVE  \E uid \in Nat :
                    <<d, uid>> \in pass'.checked /\ uid <= api'[d.on].uid /\ Held(d, uid)'
      <4>1. PICK uid \in Nat :
               <<d, uid>> \in pass.checked /\ uid <= api[d.on].uid /\ Held(d, uid)
        BY <1>3 DEF DependenciesRight
      <4>2. d \in Dependency /\ d.on \in Names /\ d.on # pass.m
        BY <2>0 DEF Dependency
      <4>3. Held(d, uid)'
        BY <1>3, <2>1, <4>1, <4>2, HeldStays
      <4>4. uid <= api'[d.on].uid
        BY <4>1, <4>2, ObjectsGoOn
      <4>. QED BY <2>1, <4>1, <4>3, <4>4
    <3>2. ASSUME NEW n \in pass.unavailable
          PROVE  (\A t \in todo' : t.node # n) /\ (creating' # Nil => creating'[1].node # n)
      <4>1. (\A t \in todo : t.node # n) /\ (creating # Nil => creating[1].node # n)
        BY <1>3 DEF DependenciesRight
      <4>. QED BY <1>1, <1>3, <4>1, TasksGoOn
    <3>. QED BY <1>3, <2>1, <3>1, <3>2 DEF DependenciesRight
  <2>2. ASSUME NEW c \in pass.left, Checked(c, pass'), pc = "depends",
               UNCHANGED <<api, jobs, jobSeen, todo, creating>>,
               c.individual \/ (seen[c.on].finished /\ Unmet(jobSeen, c) = {})
        PROVE  DependenciesRight'
    <3>0. PICK p : p = pass' /\ Checked(c, p)
      BY <2>2
    <3>1. /\ p.left = pass.left \ {c}
          /\ p.checked = pass.checked \cup {<<c, seen[c.on].uid>>}
          /\ pass.unavailable \subseteq p.unavailable /\ pass.blind \subseteq p.blind
      BY <3>0, CheckedFacts DEF Typed, PassTyped
    <3>2. ASSUME NEW d \in {e \in spec[pass.m].depends : e.on # pass.m} \ p.left
          PROVE  \E uid \in Nat :
                    <<d, uid>> \in p.checked /\ uid <= api[d.on].uid /\ Held(d, uid)'
      <4>0. d \in Dependency /\ d.on \in Names /\ d.on # pass.m
        BY <2>0 DEF Dependency
      <4>1. CASE d \in pass.left
        <5>1. d = c
          BY <3>1, <4>1
        <5>2. PICK uid \in Nat : uid = seen[d.on].uid /\ uid <= api[d.on].uid
          BY <4>0 DEF Typed, ObjectsTyped, Maintenance, Behind
        <5>3. Held(d, uid)'
          BY <2>2, <4>0, <5>1, <5>2, CheckedHolds
        <5>. QED BY <3>1, <5>1, <5>2, <5>3
      <4>2. CASE d \notin pass.left
        <5>1. PICK uid \in Nat :
                 <<d, uid>> \in pass.checked /\ uid <= api[d.on].uid /\ Held(d, uid)
          BY <1>3, <4>2 DEF DependenciesRight
        <5>2. Held(d, uid)'
          BY <1>3, <3>0, <3>1, <4>0, <5>1, HeldStays
        <5>. QED BY <3>1, <5>1, <5>2
      <4>. QED BY <4>1, <4>2
    <3>3. creating' = Nil /\ todo' = {}
      BY <2>2 DEF Typed, PassTyped
    <3>. QED BY <1>3, <2>2, <3>0, <3>2, <3>3 DEF DependenciesRight
  <2>. QED BY <1>1, <1>3, <2>1, <2>2, PassGrows
<1>. QED BY <1>1, <1>2, <1>3, PassGoesOn, ChangesGoOn

-----------------------------------------------------------------------------
(* The invariant. *)

\* Nothing has been created at first.
LEMMA InitInv ==
    ASSUME Init
    PROVE  Inv
<1>1. PICK s \in Scenarios :
         /\ spec = s.spec /\ changes = s.changes /\ errors = s.errors /\ crashes = s.crashes
         /\ \E f \in s.machines :
               nodes = [n \in Nodes |-> [machine |-> f[n], tainted |-> FALSE]]
  BY DEF Init
<1>2. ScenarioTyped
  BY <1>1, ScenariosAssumption DEF ScenarioTyped
<1>3. ObjectsTyped
  <2>1. \A m \in Names :
           [uid |-> 1, live |-> m \in DOMAIN spec, finished |-> FALSE] \in Maintenance
    BY DEF Maintenance
  <2>. QED BY <2>1 DEF Init, ObjectsTyped
<1>4. JobsTyped
  <2>1. PICK f \in s.machines : nodes = [n \in Nodes |-> [machine |-> f[n], tainted |-> FALSE]]
    BY <1>1
  <2>2. f \in [Nodes -> 1..MaxMachines]
    BY <1>1, <2>1, ScenariosAssumption
  <2>3. \A n \in Nodes :
           [machine |-> f[n], tainted |-> FALSE] \in [machine : 0..MaxMachines, tainted : BOOLEAN]
    BY <2>2, MachinesAssumption
  <2>4. nodes \in [Nodes -> [machine : 0..MaxMachines, tainted : BOOLEAN]]
    BY <2>1, <2>3
  <2>5. IsFiniteSet({})
    BY FS_EmptySet
  <2>. QED BY <2>4, <2>5 DEF Init, JobsTyped, JobSet
<1>5. PassTyped
  <2>1. Nil \in Seq(Job)
    BY DEF Nil
  <2>. QED BY <2>1, EndedPassFacts DEF Init, PassTyped
<1>6. Behind
  <2>1. ASSUME NEW m \in Names
        PROVE  /\ seen[m].uid <= api[m].uid
               /\ seen[m].uid = api[m].uid /\ seen[m].finished => api[m].finished
               /\ api[m].live \/ seen[m].live => m \in DOMAIN spec
    <3>1. /\ api[m] = [uid |-> 1, live |-> m \in DOMAIN spec, finished |-> FALSE]
          /\ seen[m] = api[m]
      BY DEF Init
    <3>2. api[m].uid = 1 /\ api[m].live = (m \in DOMAIN spec) /\ seen[m].live = api[m].live
      BY <3>1
    <3>3. api[m].live => m \in DOMAIN spec
      BY <3>2, Zenon
    <3>4. seen[m].live => m \in DOMAIN spec
      BY <3>2, Zenon
    <3>5. seen[m].uid <= api[m].uid /\ (seen[m].finished => api[m].finished)
      BY <3>1, <3>2
    <3>. QED BY <3>3, <3>4, <3>5, Zenon
  <2>. QED BY <2>1 DEF Init, Behind
<1>7. CacheRight /\ DependenciesRight
  BY DEF Init, CacheRight, DependenciesRight
<1>8. NamesRight
  BY DEF Init, NamesRight, Nil
<1>. QED BY <1>2, <1>3, <1>4, <1>5, <1>6, <1>7, <1>8 DEF Inv, Typed

\* The invariant is inductive.
LEMMA InvStep ==
    ASSUME Inv, [Next]_vars
    PROVE  Inv'
<1>1. Typed /\ Behind /\ CacheRight /\ NamesRight /\ DependenciesRight
  BY DEF Inv
<1>. QED BY <1>1, TypedStep, BehindStep, CacheStep, NamesStep, DependenciesStep DEF Inv

\* It holds throughout.
THEOREM Invariance == Spec => []Inv
<1>1. Init => Inv
  BY InitInv
<1>2. Inv /\ [Next]_vars => Inv'
  BY InvStep
<1>. QED BY <1>1, <1>2, PTL DEF Spec

\* All variables keep their types, and no name is given twice: the API server and its
\* cache know jobs by their names.
THEOREM TypeCorrect == Spec => []TypeOK
<1>1. Inv => TypeOK
  BY DEF Inv, Typed, ObjectsTyped, JobsTyped, JobSet, PassTyped, Maintenance, Task, TypeOK
<1>. QED BY <1>1, Invariance, PTL

\* The number of a candidate that was taken is no higher than the jobs there are and were.
LEMMA CandidateBounded ==
    ASSUME Typed, NEW job \in jobs, NEW a \in Nat \ {0},
           job.name = JobName(job.m, job.node, a), \A i \in 1..a - 1 : Passed(job, i)
    PROVE  a <= Cardinality(jobs) + Cardinality(freed)
<1>1. IsFiniteSet(jobs) /\ IsFiniteSet(freed) /\ job.node \in Nodes
  BY DEF Typed, JobsTyped, JobSet, Job
<1>2. PICK S : S = {j.name : j \in jobs}
  OBVIOUS
<1>3. IsFiniteSet(S) /\ Cardinality(S) <= Cardinality(jobs)
  BY <1>1, <1>2, NamesCounted
<1>4. /\ IsFiniteSet(S \cup freed)
      /\ Cardinality(S \cup freed) <= Cardinality(S) + Cardinality(freed)
  <2>1. /\ IsFiniteSet(S \cup freed)
        /\ Cardinality(S \cup freed) =
             Cardinality(S) + Cardinality(freed) - Cardinality(S \cap freed)
    BY <1>1, <1>3, FS_Union
  <2>2. IsFiniteSet(S \cap freed)
    BY <1>1, FS_Intersection
  <2>3. Cardinality(S) \in Nat /\ Cardinality(freed) \in Nat /\ Cardinality(S \cap freed) \in Nat
    BY <1>1, <1>3, <2>2, FS_CardinalityType
  <2>. QED BY <2>1, <2>3
<1>5. ASSUME NEW i \in 1..a
      PROVE  JobName(job.m, job.node, i) \in S \cup freed
  <2>1. CASE i = a
    BY <1>2, <2>1
  <2>2. CASE i \in 1..a - 1
    BY <1>2, <2>2 DEF Passed
  <2>. QED BY <2>1, <2>2
<1>6. a <= Cardinality(S \cup freed)
  BY <1>1, <1>4, <1>5, CandidatesCounted
<1>7. /\ Cardinality(S) \in Nat /\ Cardinality(freed) \in Nat /\ Cardinality(jobs) \in Nat
      /\ Cardinality(S \cup freed) \in Nat
  BY <1>1, <1>3, <1>4, FS_CardinalityType
<1>. QED BY <1>3, <1>4, <1>6, <1>7

\* Where two jobs of one object are for the same machine and node, the one with the later
\* candidate passed over the name of the other: that must have been free since.
LEMMA EarlierNameFreed ==
    ASSUME Typed, NEW j \in jobs, NEW k \in jobs, j.m = k.m, j.machine = k.machine,
           j.node = k.node,
           NEW a \in Nat \ {0}, j.name = JobName(j.m, j.node, a),
           \A i \in 1..a - 1 : Passed(j, i),
           NEW b, \A i \in 1..b - 1 : Passed(k, i), a \in 1..b - 1
    PROVE  Candidates(j.m, j.node) \cap freed # {}
<1>1. Passed(k, a)
  OBVIOUS
<1>2. \A x \in jobs : x.name = j.name => x = j
  BY DEF Typed, JobsTyped, JobSet
<1>3. JobName(j.m, j.node, a) \in freed
  BY <1>1, <1>2 DEF Passed
<1>4. a <= Cardinality(jobs) + Cardinality(freed)
  BY CandidateBounded
<1>5. Cardinality(jobs) + Cardinality(freed) \in Nat
  <2>1. Cardinality(jobs) \in Nat /\ Cardinality(freed) \in Nat
    BY FS_CardinalityType DEF Typed, JobsTyped, JobSet
  <2>. QED BY <2>1
<1>6. JobName(j.m, j.node, a) \in Candidates(j.m, j.node)
  BY <1>4, <1>5 DEF Candidates
<1>. QED BY <1>3, <1>6

\* "Has same machineID, same machine, do not create again": two jobs of one Maintenance are
\* for the same machine only if two nodes reported it or a job with a name of its node was
\* deleted, whatever the cache has missed.
THEOREM NoSecondJob == Spec => []OneJobPerNodeMachine
<1>1. Inv => OneJobPerNodeMachine
  <2>1. SUFFICES ASSUME Inv, NEW j \in jobs, NEW k \in jobs,
                        j.m = k.m, j.machine = k.machine, j.node = k.node, j # k
                 PROVE  Candidates(j.m, j.node) \cap freed # {}
    BY DEF OneJobPerNodeMachine
  <2>2. Typed /\ Placed(j) /\ Placed(k)
    BY <2>1 DEF Inv, NamesRight
  <2>3. PICK a \in Nat \ {0} :
           j.name = JobName(j.m, j.node, a) /\ \A i \in 1..a - 1 : Passed(j, i)
    BY <2>2 DEF Placed
  <2>4. PICK b \in Nat \ {0} :
           k.name = JobName(k.m, k.node, b) /\ \A i \in 1..b - 1 : Passed(k, i)
    BY <2>2 DEF Placed
  <2>5. j.node = k.node /\ Candidates(j.m, j.node) = Candidates(k.m, k.node)
    BY <2>1
  <2>6. a # b
    BY <2>1, <2>2, <2>3, <2>4, <2>5 DEF Typed, JobsTyped, JobSet
  <2>7. CASE a < b
    <3>1. a \in 1..b - 1
      BY <2>7
    <3>. QED BY <2>1, <2>2, <2>3, <2>4, <3>1, EarlierNameFreed
  <2>8. CASE b < a
    <3>1. b \in 1..a - 1
      BY <2>8
    <3>2. Candidates(k.m, k.node) \cap freed # {}
      BY <2>1, <2>2, <2>3, <2>4, <3>1, EarlierNameFreed
    <3>. QED BY <2>5, <3>2
  <2>. QED BY <2>6, <2>7, <2>8
<1>. QED BY <1>1, Invariance, PTL

\* A MaintenanceJob is created only after what its Maintenance depends on, as far as the
\* caches had heard of it when it was checked.
THEOREM CreatedAfterDependencies == Spec => DependenciesMet
<1>1. Inv => [creating # Nil /\ Created \in jobs' \ jobs =>
                \A d \in {e \in spec[pass.m].depends : e.on # pass.m} :
                    \E uid \in {c[2] : c \in {e \in pass.checked : e[1] = d}} :
                        api[d.on].live /\ api[d.on].uid = uid =>
                        /\ d.individual \/ api[d.on].finished
                        /\ \A k \in Owned(jobs, d.on, uid) :
                              \/ d.individual /\ k.node # creating[1].node
                              \/ Meets(k, d.condition)
                              \/ Id(k) \in pass.blind]_vars
  <2>1. SUFFICES ASSUME Inv, creating # Nil,
                        NEW d \in {e \in spec[pass.m].depends : e.on # pass.m}
                 PROVE  \E uid \in {c[2] : c \in {e \in pass.checked : e[1] = d}} :
                            api[d.on].live /\ api[d.on].uid = uid =>
                            /\ d.individual \/ api[d.on].finished
                            /\ \A k \in Owned(jobs, d.on, uid) :
                                  \/ d.individual /\ k.node # creating[1].node
                                  \/ Meets(k, d.condition)
                                  \/ Id(k) \in pass.blind
    OBVIOUS
  <2>2. pc # "idle" /\ pass.left = {}
    BY <2>1 DEF Inv, Typed, PassTyped
  <2>3. PICK uid \in Nat : <<d, uid>> \in pass.checked /\ Held(d, uid)
    BY <2>1, <2>2 DEF Inv, DependenciesRight
  <2>4. uid \in {c[2] : c \in {e \in pass.checked : e[1] = d}}
    <3>1. (<<d, uid>>)[1] = d /\ (<<d, uid>>)[2] = uid
      OBVIOUS
    <3>. QED BY <2>3, <3>1
  <2>5. \A n \in pass.unavailable : creating[1].node # n
    BY <2>1, <2>2 DEF Inv, DependenciesRight
  <2>. QED BY <2>3, <2>4, <2>5 DEF Held
<1>. QED BY <1>1, Invariance, PTL DEF DependenciesMet
=============================================================================
