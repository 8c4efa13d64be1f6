------------------------- MODULE MaintenanceJobProofs ------------------------
(***************************************************************************)
(* The safety of a MaintenanceJob, for any stage lists, poll interval and  *)
(* bounds: whatever goroutines, restarts and lost answers do to its        *)
(* versions, results come in turn, stay, and are what the outcome says.    *)
(***************************************************************************)
EXTENDS MaintenanceJob, JobQueueProofs

-----------------------------------------------------------------------------
(* The inductive invariant. *)

HasResult(s) == s.succeeded \/ s.failed

\* A stage that has begun did so at a time of the clock, and only a result has an end.
StageRight(s) ==
    /\ HasResult(s) => ~s.running /\ s.scheduledAt <= s.finishedAt /\ s.finishedAt <= now
    /\ ~Idle(s) => s.scheduledAt # 0 /\ s.scheduledAt <= now
    /\ ~HasResult(s) => s.finishedAt = 0
    /\ ~(s.succeeded /\ s.failed)

\* A stage asks for something.
Asks(h, k) == h.spec[k].kind # "none"

\* Stages begin in turn, and have results in turn, but for those that ask for nothing,
\* which never begin.
InTurn(h) ==
    \A i \in DOMAIN h.stages :
        /\ Idle(h.stages[i]) \/ Asks(h, i)
        /\ \A k \in 1..i - 1 :
              Asks(h, k) =>
                  /\ HasResult(h.stages[i]) => h.stages[k].succeeded
                  /\ ~Idle(h.stages[i]) => ~Idle(h.stages[k])

\* OutcomeOfStages, of one version; success has the time of a stage, too.
OutcomeRight(h) ==
    /\ h.succeededAt # 0 =>
         /\ Complete(h) /\ h.stages # << >> /\ LastStage(h).succeeded
         /\ \A i \in DOMAIN h.stages : Asks(h, i) => h.stages[i].succeeded
         /\ \E i \in DOMAIN h.stages : h.stages[i].finishedAt = h.succeededAt
    /\ h.failedAt # 0 => \E i \in DOMAIN h.stages :
          h.stages[i].failed /\ h.stages[i].finishedAt = h.failedAt

\* A status has no stages, or all of them.
Listed(h) == h.stages # << >> => Complete(h)

\* What is true of a version by itself.
Sound(h) ==
    /\ h \in Object /\ Len(h.stages) <= Len(h.spec) /\ Listed(h)
    /\ \A i \in DOMAIN h.stages :
          /\ StageRight(h.stages[i])
          /\ h.stages[i].succeeded => h.spec[i].nodes \subseteq tainted
    /\ InTurn(h) /\ OutcomeRight(h)

\* A stage that has a result keeps it, and one that has begun goes on.
Goes(s, t) ==
    /\ HasResult(s) => t = s
    /\ ~Idle(s) => ~Idle(t) /\ t.scheduledAt = s.scheduledAt

\* The stages of h are those of g, if not more, gone on; an outcome of g is kept.
Keeps(g, h) ==
    /\ \A i \in DOMAIN g.stages : i \in DOMAIN h.stages /\ Goes(g.stages[i], h.stages[i])
    /\ g.succeededAt # 0 => h.succeededAt # 0
    /\ g.failedAt # 0 => h.failedAt = g.failedAt

\* No version is newer than the stored one, and one an update would be accepted with
\* is of the same incarnation and keeps its results.
Behind(h) ==
    /\ h.rv <= api.rv
    /\ h.rv = api.rv => h.uid = api.uid /\ h.spec = api.spec /\ Keeps(api, h)

Known == Versions \cup {Nothing}
VersionsRight == \A h \in Known : Sound(h) /\ Behind(h)

\* Before stage n of h every stage that asks for something has begun; all of these have
\* succeeded, or none from n on has begun.
UpTo(h, n) ==
    /\ \A k \in 1..n - 1 : k \in DOMAIN h.stages /\ (Asks(h, k) => ~Idle(h.stages[k]))
    /\ \/ \A k \in 1..n - 1 : Asks(h, k) => h.stages[k].succeeded
       \/ \A k \in DOMAIN h.stages : k >= n => Idle(h.stages[k])

\* Where the pass is; a drain has left no node behind that lacks the taint.
PassRight ==
    /\ pc \in {"drain", "sendOn"} => at \in DOMAIN copy.stages
    /\ pc = "drain" => /\ copy.stages[at].running /\ Asks(copy, at)
                       /\ copy.spec[at].nodes \ todo \subseteq tainted
    /\ pc \in {"stage", "drain"} => UpTo(copy, at)
    /\ pc = "sendOn" => UpTo(copy, at + 1)

\* The types of all that is not a version; the clock does not start at the time that
\* stands for none.
ControlTyped ==
    /\ now \in Nat \ {0}
    /\ cached \in BOOLEAN /\ shared \in BOOLEAN /\ notice \subseteq JobActions
    /\ jobQ \in Seq(JobsOn({MtJob})) /\ delayed \subseteq JobActions
    /\ tq \in Seq(Nat) /\ ready \in Nat
    /\ wpc \in WorkerPCs /\ action \in JobActions \cup {"None"}
    /\ wpc = "retry" => action \in JobActions
    /\ pc \in SchedPCs /\ at \in Nat \ {0} /\ todo \subseteq Nodes
    /\ kjobs \in [Positions -> [uid : Nat, state : JobStates, created : Nat]]
    /\ events \subseteq Positions /\ tainted \subseteq Nodes
    /\ userOps \in Nat /\ errors \in Nat /\ lost \in Nat /\ crashes \in Nat

Inv == ControlTyped /\ VersionsRight /\ PassRight

-----------------------------------------------------------------------------
(* Stages and versions, and what the code makes of them. *)

\* The fields of a version have their types.
LEMMA ObjectTyped ==
    ASSUME NEW h \in Object
    PROVE  /\ h.rv \in Nat /\ h.uid \in Nat /\ h.created \in Nat /\ h.gone \in BOOLEAN
           /\ h.spec \in Specs \cup {<< >>} /\ h.spec \in Seq(Stage)
           /\ h.stages \in Seq(StageStatus) /\ h.succeededAt \in Nat /\ h.failedAt \in Nat
           /\ DOMAIN h.stages = 1..Len(h.stages) /\ Len(h.stages) \in Nat
           /\ DOMAIN h.spec = 1..Len(h.spec) /\ Len(h.spec) \in Nat
           /\ \A i \in DOMAIN h.stages : h.stages[i] \in StageStatus
<1>1. << >> \in Seq(Stage)
  OBVIOUS
<1>2. h.spec \in Seq(Stage)
  BY <1>1, SpecsAssumption DEF Object
<1>3. h.stages \in Seq(StageStatus)
  BY DEF Object
<1>. QED BY <1>2, <1>3 DEF Object

\* The fields of the status of a stage have their types.
LEMMA StageTyped ==
    ASSUME NEW s \in StageStatus
    PROVE  /\ s.scheduledAt \in Nat /\ s.finishedAt \in Nat /\ s.running \in BOOLEAN
           /\ s.succeeded \in BOOLEAN /\ s.failed \in BOOLEAN
BY DEF StageStatus

\* A new stage.
LEMMA NewStageFacts ==
    /\ NewStage \in StageStatus /\ Idle(NewStage) /\ ~HasResult(NewStage)
    /\ ~NewStage.succeeded /\ StageRight(NewStage) /\ NewStage.finishedAt = 0
BY DEF NewStage, StageStatus, Idle, HasResult, StageRight

\* What a pass writes into a stage it begins.
LEMMA BegunFacts ==
    ASSUME NEW s \in StageStatus, StageRight(s), Idle(s), now \in Nat \ {0}
    PROVE  /\ Begun(s) \in StageStatus /\ StageRight(Begun(s)) /\ Goes(s, Begun(s))
           /\ ~Idle(Begun(s)) /\ ~HasResult(Begun(s)) /\ ~Begun(s).succeeded
<1> DEFINE b == Begun(s)
<1>1. /\ b \in StageStatus /\ b.scheduledAt = now /\ b.finishedAt = s.finishedAt
      /\ b.running = TRUE /\ b.succeeded = s.succeeded /\ b.failed = s.failed
  BY DEF Begun, StageStatus
<1> HIDE DEF b
<1>2. ~s.succeeded /\ ~s.failed /\ s.finishedAt = 0
  BY DEF Idle, StageRight, HasResult
<1>. QED BY <1>1, <1>2 DEF b, StageRight, Idle, HasResult, Goes

\* What a pass writes into a running stage that it ends.
LEMMA EndedFacts ==
    ASSUME NEW s \in StageStatus, StageRight(s), s.running, now \in Nat \ {0},
           NEW ok \in BOOLEAN
    PROVE  /\ Ended(s, ok) \in StageStatus /\ StageRight(Ended(s, ok)) /\ Goes(s, Ended(s, ok))
           /\ ~Idle(Ended(s, ok)) /\ HasResult(Ended(s, ok)) /\ Ended(s, ok).succeeded = ok
<1> DEFINE e == Ended(s, ok)
<1>1. /\ e \in StageStatus /\ e.scheduledAt = s.scheduledAt /\ e.finishedAt = now
      /\ e.running = FALSE /\ e.succeeded = ok /\ e.failed = ~ok
  BY DEF Ended, StageStatus
<1> HIDE DEF e
<1>2. s.scheduledAt # 0 /\ s.scheduledAt <= now
  BY DEF Idle, StageRight
<1>3. ~HasResult(s)
  BY Zenon DEF StageRight
<1>4. Goes(s, e)
  <2>1. ~Idle(e)
    <3>1. ok => e.succeeded
      BY <1>1
    <3>2. ~ok => e.failed
      BY <1>1
    <3>. QED BY Zenon, <3>1, <3>2 DEF Idle
  <2>. QED BY <1>1, <1>3, <2>1 DEF Goes
<1>5. HasResult(e) /\ ~Idle(e) /\ ~(e.succeeded /\ e.failed)
  BY <1>1 DEF HasResult, Idle
<1>6. StageRight(e)
  BY <1>1, <1>2, <1>5 DEF StageRight
<1>. QED BY <1>1, <1>4, <1>5, <1>6 DEF e

\* The version that stands for none.
LEMMA NothingFacts ==
    /\ Nothing \in Object /\ Nothing.rv = 0 /\ Nothing.uid = 0
    /\ Nothing.stages = << >> /\ Sound(Nothing)
<1>1. Nothing \in Object
  <2>1. << >> \in Seq(StageStatus)
    OBVIOUS
  <2>. QED BY <2>1 DEF Nothing, Object
<1>2. /\ Nothing.rv = 0 /\ Nothing.uid = 0 /\ Nothing.stages = << >> /\ Nothing.spec = << >>
      /\ Nothing.succeededAt = 0 /\ Nothing.failedAt = 0
  BY DEF Nothing
<1>3. DOMAIN Nothing.stages = {} /\ Len(Nothing.stages) <= Len(Nothing.spec)
  BY <1>2
<1>. QED BY <1>1, <1>2, <1>3 DEF Sound, InTurn, OutcomeRight, Listed

\* The API server gives every version it stores the next number.
LEMMA StoredFacts ==
    ASSUME NEW o \in Object, api \in Object
    PROVE  /\ Stored(o) \in Object /\ Stored(o).rv = api.rv + 1 /\ Stored(o).uid = o.uid
           /\ Stored(o).spec = o.spec /\ Stored(o).stages = o.stages
           /\ Stored(o).succeededAt = o.succeededAt /\ Stored(o).failedAt = o.failedAt
           /\ Stored(o).gone = o.gone
<1>1. PICK n \in Nat : n = api.rv + 1
  BY DEF Object
<1>2. Stored(o) = [o EXCEPT !.rv = n]
  BY <1>1 DEF Stored
<1>. QED BY <1>1, <1>2 DEF Object

\* UpdateStatus replaces the status.
LEMMA WithStatusFacts ==
    ASSUME NEW o \in Object, NEW h \in Object
    PROVE  /\ WithStatus(o, h) \in Object /\ WithStatus(o, h).uid = o.uid
           /\ WithStatus(o, h).spec = o.spec /\ WithStatus(o, h).stages = h.stages
           /\ WithStatus(o, h).succeededAt = h.succeededAt
           /\ WithStatus(o, h).failedAt = h.failedAt /\ WithStatus(o, h).gone = o.gone
BY DEF WithStatus, Object

\* Being sound is a matter of the incarnation, the spec and the status.
LEMMA SameStatusIsSound ==
    ASSUME NEW h, Sound(h), NEW g \in Object,
           g.uid = h.uid, g.spec = h.spec, g.stages = h.stages,
           g.succeededAt = h.succeededAt, g.failedAt = h.failedAt
    PROVE  Sound(g)
BY DEF Sound, InTurn, OutcomeRight, Complete, Listed, Asks, LastStage

\* A version stays sound while the clock goes on and nodes are tainted.
LEMMA SoundStays ==
    ASSUME NEW h, Sound(h), now \in Nat, now' \in {now, now + 1}, tainted \subseteq tainted'
    PROVE  Sound(h)'
<1>1. ASSUME NEW i \in DOMAIN h.stages
      PROVE  /\ StageRight(h.stages[i])'
             /\ h.stages[i].succeeded => h.spec[i].nodes \subseteq tainted'
  <2>1. /\ h.stages[i].scheduledAt \in Nat /\ h.stages[i].finishedAt \in Nat
        /\ StageRight(h.stages[i])
    BY ObjectTyped, StageTyped DEF Sound
  <2>2. /\ h.stages[i].scheduledAt <= now => h.stages[i].scheduledAt <= now'
        /\ h.stages[i].finishedAt <= now => h.stages[i].finishedAt <= now'
    BY <2>1
  <2>. QED BY <2>1, <2>2 DEF Sound, StageRight
<1>. QED BY <1>1 DEF Sound, InTurn, OutcomeRight, Listed, Complete, Asks, LastStage

\* A status of all stages: those there were, and new ones behind them.
LEMMA WithStagesFacts ==
    ASSUME NEW h, Sound(h)
    PROVE  /\ Sound(WithStages(h)) /\ WithStages(h).rv = h.rv /\ WithStages(h).uid = h.uid
           /\ WithStages(h).spec = h.spec /\ Keeps(h, WithStages(h))
<1> DEFINE g == WithStages(h)
           t(i) == IF i \in DOMAIN h.stages THEN h.stages[i] ELSE NewStage
<1>1. /\ h \in Object /\ Len(h.stages) <= Len(h.spec)
      /\ DOMAIN h.stages = 1..Len(h.stages) /\ DOMAIN h.spec = 1..Len(h.spec)
      /\ Len(h.stages) \in Nat /\ Len(h.spec) \in Nat
  BY ObjectTyped DEF Sound
<1>2. \A i \in 1..Len(h.spec) : t(i) \in StageStatus
  BY <1>1, ObjectTyped, NewStageFacts
<1>3. PICK f \in Seq(StageStatus) : f = [i \in 1..Len(h.spec) |-> t(i)]
  <2> HIDE DEF t
  <2>1. PICK n \in Nat : n = Len(h.spec)
    BY <1>1
  <2>2. \A i \in 1..n : t(i) \in StageStatus
    BY <1>2, <2>1
  <2>3. [i \in 1..n |-> t(i)] \in [1..n -> StageStatus]
    BY <2>2
  <2>4. [i \in 1..n |-> t(i)] \in Seq(StageStatus)
    BY <2>3
  <2>. QED BY <2>1, <2>4
<1>4. g = [h EXCEPT !.stages = f]
  BY <1>1, <1>3 DEF WithStages
<1>5. /\ g \in Object /\ g.rv = h.rv /\ g.uid = h.uid /\ g.spec = h.spec
      /\ g.succeededAt = h.succeededAt /\ g.failedAt = h.failedAt
      /\ DOMAIN g.stages = 1..Len(h.spec) /\ \A i \in 1..Len(h.spec) : g.stages[i] = t(i)
  <2>1. /\ g \in Object /\ g.rv = h.rv /\ g.uid = h.uid /\ g.spec = h.spec
        /\ g.succeededAt = h.succeededAt /\ g.failedAt = h.failedAt /\ g.stages = f
    BY <1>1, <1>4 DEF Object
  <2>2. DOMAIN f = 1..Len(h.spec) /\ \A i \in 1..Len(h.spec) : f[i] = t(i)
    <3> HIDE DEF t
    <3>. QED BY <1>3
  <2>. QED BY <2>1, <2>2
<1> HIDE DEF g
<1>6. Len(g.stages) = Len(h.spec)
  BY <1>1, <1>5, ObjectTyped
<1>7. \A i \in DOMAIN h.stages : i \in DOMAIN g.stages /\ g.stages[i] = h.stages[i]
  BY <1>1, <1>5
<1>8. \A i \in DOMAIN g.stages : i \notin DOMAIN h.stages => g.stages[i] = NewStage
  BY <1>5
<1>9. ASSUME NEW i \in DOMAIN g.stages
      PROVE  /\ StageRight(g.stages[i])
             /\ g.stages[i].succeeded => g.spec[i].nodes \subseteq tainted
  BY <1>5, <1>7, <1>8, NewStageFacts DEF Sound
<1>10. InTurn(g)
  <2>1. ASSUME NEW i \in DOMAIN g.stages, NEW k \in 1..i - 1
        PROVE  Asks(g, k) =>
                   /\ HasResult(g.stages[i]) => g.stages[k].succeeded
                   /\ ~Idle(g.stages[i]) => ~Idle(g.stages[k])
    <3>1. CASE i \in DOMAIN h.stages
      <4>1. k \in DOMAIN h.stages
        BY <1>1, <3>1
      <4>. QED BY <1>5, <1>7, <3>1, <4>1 DEF Sound, InTurn, Asks
    <3>2. CASE i \notin DOMAIN h.stages
      BY <1>8, <3>2, NewStageFacts
    <3>. QED BY <3>1, <3>2
  <2>2. \A i \in DOMAIN g.stages : Idle(g.stages[i]) \/ Asks(g, i)
    BY <1>5, <1>7, <1>8, NewStageFacts DEF Sound, InTurn, Asks
  <2>. QED BY <2>1, <2>2 DEF InTurn
<1>11. OutcomeRight(g)
  <2>1. ASSUME g.succeededAt # 0
        PROVE  /\ Complete(g) /\ g.stages # << >> /\ LastStage(g).succeeded
               /\ \A i \in DOMAIN g.stages : Asks(g, i) => g.stages[i].succeeded
               /\ \E i \in DOMAIN g.stages : g.stages[i].finishedAt = g.succeededAt
    <3>1. /\ Len(h.stages) = Len(h.spec) /\ h.stages[Len(h.stages)].succeeded
          /\ \A i \in DOMAIN h.stages : Asks(h, i) => h.stages[i].succeeded
          /\ \E i \in DOMAIN h.stages : h.stages[i].finishedAt = h.succeededAt
      BY <1>5, <2>1 DEF Sound, OutcomeRight, Complete, LastStage
    <3>2. DOMAIN g.stages = DOMAIN h.stages
      BY <1>1, <1>5, <3>1
    <3>3. Len(h.stages) \in DOMAIN h.stages /\ Len(g.stages) = Len(h.stages)
      BY <1>1, <1>6, <3>1
    <3>4. g.stages # << >> /\ LastStage(g).succeeded
      BY <1>7, <3>1, <3>2, <3>3 DEF LastStage
    <3>. QED BY <1>5, <1>6, <1>7, <3>1, <3>2, <3>4 DEF Complete, Asks
  <2>2. ASSUME g.failedAt # 0
        PROVE  \E i \in DOMAIN g.stages :
                   g.stages[i].failed /\ g.stages[i].finishedAt = g.failedAt
    <3>1. PICK i \in DOMAIN h.stages :
                   h.stages[i].failed /\ h.stages[i].finishedAt = h.failedAt
      BY <1>5, <2>2 DEF Sound, OutcomeRight
    <3>. QED BY <1>5, <1>7, <3>1
  <2>. QED BY <2>1, <2>2 DEF OutcomeRight
<1>12. Keeps(h, g)
  BY <1>5, <1>7 DEF Keeps, Goes
<1>13. Len(g.stages) <= Len(g.spec)
  BY <1>1, <1>5, <1>6
<1>14. Sound(g)
  BY <1>5, <1>6, <1>9, <1>10, <1>11, <1>13 DEF Sound, Listed, Complete
<1>. QED BY <1>5, <1>12, <1>14 DEF g

\* What a pass writes: one stage without a result, when those before it that ask for
\* something have begun, and have succeeded if it gets a result.
LEMMA SetStageFacts ==
    ASSUME NEW h, Sound(h)', NEW i \in DOMAIN h.stages, ~HasResult(h.stages[i]),
           NEW s \in StageStatus, StageRight(s)', ~Idle(s), Asks(h, i),
           s.succeeded => h.spec[i].nodes \subseteq tainted',
           Goes(h.stages[i], s),
           \A k \in 1..i - 1 : Asks(h, k) => ~Idle(h.stages[k]),
           HasResult(s) => \A k \in 1..i - 1 : Asks(h, k) => h.stages[k].succeeded,
           NEW g, g = SetStage(h, i, s)
    PROVE  /\ Sound(g)' /\ g.rv = h.rv /\ g.uid = h.uid /\ g.spec = h.spec /\ Keeps(h, g)
           /\ DOMAIN g.stages = DOMAIN h.stages /\ g.stages[i] = s
           /\ \A k \in DOMAIN h.stages \ {i} : g.stages[k] = h.stages[k]
<1>1. /\ h \in Object /\ Len(h.stages) <= Len(h.spec) /\ h.stages \in Seq(StageStatus)
      /\ DOMAIN h.stages = 1..Len(h.stages) /\ Len(h.stages) \in Nat /\ Len(h.spec) \in Nat
      /\ \A k \in DOMAIN h.stages : StageRight(h.stages[k])'
      /\ \A k \in DOMAIN h.stages : h.stages[k].succeeded => h.spec[k].nodes \subseteq tainted'
      /\ InTurn(h) /\ OutcomeRight(h) /\ Listed(h)
  BY ObjectTyped DEF Sound, InTurn, OutcomeRight, Listed, Complete, Asks, LastStage
<1>2. g = [h EXCEPT !.stages = [h.stages EXCEPT ![i] = s]]
  BY DEF SetStage
<1>3. [h.stages EXCEPT ![i] = s] \in Seq(StageStatus)
  BY <1>1
<1>4. /\ g \in Object /\ g.rv = h.rv /\ g.uid = h.uid /\ g.spec = h.spec
      /\ g.succeededAt = h.succeededAt /\ g.failedAt = h.failedAt
      /\ g.stages = [h.stages EXCEPT ![i] = s]
  BY <1>1, <1>2, <1>3 DEF Object
<1>5. /\ DOMAIN g.stages = DOMAIN h.stages /\ g.stages[i] = s
      /\ \A k \in DOMAIN h.stages \ {i} : g.stages[k] = h.stages[k]
  BY <1>4
<1>6. Len(g.stages) = Len(h.stages)
  BY <1>1, <1>4, <1>5, ObjectTyped
<1>7. h.stages[i].finishedAt = 0 /\ ~h.stages[i].succeeded /\ ~h.stages[i].failed
  BY <1>1 DEF StageRight, HasResult
<1>8. Keeps(h, g)
  <2>1. ASSUME NEW k \in DOMAIN h.stages
        PROVE  k \in DOMAIN g.stages /\ Goes(h.stages[k], g.stages[k])
    <3>1. CASE k = i
      BY <1>5, <3>1
    <3>2. CASE k # i
      BY <1>5, <3>2 DEF Goes
    <3>. QED BY <3>1, <3>2
  <2>. QED BY <1>4, <2>1 DEF Keeps
<1>9. ASSUME NEW j \in DOMAIN g.stages
      PROVE  /\ StageRight(g.stages[j])'
             /\ g.stages[j].succeeded => g.spec[j].nodes \subseteq tainted'
  <2>1. CASE j = i
    BY <1>4, <1>5, <2>1
  <2>2. CASE j # i
    BY <1>1, <1>4, <1>5, <2>2
  <2>. QED BY <2>1, <2>2
<1>10. InTurn(g)
  <2>1. ASSUME NEW j \in DOMAIN g.stages, NEW k \in 1..j - 1
        PROVE  Asks(g, k) =>
                   /\ HasResult(g.stages[j]) => g.stages[k].succeeded
                   /\ ~Idle(g.stages[j]) => ~Idle(g.stages[k])
    <3>0. Asks(g, k) = Asks(h, k)
      BY <1>4 DEF Asks
    <3>1. k \in DOMAIN h.stages /\ k # j
      BY <1>1, <1>5
    <3>2. CASE j = i
      <4>1. g.stages[k] = h.stages[k] /\ g.stages[j] = s
        BY <1>5, <3>1, <3>2
      <4>. QED BY <3>0, <3>2, <4>1
    <3>3. CASE j # i
      <4>1. g.stages[j] = h.stages[j]
        BY <1>5, <3>3
      <4>2. Asks(h, k) =>
                /\ HasResult(h.stages[j]) => h.stages[k].succeeded
                /\ ~Idle(h.stages[j]) => ~Idle(h.stages[k])
        BY <1>1, <1>5 DEF InTurn
      <4>3. CASE k = i
        BY <1>5, <1>7, <3>0, <4>1, <4>2, <4>3
      <4>4. CASE k # i
        BY <1>5, <3>0, <3>1, <4>1, <4>2, <4>4
      <4>. QED BY <4>3, <4>4
    <3>. QED BY <3>2, <3>3
  <2>2. \A j \in DOMAIN g.stages : Idle(g.stages[j]) \/ Asks(g, j)
    BY <1>1, <1>4, <1>5 DEF InTurn, Asks
  <2>. QED BY <2>1, <2>2 DEF InTurn
<1>11. OutcomeRight(g)
  <2>1. g.succeededAt = 0
    BY <1>1, <1>4, <1>7 DEF OutcomeRight
  <2>2. ASSUME g.failedAt # 0
        PROVE  \E j \in DOMAIN g.stages :
                   g.stages[j].failed /\ g.stages[j].finishedAt = g.failedAt
    <3>1. PICK j \in DOMAIN h.stages :
                   h.stages[j].failed /\ h.stages[j].finishedAt = h.failedAt
      BY <1>1, <1>4, <2>2 DEF OutcomeRight
    <3>2. g.stages[j] = h.stages[j]
      BY <1>5, <1>7, <3>1
    <3>. QED BY <1>4, <1>5, <3>1, <3>2
  <2>. QED BY <2>1, <2>2 DEF OutcomeRight
<1>12. Sound(g)'
  <2>1. Len(g.stages) <= Len(g.spec)
    BY <1>1, <1>4, <1>6
  <2>2. Listed(g)
    <3>1. h.stages # << >>
      OBVIOUS
    <3>. QED BY <1>1, <1>4, <1>6, <3>1 DEF Listed, Complete
  <2>. QED BY <1>4, <1>9, <1>10, <1>11, <2>1, <2>2
       DEF Sound, InTurn, OutcomeRight, Listed, Complete, Asks, LastStage
<1>. QED BY <1>4, <1>5, <1>8, <1>12

-----------------------------------------------------------------------------
(* What steps do to the versions. *)

\* Every known version has its type and its numbers.
LEMMA VersionsTyped ==
    ASSUME Inv, NEW h \in Known
    PROVE  h \in Object /\ Sound(h) /\ Behind(h) /\ h.rv \in Nat
BY ObjectTyped DEF Inv, VersionsRight, Sound

\* Versions are handed on, while the clock may go on and nodes may be tainted.
LEMMA Moves ==
    ASSUME Inv, api' = api, now' \in {now, now + 1}, tainted \subseteq tainted',
           Versions' \subseteq Known
    PROVE  VersionsRight'
<1>1. ASSUME NEW h \in Known
      PROVE  Sound(h)' /\ Behind(h)'
  <2>1. Sound(h) /\ Behind(h) /\ now \in Nat
    BY DEF Inv, VersionsRight, ControlTyped
  <2>2. Sound(h)'
    BY <2>1, SoundStays
  <2>3. Behind(h)'
    BY <2>1 DEF Behind
  <2>. QED BY <2>2, <2>3
<1>2. Known' \subseteq Known
  BY DEF Known
<1>. QED BY <1>1, <1>2 DEF VersionsRight

\* A new version is stored, and handed on.
LEMMA Stores ==
    ASSUME Inv, NEW o, Sound(o), o.rv = api.rv + 1, api' = o,
           UNCHANGED <<now, tainted>>, Versions' \subseteq Known \cup {o}
    PROVE  VersionsRight'
<1>1. ASSUME NEW h \in Known
      PROVE  Sound(h)' /\ Behind(h)'
  <2>1. Sound(h) /\ Behind(h) /\ h.rv \in Nat
    BY VersionsTyped
  <2>2. api.rv \in Nat
    BY VersionsTyped DEF Known, Versions
  <2>3. h.rv < o.rv
    BY <2>1, <2>2 DEF Behind
  <2>4. h.rv \in Nat /\ o.rv \in Nat
    BY <2>1, <2>2
  <2>5. Behind(h)'
    <3>1. h.rv <= o.rv /\ h.rv # o.rv
      BY <2>3, <2>4
    <3>. QED BY <3>1 DEF Behind
  <2>6. Sound(h)'
    BY <2>1 DEF Sound, StageRight
  <2>. QED BY <2>5, <2>6
<1>2. Sound(o)' /\ Behind(o)'
  <2>1. o.rv \in Nat
    BY ObjectTyped DEF Sound
  <2>. QED BY <2>1 DEF Sound, StageRight, Behind, Keeps, Goes
<1>3. Known' \subseteq Known \cup {o}
  BY DEF Known
<1>. QED BY <1>1, <1>2, <1>3 DEF VersionsRight

\* A new version that carries on a known one.
LEMMA Continues ==
    ASSUME Inv, NEW g \in Known, NEW h, Sound(h)',
           h.rv = g.rv, h.uid = g.uid, h.spec = g.spec, Keeps(g, h),
           UNCHANGED <<now, api>>, tainted \subseteq tainted', Versions' \subseteq Known \cup {h}
    PROVE  VersionsRight'
<1>1. ASSUME NEW f \in Known
      PROVE  Sound(f)' /\ Behind(f)'
  <2>1. Sound(f) /\ Behind(f) /\ now \in Nat
    BY DEF Inv, VersionsRight, ControlTyped
  <2>. QED BY <2>1, SoundStays DEF Behind
<1>2. Behind(h)'
  <2>1. Behind(g)
    BY VersionsTyped
  <2>2. Keeps(api, g) => Keeps(api, h)
    BY DEF Keeps, Goes
  <2>. QED BY <2>1, <2>2 DEF Behind
<1>3. Known' \subseteq Known \cup {h}
  BY DEF Known
<1>. QED BY <1>1, <1>2, <1>3 DEF VersionsRight

\* The pass writes into its version, which may be that of the store.
LEMMA Writes ==
    ASSUME Inv, NEW h, Sound(h)', h.rv = copy.rv, h.uid = copy.uid, h.spec = copy.spec,
           Keeps(copy, h), Write(h), UNCHANGED <<now, api, watch, wcopy>>,
           tainted \subseteq tainted'
    PROVE  VersionsRight'
<1>1. Versions' \subseteq Known \cup {h} /\ copy \in Known
  BY DEF Known, Versions, Write
<1>. QED BY <1>1, Continues

\* The answer of an UpdateStatus call that is accepted.
Answer(h) == Stored(WithStatus(api, h))

\* It is sound, keeps what was stored, and has the status that was sent.
LEMMA AnswerFacts ==
    ASSUME Inv, NEW h \in Known, api.rv = h.rv
    PROVE  /\ Sound(Answer(h)) /\ Answer(h).rv = api.rv + 1 /\ Answer(h).uid = api.uid
           /\ Answer(h).stages = h.stages /\ Keeps(api, h)
           /\ Answer(h).spec = api.spec /\ Answer(h).gone = api.gone
           /\ Answer(h).succeededAt = h.succeededAt /\ Answer(h).failedAt = h.failedAt
<1>1. /\ Sound(h) /\ h \in Object /\ h.uid = api.uid /\ h.spec = api.spec /\ Keeps(api, h)
      /\ api \in Object
  BY VersionsTyped DEF Behind, Known, Versions
<1>2. PICK o \in Object :
          /\ o = WithStatus(api, h) /\ o.uid = h.uid /\ o.spec = h.spec /\ o.stages = h.stages
          /\ o.succeededAt = h.succeededAt /\ o.failedAt = h.failedAt /\ o.gone = api.gone
  BY <1>1, WithStatusFacts
<1>3. /\ Stored(o) \in Object /\ Stored(o).rv = api.rv + 1 /\ Stored(o).uid = h.uid
      /\ Stored(o).spec = h.spec /\ Stored(o).stages = h.stages
      /\ Stored(o).succeededAt = h.succeededAt /\ Stored(o).failedAt = h.failedAt
      /\ Stored(o).gone = api.gone
  BY <1>1, <1>2, StoredFacts
<1>4. Sound(Stored(o))
  BY <1>1, <1>3, SameStatusIsSound
<1>. QED BY <1>1, <1>2, <1>3, <1>4 DEF Answer

\* An accepted UpdateStatus call.
LEMMA AppliedStep ==
    ASSUME Inv, NEW h \in Known, Applied(h), UNCHANGED <<now, tainted>>,
           {seen', copy', wcopy'} \subseteq Known \cup {Answer(h)}
    PROVE  VersionsRight'
<1>1. /\ api.rv = h.rv /\ api' = Answer(h) /\ watch' = watch \cup {Answer(h)}
  BY DEF Applied, Put, Answer
<1>2. Sound(Answer(h)) /\ Answer(h).rv = api.rv + 1
  BY <1>1, AnswerFacts
<1>3. Versions' \subseteq Known \cup {Answer(h)}
  BY <1>1 DEF Versions, Known
<1>. QED BY <1>1, <1>2, <1>3, Stores

\* An UpdateStatus call that fails, or of which the answer is lost.
LEMMA FailedCallStep ==
    ASSUME Inv, NEW h \in Known, CallFails(h), UNCHANGED <<now, tainted>>,
           {seen', copy', wcopy'} \subseteq Known
    PROVE  VersionsRight' /\ errors' \in Nat /\ lost' \in Nat
<1>1. errors \in Nat /\ lost \in Nat
  BY DEF Inv, ControlTyped
<1>2. CASE UNCHANGED <<api, watch>>
  <2>1. Versions' \subseteq Known
    BY <1>2 DEF Known, Versions
  <2>2. errors' \in Nat /\ lost' \in Nat
    BY <1>1 DEF CallFails
  <2>. QED BY <1>2, <2>1, <2>2, Moves
<1>3. CASE Applied(h) /\ lost' = lost + 1 /\ errors' = errors
  BY <1>1, <1>3, AppliedStep
<1>. QED BY <1>2, <1>3 DEF CallFails

-----------------------------------------------------------------------------
(* The invariant is inductive: one lemma for each of its parts. *)

\* Before anything is created, there is one version: the one that stands for none.
LEMMA InitInv == Init => Inv
<1> SUFFICES ASSUME Init
             PROVE  Inv
  OBVIOUS
<1>1. << >> \in Seq(JobsOn({MtJob})) /\ << >> \in Seq(Nat)
  OBVIOUS
<1>2. NoJob \in [uid : Nat, state : JobStates, created : Nat]
  BY DEF NoJob, JobStates
<1>3. ControlTyped
  <2>1. kjobs \in [Positions -> [uid : Nat, state : JobStates, created : Nat]]
    BY <1>2 DEF Init
  <2>2. jobQ \in Seq(JobsOn({MtJob})) /\ tq \in Seq(Nat)
    BY <1>1 DEF Init
  <2>3. now \in Nat \ {0} /\ at \in Nat \ {0} /\ ready \in Nat
    BY DEF Init
  <2>4. /\ cached \in BOOLEAN /\ shared \in BOOLEAN /\ delayed \subseteq JobActions
        /\ wpc \in WorkerPCs /\ action \in JobActions \cup {"None"}
        /\ wpc # "retry" /\ pc \in SchedPCs /\ notice \subseteq JobActions
    BY DEF Init, WorkerPCs, SchedPCs
  <2>5. /\ events \subseteq Positions /\ tainted \subseteq Nodes /\ todo \subseteq Nodes
        /\ userOps \in Nat /\ errors \in Nat /\ lost \in Nat /\ crashes \in Nat
    BY DEF Init
  <2>. QED BY <2>1, <2>2, <2>3, <2>4, <2>5 DEF ControlTyped
<1>4. Known = {Nothing}
  BY DEF Init, Known, Versions
<1>5. Behind(Nothing)
  BY NothingFacts DEF Init, Behind, Keeps
<1>6. VersionsRight
  BY <1>4, <1>5, NothingFacts DEF VersionsRight
<1>7. PassRight
  BY DEF Init, PassRight
<1>. QED BY <1>3, <1>6, <1>7 DEF Inv

\* Jobs of the object are jobs of its queue.
LEMMA JobTyped ==
    ASSUME NEW a \in JobActions
    PROVE  Job(a, MtJob) \in JobsOn({MtJob})
BY DEF Job, JobsOn

\* What the worker leaves in its queue.
LEMMA AcquireTyped ==
    ASSUME ControlTyped, NEW a, Acquire(a)
    PROVE  jobQ' \in Seq(JobsOn({MtJob}))
<1>1. jobQ \in Seq(JobsOn({MtJob})) /\ jobQ # << >> /\ jobQ' = Tail(jobQ)
  BY DEF ControlTyped, Acquire
<1>. QED BY <1>1, HeadTailProperties

\* Queues, clock, counters and program counters keep their types in every step.
LEMMA ControlStep ==
    ASSUME Inv, [Next]_vars
    PROVE  ControlTyped'
<1>. USE DEF rec, worker, sched, cluster, bounds, SchedPCs, WorkerPCs
<1>0. ControlTyped
  BY DEF Inv
<1>1. CASE Create \/ Delete \/ CollectGarbage
  <2>1. CASE Create \/ Delete
    <3>1. UserOp
      BY <2>1 DEF Create, Delete
    <3>. QED BY <1>0, <3>1 DEF UserOp, ControlTyped
  <2>2. CASE CollectGarbage
    BY <1>0, <2>2 DEF CollectGarbage, ControlTyped
  <2>. QED BY <1>1, <2>1, <2>2
<1>2. CASE Tick
  BY <1>0, <1>2 DEF Tick, ControlTyped
<1>3. ASSUME NEW i \in Positions, JobEnds(i) \/ CollectJob(i)
      PROVE  ControlTyped'
  <2>1. kjobs' \in [Positions -> [uid : Nat, state : JobStates, created : Nat]]
    <3>1. NoJob \in [uid : Nat, state : JobStates, created : Nat]
      BY DEF NoJob, JobStates
    <3>2. \A r \in {"complete", "failed"} :
              [kjobs[i] EXCEPT !.state = r] \in [uid : Nat, state : JobStates, created : Nat]
      BY <1>0 DEF ControlTyped, JobStates
    <3>3. CASE CollectJob(i)
      BY <1>0, <3>1, <3>3 DEF CollectJob, ControlTyped
    <3>4. CASE JobEnds(i)
      <4>1. PICK r \in {"complete", "failed"} : kjobs' = [kjobs EXCEPT ![i].state = r]
        BY <3>4 DEF JobEnds
      <4>. QED BY <1>0, <3>2, <4>1 DEF ControlTyped
    <3>. QED BY <1>3, <3>3, <3>4
  <2>. QED BY <1>0, <1>3, <2>1 DEF JobEnds, CollectJob, ControlTyped
<1>4. CASE Informer
  <2>1. ASSUME NEW h \in watch, notice' = {Event(h)}, shared' = FALSE, cached' = TRUE,
               UNCHANGED <<now, jobQ, delayed, tq, ready, worker, pc, at, todo, cluster, bounds>>
        PROVE  ControlTyped'
    <3>1. Event(h) \in JobActions
      BY DEF Event, JobActions
    <3>2. notice' \subseteq JobActions
      BY <2>1, <3>1
    <3>. QED BY <1>0, <2>1, <3>2 DEF ControlTyped
  <2>2. ASSUME NEW a \in notice, Announce(a)
        PROVE  ControlTyped'
    <3>1. a \in JobActions /\ jobQ \in Seq(JobsOn({MtJob}))
      BY <1>0 DEF ControlTyped
    <3>2. Without(jobQ, a, MtJob) \in Seq(JobsOn({MtJob}))
      BY <3>1, WithoutType
    <3>3. jobQ' \in Seq(JobsOn({MtJob}))
      BY <2>2, <3>1, <3>2, OfferType, JobTyped DEF Announce
    <3>. QED BY <1>0, <2>2, <3>3 DEF Announce, ControlTyped
  <2>. QED BY <1>4, <2>1, <2>2 DEF Informer, Deliver
<1>5. CASE Wake
  <2>1. tq' \in Seq(Nat)
    BY <1>0, <1>5, RemoveAtFacts DEF Wake, ControlTyped
  <2>. QED BY <1>0, <1>5, <2>1 DEF Wake, ControlTyped
<1>6. ASSUME NEW a \in delayed, FireDelayed(a)
      PROVE  ControlTyped'
  <2>1. jobQ' \in Seq(JobsOn({MtJob}))
    BY <1>0, <1>6, OfferType, JobTyped DEF FireDelayed, ControlTyped
  <2>. QED BY <1>0, <1>6, <2>1 DEF FireDelayed, ControlTyped
<1>7. ASSUME NEW a \in JobActions, HandleWithoutCache(a)
      PROVE  ControlTyped'
  <2>1. Acquire(a)
    BY <1>7 DEF HandleWithoutCache
  <2>2. jobQ' \in Seq(JobsOn({MtJob}))
    BY <1>0, <2>1, AcquireTyped
  <2>. QED BY <1>0, <1>7, <2>2 DEF HandleWithoutCache, Acquire, WorkerGoes, ControlTyped
<1>8. CASE OnMaintenanceJobAdded
  <2>1. Acquire("Add")
    BY <1>8 DEF OnMaintenanceJobAdded
  <2>2. jobQ' \in Seq(JobsOn({MtJob}))
    BY <1>0, <2>1, AcquireTyped
  <2>3. wpc' \in {"idle", "enqueue", "fill"} /\ action' \in {"Add", "None"} /\ cached' = cached
    BY <1>8 DEF OnMaintenanceJobAdded, WorkerGoes, WorkerRests
  <2>. QED BY <1>0, <2>1, <2>2, <2>3 DEF Acquire, ControlTyped, JobActions
<1>9. CASE OnMaintenanceJobUpdated
  <2>1. PICK a \in {"Update", "Delete"} : Acquire(a)
    BY <1>9 DEF OnMaintenanceJobUpdated
  <2>2. jobQ' \in Seq(JobsOn({MtJob}))
    BY <1>0, <2>1, AcquireTyped
  <2>. QED BY <1>0, <1>9, <2>1, <2>2
       DEF OnMaintenanceJobUpdated, Acquire, WorkerRests, WorkerGoes, ControlTyped
<1>10. CASE OnMaintenanceJobDeleted
  <2>1. Acquire("Cleanup")
    BY <1>10 DEF OnMaintenanceJobDeleted
  <2>2. jobQ' \in Seq(JobsOn({MtJob}))
    BY <1>0, <2>1, AcquireTyped
  <2>. QED BY <1>0, <1>10, <2>1, <2>2
       DEF OnMaintenanceJobDeleted, Acquire, WorkerGoes, ControlTyped, JobActions
<1>26. CASE FindPending
  <2>1. wpc' \in {"idle", "drop"} /\ action' \in {"None", "Cleanup"}
    BY <1>26 DEF FindPending, WorkerRests, WorkerGoes
  <2>. QED BY <1>0, <1>26, <2>1 DEF FindPending, ControlTyped, JobActions
<1>27. CASE DropCached
  BY <1>0, <1>27 DEF DropCached, WorkerRests, WorkerGoes, ControlTyped
<1>11. CASE SendStages
  <2>1. wcopy \in Known
    BY DEF Known, Versions
  <2>2. wpc' \in {"enqueue", "retry"} /\ action' = "Add"
    BY <1>11 DEF SendStages, WorkerGoes
  <2>3. errors' \in Nat /\ lost' \in Nat
    BY <1>0, <1>11 DEF SendStages, CallFails, ControlTyped
  <2>. QED BY <1>0, <1>11, <2>2, <2>3 DEF SendStages, ControlTyped, JobActions
<1>12. CASE EnqueueAdded
  <2>1. /\ wpc' \in {"idle", "retry"} /\ action' \in {"Add", "None"}
        /\ wpc' = "retry" => action' = "Add"
    BY <1>12 DEF EnqueueAdded, WorkerRests, WorkerGoes
  <2>2. tq' \in Seq(Nat)
    <3>1. tq \in Seq(Nat) /\ now \in Nat
      BY <1>0 DEF ControlTyped
    <3>2. tq' = tq \/ tq' = Append(tq, now)
      BY <1>12 DEF EnqueueAdded
    <3>. QED BY <3>1, <3>2
  <2>. QED BY <1>0, <1>12, <2>1, <2>2 DEF EnqueueAdded, ControlTyped, JobActions
<1>13. CASE Retry
  <2>1. action \in JobActions
    BY <1>0, <1>13 DEF Retry, ControlTyped
  <2>2. jobQ' \in Seq(JobsOn({MtJob})) /\ delayed' \subseteq JobActions
    <3>1. jobQ \in Seq(JobsOn({MtJob})) /\ delayed \subseteq JobActions
      BY <1>0 DEF ControlTyped
    <3>2. Offer(jobQ, Job(action, MtJob)) \in Seq(JobsOn({MtJob}))
      BY <2>1, <3>1, OfferType, JobTyped
    <3>. QED BY <1>13, <2>1, <3>1, <3>2 DEF Retry
  <2>. QED BY <1>0, <1>13, <2>2 DEF Retry, WorkerRests, WorkerGoes, ControlTyped
<1>14. CASE StartPass
  <2>1. ready \in Nat /\ at \in Nat \ {0} /\ shared \in BOOLEAN
    BY <1>0 DEF ControlTyped
  <2>2. ready' \in Nat
    BY <1>14, <2>1 DEF StartPass
  <2>3. pc' \in {"enqueue", "stage"} /\ (at' = at \/ at' = 1) /\ shared' \in {shared, TRUE}
    BY <1>14 DEF StartPass, SchedGoes
  <2>4. at' \in Nat \ {0}
    BY <2>1, <2>3
  <2>5. shared' \in BOOLEAN
    BY <2>1, <2>3
  <2>6. UNCHANGED <<now, cached, notice, jobQ, delayed, tq, wpc, action, kjobs, events, tainted,
                    todo, userOps, errors, lost, crashes>>
    BY <1>14 DEF StartPass, SchedGoes
  <2>. QED BY <1>0, <2>2, <2>3, <2>4, <2>5, <2>6 DEF ControlTyped
<1>15. CASE PassEnds \/ StartJob
  BY <1>0, <1>15 DEF PassEnds, StartJob, SchedGoes, ControlTyped
<1>16. CASE RecordFailed \/ RecordSucceeded \/ TimeOut \/ Begin
  BY <1>0, <1>16 DEF RecordFailed, RecordSucceeded, TimeOut, Begin, Write, ControlTyped
<1>17. CASE SkipStage \/ PassOver
  BY <1>0, <1>17 DEF SkipStage, PassOver, ControlTyped
<1>18. CASE ListNodes \/ Drained
  <2>1. CASE ListNodes
    <3>1. copy \in Object /\ copy.spec \in Seq(Stage) /\ at \in DOMAIN copy.spec
      <4>1. Looking
        BY <2>1 DEF ListNodes, Draining
      <4>2. copy \in Object /\ Sound(copy)
        BY VersionsTyped DEF Known, Versions
      <4>. QED BY <4>1, <4>2, ObjectTyped DEF Looking, Sound
    <3>2. copy.spec[at] \in Stage
      BY <3>1
    <3>3. todo' \subseteq Nodes
      BY <2>1, <3>2 DEF ListNodes, Stage
    <3>. QED BY <1>0, <2>1, <3>3 DEF ListNodes, ControlTyped
  <2>2. CASE Drained
    BY <1>0, <2>2 DEF Drained, Write, ControlTyped
  <2>. QED BY <1>18, <2>1, <2>2
<1>28. CASE ListFails \/ \E n \in Nodes : TaintNode(n) \/ TaintFails(n)
  <2>1. CASE ListFails
    BY <1>0, <2>1 DEF ListFails, DrainFails, SchedGoes, ControlTyped
  <2>2. ASSUME NEW n \in Nodes, TaintNode(n)
        PROVE  ControlTyped'
    BY <1>0, <2>2 DEF TaintNode, ControlTyped
  <2>3. ASSUME NEW n \in Nodes, TaintFails(n)
        PROVE  ControlTyped'
    <3>1. tainted' \subseteq Nodes
      BY <1>0, <2>3 DEF TaintFails, ControlTyped
    <3>. QED BY <1>0, <2>3, <3>1 DEF TaintFails, DrainFails, SchedGoes, ControlTyped
  <2>. QED BY <1>28, <2>1, <2>2, <2>3
<1>19. CASE UncordonNodes \/ LookAtNoStage \/ Crash
  <2>1. Restarted
    BY <1>19 DEF UncordonNodes, LookAtNoStage, Crash
  <2>2. crashes' \in Nat
    BY <1>0, <1>19 DEF UncordonNodes, LookAtNoStage, Crash, ControlTyped
  <2>3. << >> \in Seq(JobsOn({MtJob})) /\ << >> \in Seq(Nat)
    OBVIOUS
  <2>4. jobQ' \in Seq(JobsOn({MtJob})) /\ tq' \in Seq(Nat)
    BY <2>1, <2>3 DEF Restarted
  <2>5. ready' \in Nat /\ at' \in Nat \ {0}
    BY <2>1 DEF Restarted
  <2>6. /\ cached' = FALSE /\ shared' = FALSE /\ delayed' = {} /\ events' = {}
        /\ wpc' = "idle" /\ action' = "None" /\ pc' = "idle" /\ notice' = {} /\ todo' = {}
        /\ UNCHANGED <<now, kjobs, tainted, userOps, errors, lost>>
    BY <2>1 DEF Restarted
  <2>. QED BY <1>0, <2>2, <2>4, <2>5, <2>6 DEF ControlTyped
<1>20. CASE CreateJob
  <2>1. kjobs' \in [Positions -> [uid : Nat, state : JobStates, created : Nat]]
    <3>1. copy \in Object
      BY VersionsTyped DEF Known, Versions
    <3>2. copy.uid \in Nat /\ now \in Nat
      BY <1>0, <3>1, ObjectTyped DEF ControlTyped
    <3>3. [uid |-> copy.uid, state |-> "active", created |-> now]
            \in [uid : Nat, state : JobStates, created : Nat]
      BY <3>2 DEF JobStates
    <3>. QED BY <1>0, <1>20, <3>3 DEF CreateJob, AddJob, ControlTyped
  <2>2. errors' \in Nat
    BY <1>0, <1>20 DEF CreateJob, ControlTyped
  <2>. QED BY <1>0, <1>20, <2>1, <2>2 DEF CreateJob, SchedGoes, ControlTyped
<1>21. CASE Send
  <2>1. errors' \in Nat /\ lost' \in Nat
    BY <1>0, <1>21 DEF Send, CallFails, ControlTyped
  <2>. QED BY <1>0, <1>21, <2>1 DEF Send, SchedGoes, ControlTyped
<1>22. CASE SendOn
  <2>1. errors' \in Nat /\ lost' \in Nat
    BY <1>0, <1>22 DEF SendOn, CallFails, ControlTyped
  <2>2. pc' \in {"stage", "enqueue"} /\ (at' = at \/ at' = at + 1) /\ shared' \in {shared, FALSE}
    BY <1>22 DEF SendOn, SchedGoes
  <2>3. at' \in Nat \ {0} /\ shared' \in BOOLEAN
    <3>1. at \in Nat \ {0} /\ shared \in BOOLEAN
      BY <1>0 DEF ControlTyped
    <3>2. at' \in Nat \ {0}
      BY <2>2, <3>1
    <3>3. shared' \in BOOLEAN
      BY <2>2, <3>1
    <3>. QED BY <3>2, <3>3
  <2>4. UNCHANGED <<now, cached, notice, jobQ, delayed, tq, ready, wpc, action, kjobs, events,
                    tainted, todo, userOps, crashes>>
    BY <1>22 DEF SendOn, SchedGoes
  <2>. QED BY <1>0, <2>1, <2>2, <2>3, <2>4 DEF ControlTyped
<1>23. CASE EnqueueAgain
  <2>1. tq' \in Seq(Nat)
    <3>1. tq \in Seq(Nat) /\ now + PollInterval \in Nat
      BY <1>0, BoundsAssumption DEF ControlTyped
    <3>2. tq' = tq \/ tq' = Append(tq, now + PollInterval)
      BY <1>23 DEF EnqueueAgain
    <3>. QED BY <3>1, <3>2
  <2>2. pc' = "idle" /\ at' = 1 /\ shared' = FALSE /\ todo' = {}
    BY <1>23 DEF EnqueueAgain
  <2>3. at' \in Nat \ {0}
    BY <2>2
  <2>4. UNCHANGED <<now, cached, notice, jobQ, delayed, ready, wpc, action, kjobs, events, tainted,
                    userOps, errors, lost, crashes>>
    BY <1>23 DEF EnqueueAgain
  <2>. QED BY <1>0, <2>1, <2>2, <2>3, <2>4 DEF ControlTyped
<1>24. ASSUME NEW i \in Positions, OnJobUpdated(i)
       PROVE  ControlTyped'
  <2>1. errors' \in Nat /\ lost' \in Nat /\ events' \subseteq Positions
    BY <1>0, <1>24 DEF OnJobUpdated, CallFails, ControlTyped
  <2>. QED BY <1>0, <1>24, <2>1 DEF OnJobUpdated, ControlTyped
<1>25. CASE UNCHANGED vars
  BY <1>0, <1>25 DEF vars, ControlTyped
<1>. QED BY <1>1, <1>2, <1>3, <1>4, <1>5, <1>6, <1>7, <1>8, <1>9, <1>10, <1>11, <1>12, <1>13,
            <1>14, <1>15, <1>16, <1>17, <1>18, <1>19, <1>20, <1>21, <1>22, <1>23, <1>24, <1>25,
            <1>26, <1>27, <1>28
         DEF Next, Worker, Pass, Scheduler, Cluster

\* What a user creates is sound, and newer than all there is.
LEMMA CreatedFacts ==
    ASSUME Inv, NEW s \in Specs,
           NEW o, o = [Nothing EXCEPT !.uid = api.uid + 1, !.gone = FALSE,
                                      !.created = now, !.spec = s]
    PROVE  /\ Sound(Stored(o)) /\ Stored(o).rv = api.rv + 1
           /\ Stored(o) \in Object /\ Stored(o).gone = FALSE /\ Stored(o).spec = s
           /\ Stored(o).stages = << >> /\ Stored(o).succeededAt = 0 /\ Stored(o).failedAt = 0
<1>1. api \in Object /\ api.uid \in Nat /\ now \in Nat
  BY VersionsTyped, ObjectTyped DEF Known, Versions, Inv, ControlTyped
<1>2. PICK n \in Nat : n = api.uid + 1
  BY <1>1
<1>3. PICK t \in Nat : t = now
  BY <1>1
<1>4. o = [Nothing EXCEPT !.uid = n, !.gone = FALSE, !.created = t, !.spec = s]
  BY <1>2, <1>3
<1>5. /\ o \in Object /\ o.spec = s /\ o.stages = << >> /\ o.gone = FALSE
      /\ o.succeededAt = 0 /\ o.failedAt = 0
  <2>1. Nothing.succeededAt = 0 /\ Nothing.failedAt = 0
    BY DEF Nothing
  <2>. QED BY <1>4, <2>1, NothingFacts DEF Object
<1>6. /\ Stored(o) \in Object /\ Stored(o).rv = api.rv + 1 /\ Stored(o).stages = << >>
      /\ Stored(o).succeededAt = 0 /\ Stored(o).failedAt = 0
      /\ Stored(o).gone = FALSE /\ Stored(o).spec = s
  BY <1>1, <1>5, StoredFacts
<1>7. Len(Stored(o).spec) \in Nat
  BY <1>6, ObjectTyped
<1>8. DOMAIN Stored(o).stages = {} /\ Len(Stored(o).stages) <= Len(Stored(o).spec)
  BY <1>6, <1>7
<1>. QED BY <1>6, <1>8 DEF Sound, InTurn, OutcomeRight, Listed

\* What a deletion leaves of the object, or makes of it.
LEMMA DeletedFacts ==
    ASSUME Inv, NEW o, o \in {[api EXCEPT !.gone = TRUE], [api EXCEPT !.deleting = TRUE]}
    PROVE  /\ Sound(Stored(o)) /\ Stored(o) \in Object /\ Stored(o).rv = api.rv + 1
           /\ Stored(o).spec = api.spec /\ Stored(o).stages = api.stages
           /\ Stored(o).succeededAt = api.succeededAt /\ Stored(o).failedAt = api.failedAt
           /\ Stored(o).uid = api.uid
<1>1. api \in Object /\ Sound(api)
  BY VersionsTyped DEF Known, Versions
<1>2. /\ o \in Object /\ o.uid = api.uid /\ o.spec = api.spec /\ o.stages = api.stages
      /\ o.succeededAt = api.succeededAt /\ o.failedAt = api.failedAt
  <2>1. CASE o = [api EXCEPT !.gone = TRUE]
    BY <1>1, <2>1 DEF Object
  <2>2. CASE o = [api EXCEPT !.deleting = TRUE]
    BY <1>1, <2>2 DEF Object
  <2>. QED BY <2>1, <2>2
<1>3. /\ Stored(o) \in Object /\ Stored(o).rv = api.rv + 1 /\ Stored(o).uid = api.uid
      /\ Stored(o).spec = api.spec /\ Stored(o).stages = api.stages
      /\ Stored(o).succeededAt = api.succeededAt /\ Stored(o).failedAt = api.failedAt
      /\ Stored(o).gone = o.gone
  BY <1>1, <1>2, StoredFacts
<1>4. Sound(Stored(o))
  BY <1>1, <1>3, SameStatusIsSound
<1>. QED BY <1>2, <1>3, <1>4

\* The steps that take the object away.
LEMMA DeletionStores ==
    ASSUME Inv, Delete \/ CollectGarbage
    PROVE  /\ UNCHANGED <<now, seen, copy, wcopy, tainted>> /\ ~api.gone
           /\ \E o \in {[api EXCEPT !.gone = TRUE], [api EXCEPT !.deleting = TRUE]} :
                  api' = Stored(o) /\ watch' = watch \cup {Stored(o)}
BY DEF Delete, CollectGarbage, UserOp, Put, Live, worker, sched, cluster

\* The stage a pass looks at.
LEMMA CurrentFacts ==
    ASSUME Inv, Looking \/ pc = "drain"
    PROVE  /\ copy \in Known /\ copy \in Object /\ Sound(copy) /\ at \in DOMAIN copy.stages
           /\ at \in Nat \ {0} /\ Current \in StageStatus /\ StageRight(Current)
           /\ \A k \in 1..at - 1 :
                  k \in DOMAIN copy.stages /\ (Asks(copy, k) => ~Idle(copy.stages[k]))
           /\ ~Idle(Current) => \A k \in 1..at - 1 : Asks(copy, k) => copy.stages[k].succeeded
<1>1. copy \in Known /\ copy \in Object /\ Sound(copy) /\ at \in Nat \ {0}
  BY VersionsTyped DEF Known, Versions, Inv, ControlTyped
<1>2. at \in DOMAIN copy.stages
  BY DEF Looking, Inv, PassRight
<1>3. Current \in StageStatus /\ StageRight(Current)
  BY <1>1, <1>2, ObjectTyped DEF Current, Sound
<1>4. UpTo(copy, at)
  BY DEF Looking, Inv, PassRight
<1>5. ~Idle(Current) => \A k \in 1..at - 1 : Asks(copy, k) => copy.stages[k].succeeded
  <2>1. at >= at
    BY <1>1
  <2>. QED BY <1>2, <1>4, <2>1 DEF UpTo, Current
<1>. QED BY <1>1, <1>2, <1>3, <1>4, <1>5 DEF UpTo

\* The outcome a pass records is that of the stages.
LEMMA FailedFacts ==
    ASSUME Inv, Looking, Current.failed, Current.finishedAt # 0,
           NEW h, h = [copy EXCEPT !.failedAt = Current.finishedAt]
    PROVE  /\ Sound(h) /\ h.rv = copy.rv /\ h.uid = copy.uid /\ h.spec = copy.spec
           /\ h.stages = copy.stages /\ Keeps(copy, h)
<1>1. /\ copy \in Object /\ Sound(copy) /\ at \in DOMAIN copy.stages
      /\ Current \in StageStatus
  BY CurrentFacts
<1>2. PICK t \in Nat : t = Current.finishedAt
  BY <1>1, StageTyped
<1>3. /\ h \in Object /\ h.rv = copy.rv /\ h.uid = copy.uid /\ h.spec = copy.spec
      /\ h.stages = copy.stages /\ h.failedAt = t /\ h.succeededAt = copy.succeededAt
  BY <1>1, <1>2 DEF Object
<1>0. copy.failedAt # 0 => copy.failedAt = Current.finishedAt
  <2>1. SUFFICES ASSUME copy.failedAt # 0
                 PROVE  copy.failedAt = Current.finishedAt
    OBVIOUS
  <2>2. PICK i \in DOMAIN copy.stages :
            copy.stages[i].failed /\ copy.stages[i].finishedAt = copy.failedAt
    BY <1>1, <2>1 DEF Sound, OutcomeRight
  <2>3. i = at \/ i \in 1..at - 1 \/ at \in 1..i - 1
    BY <1>1, ObjectTyped
  <2>4. /\ ~(copy.stages[i].succeeded /\ copy.stages[i].failed)
        /\ ~(copy.stages[at].succeeded /\ copy.stages[at].failed)
    BY <1>1 DEF Sound, StageRight
  <2>5. Asks(copy, i) /\ Asks(copy, at)
    BY <1>1, <2>2 DEF Sound, InTurn, Idle, Current
  <2>. QED BY <1>1, <2>2, <2>3, <2>4, <2>5 DEF Current, Sound, InTurn, HasResult
<1>4. h.stages[at].failed /\ h.stages[at].finishedAt = h.failedAt /\ at \in DOMAIN h.stages
  BY <1>1, <1>2, <1>3 DEF Current
<1>5. OutcomeRight(h)
  <2>1. h.succeededAt # 0 =>
           /\ Complete(h) /\ h.stages # << >> /\ LastStage(h).succeeded
           /\ \A i \in DOMAIN h.stages : Asks(h, i) => h.stages[i].succeeded
           /\ \E i \in DOMAIN h.stages : h.stages[i].finishedAt = h.succeededAt
    BY <1>1, <1>3 DEF Sound, OutcomeRight, Complete, LastStage, Asks
  <2>. QED BY <1>4, <2>1 DEF OutcomeRight
<1>6. Sound(h)
  BY <1>1, <1>3, <1>5 DEF Sound, InTurn, Listed, Complete, Asks
<1>. QED BY <1>0, <1>2, <1>3, <1>6 DEF Keeps, Goes

\* When the last stage has succeeded, all that ask for something have, since they have
\* their results in turn.
LEMMA SucceededFacts ==
    ASSUME Inv, Looking, Current.succeeded, Current.finishedAt # 0, Succeeded(copy),
           NEW h, h = [copy EXCEPT !.succeededAt = Current.finishedAt]
    PROVE  /\ Sound(h) /\ h.rv = copy.rv /\ h.uid = copy.uid /\ h.spec = copy.spec
           /\ h.stages = copy.stages /\ Keeps(copy, h)
           /\ \A i \in DOMAIN copy.stages : Asks(copy, i) => copy.stages[i].succeeded
<1>1. /\ copy \in Object /\ Sound(copy) /\ at \in DOMAIN copy.stages
      /\ Current \in StageStatus
  BY CurrentFacts
<1>2. PICK t \in Nat : t = Current.finishedAt
  BY <1>1, StageTyped
<1>3. /\ h \in Object /\ h.rv = copy.rv /\ h.uid = copy.uid /\ h.spec = copy.spec
      /\ h.stages = copy.stages /\ h.failedAt = copy.failedAt /\ h.succeededAt = t
  BY <1>1, <1>2 DEF Object
<1>4. \A i \in DOMAIN copy.stages : Asks(copy, i) => copy.stages[i].succeeded
  <2>1. PICK n \in Nat : n = Len(copy.stages) /\ DOMAIN copy.stages = 1..n
    BY <1>1, ObjectTyped
  <2>2. n \in DOMAIN copy.stages /\ copy.stages[n].succeeded
    BY <1>1, <2>1 DEF Succeeded, LastStage
  <2>3. ASSUME NEW i \in 1..n, Asks(copy, i)
        PROVE  copy.stages[i].succeeded
    <3>1. CASE i = n
      BY <2>2, <3>1
    <3>2. CASE i # n
      <4>1. i \in 1..n - 1
        BY <3>2
      <4>. QED BY <1>1, <2>2, <2>3, <4>1 DEF Sound, InTurn, HasResult
    <3>. QED BY <3>1, <3>2
  <2>. QED BY <2>1, <2>3
<1>5. OutcomeRight(h)
  <2>1. Complete(h) /\ h.stages # << >> /\ LastStage(h).succeeded
    BY <1>1, <1>3 DEF Succeeded, Complete, LastStage
  <2>2. h.failedAt # 0 => \E i \in DOMAIN h.stages :
          h.stages[i].failed /\ h.stages[i].finishedAt = h.failedAt
    BY <1>1, <1>3 DEF Sound, OutcomeRight
  <2>3. h.stages[at].finishedAt = t /\ at \in DOMAIN h.stages
    BY <1>1, <1>2, <1>3 DEF Current
  <2>. QED BY <1>3, <1>4, <2>1, <2>2, <2>3 DEF OutcomeRight, Asks
<1>6. Sound(h)
  BY <1>1, <1>3, <1>5 DEF Sound, InTurn, Listed, Complete, Asks
<1>. QED BY <1>2, <1>3, <1>4, <1>6 DEF Keeps, Goes

\* What a pass writes into the stage it looks at.
LEMMA StageWritten ==
    ASSUME Inv, Looking \/ pc = "drain", ~HasResult(Current),
           NEW s \in StageStatus, StageRight(s), ~Idle(s), Asks(copy, at),
           s.succeeded => copy.spec[at].nodes \subseteq tainted',
           HasResult(s) => ~Idle(Current), Goes(Current, s),
           Write(SetStage(copy, at, s)), UNCHANGED <<now, api, watch, wcopy>>,
           tainted \subseteq tainted'
    PROVE  /\ VersionsRight'
           /\ DOMAIN copy'.stages = DOMAIN copy.stages /\ copy'.stages[at] = s
           /\ \A k \in DOMAIN copy.stages \ {at} : copy'.stages[k] = copy.stages[k]
<1>1. /\ Sound(copy) /\ at \in DOMAIN copy.stages /\ Current = copy.stages[at]
      /\ \A k \in 1..at - 1 : Asks(copy, k) => ~Idle(copy.stages[k])
      /\ ~Idle(Current) => \A k \in 1..at - 1 : Asks(copy, k) => copy.stages[k].succeeded
  BY CurrentFacts DEF Current
<1>2. PICK c \in Known : c = copy
  BY DEF Known, Versions
<1>3. PICK i \in DOMAIN c.stages : i = at
  BY <1>1, <1>2
<1>4. PICK h : h = SetStage(c, i, s)
  OBVIOUS
<1>5. now \in Nat /\ Sound(c)
  BY <1>1, <1>2 DEF Inv, ControlTyped
<1>6. Sound(c)'
  BY <1>5, SoundStays
<1>7. StageRight(s)'
  BY DEF StageRight
<1>8. /\ ~HasResult(c.stages[i]) /\ Asks(c, i)
      /\ s.succeeded => c.spec[i].nodes \subseteq tainted'
      /\ \A k \in 1..i - 1 : Asks(c, k) => ~Idle(c.stages[k])
      /\ HasResult(s) => \A k \in 1..i - 1 : Asks(c, k) => c.stages[k].succeeded
      /\ Goes(c.stages[i], s)
  BY <1>1, <1>2, <1>3
<1>9. /\ Sound(h)' /\ h.rv = c.rv /\ h.uid = c.uid /\ h.spec = c.spec /\ Keeps(c, h)
      /\ DOMAIN h.stages = DOMAIN c.stages /\ h.stages[i] = s
      /\ \A k \in DOMAIN c.stages \ {i} : h.stages[k] = c.stages[k]
  BY <1>4, <1>6, <1>7, <1>8, SetStageFacts
<1>10. Write(h) /\ copy' = h
  BY <1>2, <1>3, <1>4 DEF Write
<1>11. VersionsRight'
  BY <1>2, <1>9, <1>10, Writes
<1>. QED BY <1>2, <1>3, <1>9, <1>10, <1>11

\* A stage that has run too long.
LEMMA TimeOutWrites ==
    ASSUME Inv, TimeOut
    PROVE  VersionsRight'
<1>1. /\ Looking /\ Current.running /\ Write(SetStage(copy, at, Ended(Current, FALSE)))
      /\ Asks(copy, at) /\ UNCHANGED <<now, api, watch, wcopy, tainted>>
  BY DEF TimeOut, worker, cluster, OwnWork, Kind, Asks
<1>2. Current \in StageStatus /\ StageRight(Current) /\ ~Idle(Current) /\ ~HasResult(Current)
  BY <1>1, CurrentFacts DEF Idle, StageRight
<1>3. now \in Nat \ {0}
  BY DEF Inv, ControlTyped
<1>4. PICK s \in StageStatus : /\ s = Ended(Current, FALSE) /\ StageRight(s) /\ ~Idle(s)
                               /\ Goes(Current, s)
                               /\ ~s.succeeded
  BY <1>1, <1>2, <1>3, EndedFacts
<1>. QED BY <1>1, <1>2, <1>4, StageWritten

\* A drain that has tainted all of its nodes.
LEMMA DrainWrites ==
    ASSUME Inv, Drained
    PROVE  VersionsRight'
<1>1. /\ pc = "drain" /\ todo = {} /\ UNCHANGED <<now, api, watch, wcopy, tainted>>
      /\ Write(SetStage(copy, at, Ended(Current, TRUE)))
  BY DEF Drained, worker, cluster
<1>2. /\ Current.running /\ Asks(copy, at)
      /\ copy.spec[at].nodes \subseteq tainted
  BY <1>1 DEF Inv, PassRight, Current
<1>3. Current \in StageStatus /\ StageRight(Current) /\ ~Idle(Current) /\ ~HasResult(Current)
  BY <1>1, <1>2, CurrentFacts DEF Idle, StageRight
<1>4. now \in Nat \ {0}
  BY DEF Inv, ControlTyped
<1>5. PICK s \in StageStatus : /\ s = Ended(Current, TRUE) /\ StageRight(s) /\ ~Idle(s)
                             /\ Goes(Current, s)
  BY <1>2, <1>3, <1>4, EndedFacts
<1>. QED BY <1>1, <1>2, <1>3, <1>5, StageWritten

\* Tainting nodes makes no version less sound.
LEMMA TaintSteps ==
    ASSUME Inv, \/ ListNodes \/ ListFails
                \/ \E n \in Nodes : TaintNode(n) \/ TaintFails(n)
    PROVE  VersionsRight' /\ UNCHANGED <<now, api>>
<1>1. /\ UNCHANGED <<now, api, watch, seen, copy, wcopy>>
      /\ tainted \subseteq tainted'
  BY DEF ListNodes, ListFails, TaintNode, TaintFails, DrainFails, SchedGoes, worker, cluster
<1>2. Versions' \subseteq Known
  BY <1>1 DEF Known, Versions
<1>. QED BY <1>1, <1>2, Moves

\* A stage that begins; those behind it have not.
LEMMA BeginWrites ==
    ASSUME Inv, Begin
    PROVE  VersionsRight' /\ UpTo(copy', at' + 1) /\ at' \in DOMAIN copy'.stages
<1>1. /\ Looking /\ Idle(Current) /\ Write(SetStage(copy, at, Begun(Current)))
      /\ Asks(copy, at) /\ UNCHANGED <<now, api, watch, wcopy, tainted, at>>
  BY DEF Begin, worker, cluster, Write, OwnWork, Kind, Asks
<1>2. /\ Current \in StageStatus /\ StageRight(Current) /\ ~HasResult(Current)
      /\ Sound(copy) /\ at \in DOMAIN copy.stages
      /\ \A k \in 1..at - 1 :
            k \in DOMAIN copy.stages /\ (Asks(copy, k) => ~Idle(copy.stages[k]))
  BY <1>1, CurrentFacts DEF Idle, HasResult
<1>3. now \in Nat \ {0} /\ at \in Nat \ {0}
  BY DEF Inv, ControlTyped
<1>4. PICK s \in StageStatus : /\ s = Begun(Current) /\ StageRight(s) /\ ~Idle(s)
                               /\ Goes(Current, s)
                               /\ ~HasResult(s) /\ ~s.succeeded
  BY <1>1, <1>2, <1>3, BegunFacts
<1>5. /\ VersionsRight'
      /\ DOMAIN copy'.stages = DOMAIN copy.stages /\ copy'.stages[at] = s
      /\ \A k \in DOMAIN copy.stages \ {at} : copy'.stages[k] = copy.stages[k]
  BY <1>1, <1>2, <1>4, StageWritten
<1>9. \A k \in 1..at : Asks(copy', k) = Asks(copy, k)
  BY <1>1 DEF Write, SetStage, Asks
<1>6. ASSUME NEW k \in 1..at
      PROVE  k \in DOMAIN copy'.stages /\ (Asks(copy', k) => ~Idle(copy'.stages[k]))
  <2>1. CASE k = at
    BY <1>2, <1>4, <1>5, <2>1
  <2>2. CASE k # at
    <3>1. k \in 1..at - 1
      BY <1>3, <2>2
    <3>. QED BY <1>2, <1>5, <1>9, <2>2, <3>1
  <2>. QED BY <2>1, <2>2
<1>7. ASSUME NEW k \in DOMAIN copy'.stages, k >= at + 1
      PROVE  Idle(copy'.stages[k])
  <2>1. k \in Nat /\ k # at /\ k \in DOMAIN copy.stages /\ at \in 1..k - 1
    BY <1>2, <1>3, <1>5, <1>7, ObjectTyped DEF Sound
  <2>2. ~Idle(copy.stages[k]) => ~Idle(copy.stages[at])
    BY <1>1, <1>2, <2>1 DEF Sound, InTurn
  <2>. QED BY <1>1, <1>5, <2>1, <2>2 DEF Current
<1>8. UpTo(copy', at' + 1)
  <2>1. (at + 1) - 1 = at
    BY <1>3
  <2>. QED BY <1>1, <1>6, <1>7, <2>1 DEF UpTo
<1>. QED BY <1>1, <1>2, <1>5, <1>8

\* Recording the outcome.
LEMMA OutcomeWrites ==
    ASSUME Inv, RecordFailed \/ RecordSucceeded
    PROVE  VersionsRight'
<1>1. UNCHANGED <<now, api, watch, wcopy, tainted>>
  BY DEF RecordFailed, RecordSucceeded, worker, cluster
<1>2. PICK h : /\ Write(h) /\ Sound(h) /\ h.rv = copy.rv /\ h.uid = copy.uid
               /\ h.spec = copy.spec /\ Keeps(copy, h)
  <2>1. CASE RecordFailed
    <3>1. Looking /\ Current.failed /\ Current.finishedAt # 0
      BY <2>1 DEF RecordFailed
    <3>2. PICK h : h = [copy EXCEPT !.failedAt = Current.finishedAt]
      OBVIOUS
    <3>3. Write(h)
      BY <2>1, <3>2 DEF RecordFailed
    <3>. QED BY <3>1, <3>2, <3>3, FailedFacts
  <2>2. CASE RecordSucceeded
    <3>1. Looking /\ Current.succeeded /\ Current.finishedAt # 0 /\ Succeeded(copy)
      BY <2>2 DEF RecordSucceeded
    <3>2. PICK h : h = [copy EXCEPT !.succeededAt = Current.finishedAt]
      OBVIOUS
    <3>3. Write(h)
      BY <2>2, <3>2 DEF RecordSucceeded
    <3>. QED BY <3>1, <3>2, <3>3, SucceededFacts
  <2>. QED BY <2>1, <2>2
<1>3. Sound(h)'
  BY <1>1, <1>2 DEF Sound, StageRight
<1>. QED BY <1>1, <1>2, <1>3, Writes

\* Every version a step makes is sound, and behind the stored one: it is handed on, is
\* created or stored by the API server, or carries on the version of a goroutine.
LEMMA VersionsStep ==
    ASSUME Inv, [Next]_vars
    PROVE  VersionsRight'
<1>. USE DEF rec, worker, sched, cluster, bounds
<1>0. /\ api \in Known /\ seen \in Known /\ copy \in Known /\ wcopy \in Known
      /\ Nothing \in Known /\ watch \subseteq Known /\ now \in Nat
  BY DEF Known, Versions, Inv, ControlTyped
<1>1. CASE Create
  <2>1. PICK s \in Specs : Put([Nothing EXCEPT !.uid = api.uid + 1, !.gone = FALSE,
                                               !.created = now, !.spec = s])
    BY <1>1 DEF Create
  <2>2. PICK o : o = [Nothing EXCEPT !.uid = api.uid + 1, !.gone = FALSE,
                                     !.created = now, !.spec = s]
    OBVIOUS
  <2>3. PICK g : g = Stored(o) /\ Sound(g) /\ g.rv = api.rv + 1
    BY <2>2, CreatedFacts
  <2>4. api' = g /\ watch' = watch \cup {g}
    BY <2>1, <2>2, <2>3 DEF Put
  <2>5. UNCHANGED <<now, seen, copy, wcopy, tainted>>
    BY <1>1 DEF Create, UserOp
  <2>6. Versions' \subseteq Known \cup {g}
    BY <1>0, <2>4, <2>5 DEF Versions
  <2>. QED BY <2>3, <2>4, <2>5, <2>6, Stores
<1>2. CASE Delete \/ CollectGarbage
  <2>1. PICK o \in {[api EXCEPT !.gone = TRUE], [api EXCEPT !.deleting = TRUE]} :
            api' = Stored(o) /\ watch' = watch \cup {Stored(o)}
    BY <1>2, DeletionStores
  <2>2. PICK g : g = Stored(o) /\ Sound(g) /\ g.rv = api.rv + 1
    BY DeletedFacts
  <2>3. api' = g /\ watch' = watch \cup {g}
    BY <2>1, <2>2
  <2>4. UNCHANGED <<now, seen, copy, wcopy, tainted>>
    BY <1>2, DeletionStores
  <2>5. Versions' \subseteq Known \cup {g}
    BY <1>0, <2>3, <2>4 DEF Versions
  <2>. QED BY <2>2, <2>3, <2>4, <2>5, Stores
<1>3. CASE Tick
  <2>1. /\ now' \in {now, now + 1} /\ UNCHANGED <<api, watch, seen, copy, wcopy, tainted>>
    BY <1>3 DEF Tick
  <2>2. Versions' \subseteq Known
    BY <1>0, <2>1 DEF Versions
  <2>. QED BY <2>1, <2>2, Moves
\* Steps that hand versions on, or leave them alone.
<1>4. ASSUME UNCHANGED <<now, api, tainted>>, watch' \subseteq watch \cup {api},
             {seen', copy', wcopy'} \subseteq Known
      PROVE  VersionsRight'
  <2>1. Versions' \subseteq Known
    BY <1>0, <1>4 DEF Versions
  <2>. QED BY <1>4, <2>1, Moves
<1>5. ASSUME NEW i \in Positions, JobEnds(i) \/ CollectJob(i) \/ OnJobUpdated(i)
      PROVE  VersionsRight'
  <2>1. UNCHANGED <<now, api, tainted, watch, seen, copy, wcopy>>
    BY <1>5 DEF JobEnds, CollectJob, OnJobUpdated, NeedToUpdate
  <2>. QED BY <1>0, <1>4, <2>1
<1>6. CASE Informer
  BY <1>0, <1>4, <1>6 DEF Informer, Deliver, Announce
<1>7. CASE Wake \/ \E a \in delayed : FireDelayed(a)
  BY <1>0, <1>4, <1>7 DEF Wake, FireDelayed
<1>8. CASE \/ \E a \in JobActions : HandleWithoutCache(a)
           \/ OnMaintenanceJobUpdated \/ OnMaintenanceJobDeleted \/ FindPending \/ DropCached
           \/ EnqueueAdded \/ Retry
  <2>1. UNCHANGED <<now, api, tainted, watch, seen, copy>> /\ wcopy' = Nothing
    BY <1>8 DEF HandleWithoutCache, OnMaintenanceJobUpdated, OnMaintenanceJobDeleted,
                FindPending, DropCached, EnqueueAdded, Retry, Acquire, WorkerRests, WorkerGoes
  <2>. QED BY <1>0, <1>4, <2>1
<1>9. CASE OnMaintenanceJobAdded
  <2>1. /\ UNCHANGED <<now, api, tainted, watch, seen, copy>>
        /\ wcopy' = Nothing \/ wcopy' = WithStages(seen)
    BY <1>9 DEF OnMaintenanceJobAdded, Acquire, WorkerRests, WorkerGoes
  <2>2. CASE wcopy' = Nothing
    BY <1>0, <1>4, <2>1, <2>2
  <2>3. CASE wcopy' = WithStages(seen)
    <3>1. PICK g \in Known : g = seen /\ Sound(g)
      BY <1>0, VersionsTyped
    <3>2. PICK h : /\ h = WithStages(g) /\ Sound(h) /\ h.rv = g.rv /\ h.uid = g.uid
                   /\ h.spec = g.spec /\ Keeps(g, h)
      BY <3>1, WithStagesFacts
    <3>3. Sound(h)'
      BY <2>1, <3>2 DEF Sound, StageRight
    <3>4. wcopy' = h
      BY <2>3, <3>1, <3>2
    <3>5. Versions' \subseteq Known \cup {h}
      BY <1>0, <2>1, <3>4 DEF Versions
    <3>. QED BY <2>1, <3>1, <3>2, <3>3, <3>5, Continues
  <2>. QED BY <2>1, <2>2, <2>3
<1>10. CASE SendStages
  <2>1. PICK h \in Known : h = wcopy
    BY <1>0
  <2>2. Applied(h) \/ CallFails(h)
    BY <1>10, <2>1 DEF SendStages
  <2>3. UNCHANGED <<now, tainted, seen, copy>> /\ wcopy' = Nothing
    BY <1>10 DEF SendStages, WorkerGoes
  <2>4. {seen', copy', wcopy'} \subseteq Known
    BY <1>0, <2>3
  <2>. QED BY <2>1, <2>2, <2>3, <2>4, AppliedStep, FailedCallStep
<1>11. CASE StartPass \/ PassEnds \/ SkipStage \/ PassOver \/ StartJob \/ CreateJob
            \/ EnqueueAgain
  <2>1. UNCHANGED <<now, api, tainted, watch, seen, wcopy>> /\ copy' \in {copy, seen, Nothing}
    BY <1>11 DEF StartPass, PassEnds, SkipStage, PassOver, StartJob, CreateJob, EnqueueAgain,
                 SchedGoes
  <2>. QED BY <1>0, <1>4, <2>1
<1>12. CASE UncordonNodes \/ LookAtNoStage \/ Crash
  <2>1. Restarted
    BY <1>12 DEF UncordonNodes, LookAtNoStage, Crash
  <2>. QED BY <1>0, <1>4, <2>1 DEF Restarted
<1>13. CASE Send
  <2>1. PICK h \in Known : h = copy
    BY <1>0
  <2>2. Applied(h) \/ CallFails(h)
    BY <1>13, <2>1 DEF Send
  <2>3. UNCHANGED <<now, tainted, seen, copy, wcopy>>
    BY <1>13 DEF Send, SchedGoes
  <2>4. {seen', copy', wcopy'} \subseteq Known
    BY <1>0, <2>3
  <2>. QED BY <2>1, <2>2, <2>3, <2>4, AppliedStep, FailedCallStep
<1>14. CASE SendOn
  <2>1. PICK h \in Known : h = copy
    BY <1>0
  <2>2. UNCHANGED <<now, tainted, seen, wcopy>>
    BY <1>14 DEF SendOn
  <2>3. CASE Applied(h) /\ copy' = Answer(h)
    <3>1. {seen', copy', wcopy'} \subseteq Known \cup {Answer(h)}
      BY <1>0, <2>2, <2>3
    <3>. QED BY <2>1, <2>2, <2>3, <3>1, AppliedStep
  <2>4. CASE CallFails(h) /\ copy' = copy
    <3>1. {seen', copy', wcopy'} \subseteq Known
      BY <1>0, <2>2, <2>4
    <3>. QED BY <2>1, <2>2, <2>4, <3>1, FailedCallStep
  <2>. QED BY <1>14, <2>1, <2>3, <2>4 DEF SendOn, SchedGoes, Answer
<1>15. CASE RecordFailed \/ RecordSucceeded \/ TimeOut \/ Drained \/ Begin
  BY <1>15, OutcomeWrites, TimeOutWrites, DrainWrites, BeginWrites
<1>17. CASE ListNodes \/ ListFails \/ \E n \in Nodes : TaintNode(n) \/ TaintFails(n)
  BY <1>17, TaintSteps
<1>16. CASE UNCHANGED vars
  BY <1>0, <1>4, <1>16 DEF vars
<1>. QED BY <1>1, <1>2, <1>3, <1>5, <1>6, <1>7, <1>8, <1>9, <1>10, <1>11, <1>12, <1>13, <1>14,
            <1>15, <1>16, <1>17 DEF Next, Worker, Pass, Scheduler, Cluster

\* A pass only goes past stages that have succeeded, or that were the last to begin.
LEMMA PassStep ==
    ASSUME Inv, [Next]_vars
    PROVE  PassRight'
<1>. USE DEF rec, worker, sched, cluster, bounds
\* Steps that leave the pass alone, or end it.
<1>0. ASSUME \/ UNCHANGED <<pc, copy, at, todo, tainted>>
             \/ pc' \in {"idle", "create", "send", "enqueue"}
      PROVE  PassRight'
  BY <1>0 DEF Inv, PassRight, UpTo, Asks
<1>1. CASE \/ Create \/ Delete \/ CollectGarbage \/ Tick \/ Cluster \/ Informer \/ Wake
           \/ (\E a \in delayed : FireDelayed(a)) \/ (\E i \in Positions : OnJobUpdated(i))
           \/ \E a \in JobActions : HandleWithoutCache(a)
  <2>1. UNCHANGED <<pc, copy, at, todo, tainted>>
    BY <1>1 DEF Create, Delete, CollectGarbage, UserOp, Tick, Cluster, JobEnds, CollectJob,
         Informer, Deliver, Announce, Wake, FireDelayed, OnJobUpdated, HandleWithoutCache,
         Acquire
  <2>. QED BY <1>0, <2>1
<1>10. CASE \/ OnMaintenanceJobAdded \/ OnMaintenanceJobUpdated \/ OnMaintenanceJobDeleted
            \/ FindPending \/ DropCached \/ SendStages \/ EnqueueAdded \/ Retry
  <2>1. UNCHANGED <<pc, copy, at, todo, tainted>>
    BY <1>10 DEF OnMaintenanceJobAdded, OnMaintenanceJobUpdated, OnMaintenanceJobDeleted,
         FindPending, DropCached, SendStages, EnqueueAdded, Retry, Acquire
  <2>. QED BY <1>0, <2>1
<1>2. CASE PassEnds \/ StartJob \/ CreateJob \/ Send \/ RecordFailed \/ TimeOut \/ Drained
           \/ EnqueueAgain \/ Crash \/ UncordonNodes \/ LookAtNoStage \/ ListFails
           \/ \E n \in Nodes : TaintFails(n)
  <2>1. pc' \in {"idle", "create", "send", "enqueue"}
    BY <1>2 DEF PassEnds, StartJob, CreateJob, Send, RecordFailed, TimeOut, Drained,
         EnqueueAgain, Crash, UncordonNodes, LookAtNoStage, ListFails, TaintFails, DrainFails,
         Restarted, SchedGoes
  <2>. QED BY <1>0, <2>1
<1>3. CASE StartPass
  <2>1. CASE pc' = "enqueue"
    BY <1>0, <2>1
  <2>2. CASE pc' = "stage" /\ at' = 1
    <3>1. UpTo(copy', at')
      BY <2>2 DEF UpTo
    <3>. QED BY <2>2, <3>1 DEF PassRight
  <2>. QED BY <1>3, <2>1, <2>2 DEF StartPass, SchedGoes
<1>4. CASE SkipStage
  <2>1. Looking /\ Current.succeeded /\ pc' = "stage" /\ at' = at + 1 /\ copy' = copy
    BY <1>4 DEF SkipStage, Looking
  <2>2. /\ at \in Nat \ {0} /\ at \in DOMAIN copy.stages /\ ~Idle(Current)
        /\ \A k \in 1..at - 1 :
              /\ k \in DOMAIN copy.stages
              /\ Asks(copy, k) => ~Idle(copy.stages[k]) /\ copy.stages[k].succeeded
    BY <2>1, CurrentFacts DEF Idle
  <2>3. ASSUME NEW k \in 1..at
        PROVE  /\ k \in DOMAIN copy.stages
               /\ Asks(copy, k) => ~Idle(copy.stages[k]) /\ copy.stages[k].succeeded
    <3>1. CASE k = at
      BY <2>1, <2>2, <3>1 DEF Current
    <3>2. CASE k # at
      <4>1. k \in 1..at - 1
        BY <2>2, <3>2
      <4>. QED BY <2>2, <4>1
    <3>. QED BY <3>1, <3>2
  <2>4. UpTo(copy, at + 1)
    <3>1. (at + 1) - 1 = at
      BY <2>2
    <3>. QED BY <2>3, <3>1 DEF UpTo
  <2>5. UpTo(copy', at')
    BY <2>1, <2>4
  <2>. QED BY <2>1, <2>5 DEF PassRight
<1>11. CASE PassOver
  <2>1. Looking /\ ~Asks(copy, at) /\ pc' = "stage" /\ at' = at + 1 /\ copy' = copy
    BY <1>11 DEF PassOver, Looking, Kind, Asks
  <2>2. /\ at \in Nat \ {0} /\ at \in DOMAIN copy.stages /\ copy \in Object
        /\ DOMAIN copy.stages \subseteq Nat
    BY <2>1, CurrentFacts, ObjectTyped
  <2>3. UpTo(copy, at)
    BY <2>1 DEF Looking, Inv, PassRight
  <2>4. ASSUME NEW k \in 1..(at + 1) - 1
        PROVE  k = at \/ k \in 1..at - 1
    BY <2>2
  <2>5. \A k \in DOMAIN copy.stages : k >= at + 1 => k >= at
    BY <2>2
  <2>6. UpTo(copy, at + 1)
    BY <2>1, <2>2, <2>3, <2>4, <2>5 DEF UpTo
  <2>. QED BY <2>1, <2>6 DEF PassRight
<1>5. CASE ListNodes
  <2>1. /\ Looking /\ Current.running /\ Kind = "drain" /\ UNCHANGED <<copy, at>>
        /\ pc' = "drain" /\ todo' = copy.spec[at].nodes
    BY <1>5 DEF ListNodes, Draining
  <2>2. /\ at \in DOMAIN copy.stages /\ copy.stages[at].running /\ Asks(copy, at)
        /\ UpTo(copy, at)
    BY <2>1 DEF Looking, Current, Kind, Asks, Inv, PassRight
  <2>3. UpTo(copy', at')
    BY <2>1, <2>2
  <2>. QED BY <2>1, <2>2, <2>3 DEF PassRight, Asks
<1>12. ASSUME NEW n \in Nodes, TaintNode(n)
       PROVE  PassRight'
  <2>1. /\ pc = "drain" /\ todo' = todo \ {n} /\ tainted' = tainted \cup {n}
        /\ UNCHANGED <<pc, copy, at>>
    BY <1>12 DEF TaintNode
  <2>2. /\ at \in DOMAIN copy.stages /\ copy.stages[at].running /\ Asks(copy, at)
        /\ UpTo(copy, at) /\ copy.spec[at].nodes \ todo \subseteq tainted
    BY <2>1 DEF Inv, PassRight
  <2>3. copy.spec[at].nodes \ todo' \subseteq tainted'
    BY <2>1, <2>2
  <2>4. UpTo(copy', at')
    BY <2>1, <2>2
  <2>. QED BY <2>1, <2>2, <2>3, <2>4 DEF PassRight, Asks
<1>6. CASE Begin
  <2>1. pc' = "sendOn"
    BY <1>6 DEF Begin
  <2>. QED BY <1>6, <2>1, BeginWrites DEF PassRight
<1>7. CASE RecordSucceeded
  <2>1. /\ Looking /\ Current.succeeded /\ Current.finishedAt # 0 /\ Succeeded(copy)
        /\ pc' = "sendOn" /\ at' = at
        /\ copy' = [copy EXCEPT !.succeededAt = Current.finishedAt]
    BY <1>7 DEF RecordSucceeded, Write
  <2>2. /\ copy'.stages = copy.stages /\ copy'.spec = copy.spec
        /\ \A i \in DOMAIN copy.stages : Asks(copy, i) => copy.stages[i].succeeded
    BY <2>1, SucceededFacts
  <2>3. /\ at \in Nat \ {0} /\ at \in DOMAIN copy.stages /\ copy \in Object
        /\ \A k \in 1..at - 1 : k \in DOMAIN copy.stages
    BY <2>1, CurrentFacts
  <2>4. \A k \in 1..at : k \in DOMAIN copy.stages
    <3>1. DOMAIN copy.stages = 1..Len(copy.stages) /\ Len(copy.stages) \in Nat
      BY <2>3, ObjectTyped
    <3>. QED BY <2>3, <3>1
  <2>5. UpTo(copy', at' + 1)
    <3>1. (at + 1) - 1 = at
      BY <2>3
    <3>. QED BY <2>1, <2>2, <2>4, <3>1 DEF UpTo, Idle, Asks
  <2>. QED BY <2>1, <2>2, <2>3, <2>5 DEF PassRight
<1>8. CASE SendOn
  <2>1. CASE pc' = "enqueue"
    BY <1>0, <2>1
  <2>2. CASE pc' = "stage" /\ at' = at + 1 /\ Applied(copy) /\ copy' = Answer(copy)
    <3>1. UpTo(copy, at + 1)
      BY <1>8 DEF SendOn, Inv, PassRight
    <3>2. copy'.stages = copy.stages /\ copy'.spec = copy.spec
      <4>1. copy \in Known /\ api.rv = copy.rv
        BY <2>2 DEF Applied, Known, Versions
      <4>2. api.spec = copy.spec
        BY <4>1, VersionsTyped DEF Behind
      <4>. QED BY <2>2, <4>1, <4>2, AnswerFacts
    <3>3. UpTo(copy', at')
      BY <2>2, <3>1, <3>2 DEF UpTo, Asks
    <3>. QED BY <2>2, <3>3 DEF PassRight
  <2>. QED BY <1>8, <2>1, <2>2 DEF SendOn, SchedGoes, Answer
<1>9. CASE UNCHANGED vars
  BY <1>0, <1>9 DEF vars
<1>. QED BY <1>1, <1>2, <1>3, <1>4, <1>5, <1>6, <1>7, <1>8, <1>9, <1>10, <1>11, <1>12
         DEF Next, Worker, Pass, Scheduler

\* Every step of users, goroutines, clock and restarts keeps the invariant.
THEOREM InvStep ==
    ASSUME Inv, [Next]_vars
    PROVE  Inv'
BY ControlStep, VersionsStep, PassStep DEF Inv

-----------------------------------------------------------------------------
(* The theorems. *)

\* Whatever happens, stages begin in turn in every version, no version that an update
\* would be accepted with has lost a result, and a pass stands where the stages it has
\* gone past allow it to: the inductive invariant behind the properties below.
THEOREM Invariance == Spec => []Inv
BY InitInv, InvStep, PTL DEF Spec

\* All that is not a version, and every version, has its type; no status has more stages
\* than the spec it is about.
THEOREM TypeCorrect == Spec => []TypeOK
<1>1. Inv => TypeOK
  <2>1. SUFFICES ASSUME Inv
                 PROVE  TypeOK
    OBVIOUS
  <2>2. ASSUME NEW h \in watch \cup {api, seen, copy, wcopy}
        PROVE  h \in Object /\ Len(h.stages) <= Len(h.spec)
    BY <2>1, VersionsTyped DEF Known, Versions, Sound
  <2>3. ControlTyped
    BY <2>1 DEF Inv
  <2>. QED BY <2>2, <2>3 DEF ControlTyped, TypeOK, JobsOn
<1>. QED BY <1>1, Invariance, PTL

\* A stage gets its result, when a drain ends or the stage times out, only after all
\* stages before it that ask for something have succeeded, and having begun before: in
\* the stored object, in the store of the informer, and in what the pass and the worker
\* hold.
THEOREM ResultsComeInTurn == Spec => []ResultsInTurn
<1>1. Inv => ResultsInTurn
  <2>1. SUFFICES ASSUME Inv, NEW h \in Versions, NEW i \in DOMAIN h.stages,
                        h.stages[i].succeeded \/ h.stages[i].failed
                 PROVE  /\ \A k \in 1..i - 1 :
                              h.spec[k].kind # "none" => h.stages[k].succeeded
                        /\ ~h.stages[i].running
                        /\ h.stages[i].scheduledAt # 0
                        /\ h.stages[i].scheduledAt <= h.stages[i].finishedAt
    BY DEF ResultsInTurn
  <2>2. Sound(h)
    BY <2>1, VersionsTyped DEF Known
  <2>3. StageRight(h.stages[i]) /\ InTurn(h)
    BY <2>2 DEF Sound
  <2>. QED BY <2>1, <2>3 DEF StageRight, InTurn, HasResult, Idle, Asks
<1>. QED BY <1>1, Invariance, PTL

\* The outcome a pass records in a status, of the last stage or of a failed one, is that of
\* all its stages that ask for something.
THEOREM OutcomeIsOfStages == Spec => []OutcomeOfStages
<1>1. Inv => OutcomeOfStages
  BY VersionsTyped DEF Known, Sound, OutcomeRight, OutcomeOfStages, Asks
<1>. QED BY <1>1, Invariance, PTL

\* No version says that a drain has succeeded before every node that its selector lists is
\* tainted: the loop goes on past nodes that have the taint, and begins anew after a patch
\* that failed or a restart.
THEOREM SuccessMeansAllTainted == Spec => []SuccessMeansTainted
<1>1. Inv => SuccessMeansTainted
  BY VersionsTyped DEF Known, Sound, SuccessMeansTainted
<1>. QED BY <1>1, Invariance, PTL

\* An accepted UpdateStatus call keeps the results that are stored.
LEMMA AppliedKeepsResults ==
    ASSUME Inv, NEW h \in Known, Applied(h)
    PROVE  \A i \in DOMAIN api.stages :
               api.stages[i].finishedAt # 0 => api'.stages[i] = api.stages[i]
<1>1. api.rv = h.rv /\ api' = Answer(h)
  BY DEF Applied, Put, Answer
<1>2. Sound(api)
  BY VersionsTyped DEF Known, Versions
<1>3. \A i \in DOMAIN api.stages : api.stages[i].finishedAt # 0 => HasResult(api.stages[i])
  BY <1>2 DEF Sound, StageRight
<1>. QED BY <1>1, <1>3, AnswerFacts DEF Keeps, Goes

\* Only deletions and accepted UpdateStatus calls change the stored object of an
\* incarnation, and they keep its results.
LEMMA ResultsStep ==
    ASSUME Inv, [Next]_vars, api'.uid = api.uid
    PROVE  \A i \in DOMAIN api.stages :
               api.stages[i].finishedAt # 0 => api'.stages[i] = api.stages[i]
<1>. USE DEF rec, worker, sched, cluster, bounds
<1>1. CASE Create
  <2>1. PICK s \in Specs : Put([Nothing EXCEPT !.uid = api.uid + 1, !.gone = FALSE,
                                               !.created = now, !.spec = s])
    BY <1>1 DEF Create
  <2>2. api.uid \in Nat
    BY VersionsTyped, ObjectTyped DEF Known, Versions
  <2>3. api'.uid = api.uid + 1
    BY <2>1 DEF Put, Stored, Nothing
  <2>. QED BY <2>2, <2>3
<1>2. CASE Delete \/ CollectGarbage
  <2>1. PICK o \in {[api EXCEPT !.gone = TRUE], [api EXCEPT !.deleting = TRUE]} :
            api' = Stored(o)
    BY <1>2, DeletionStores
  <2>. QED BY <2>1, DeletedFacts
<1>3. CASE SendStages \/ Send \/ SendOn
  <2>1. PICK h \in Known : Applied(h) \/ CallFails(h)
    BY <1>3 DEF SendStages, Send, SendOn, Known, Versions
  <2>2. Applied(h) \/ UNCHANGED api
    BY <2>1 DEF CallFails
  <2>. QED BY <2>2, AppliedKeepsResults
<1>4. CASE UNCHANGED api
  BY <1>4
<1>5. CASE Tick \/ Cluster \/ Informer \/ Wake \/ \E a \in delayed : FireDelayed(a)
  BY <1>4, <1>5 DEF Tick, Cluster, JobEnds, CollectJob, Informer, Deliver, Announce, Wake,
                    FireDelayed
<1>6. CASE \/ \E a \in JobActions : HandleWithoutCache(a)
           \/ OnMaintenanceJobAdded \/ LookAtNoStage \/ OnMaintenanceJobUpdated
           \/ OnMaintenanceJobDeleted \/ FindPending \/ DropCached \/ EnqueueAdded \/ Retry
  BY <1>4, <1>6 DEF HandleWithoutCache, OnMaintenanceJobAdded, OnMaintenanceJobUpdated,
                    OnMaintenanceJobDeleted, FindPending, DropCached, LookAtNoStage, Restarted,
                    EnqueueAdded, Retry, Acquire
<1>7. CASE \/ StartPass \/ EnqueueAgain \/ PassEnds \/ RecordFailed \/ RecordSucceeded
           \/ SkipStage \/ PassOver \/ TimeOut \/ Drained \/ UncordonNodes
           \/ Begin \/ StartJob \/ CreateJob
  BY <1>4, <1>7 DEF StartPass, EnqueueAgain, PassEnds, RecordFailed, RecordSucceeded, SkipStage,
         PassOver, TimeOut, Drained, UncordonNodes, Begin, StartJob, CreateJob, Restarted
<1>8. CASE (\E i \in Positions : OnJobUpdated(i)) \/ Crash \/ UNCHANGED vars
  BY <1>4, <1>8 DEF OnJobUpdated, NeedToUpdate, Crash, Restarted, vars
<1>9. CASE ListNodes \/ ListFails \/ \E n \in Nodes : TaintNode(n) \/ TaintFails(n)
  BY <1>4, <1>9, TaintSteps
<1>. QED BY <1>1, <1>2, <1>3, <1>5, <1>6, <1>7, <1>8, <1>9 DEF Next, Worker, Pass, Scheduler

\* No pass on an old version, no second entry in the timeout queue, no retry and no
\* restart takes back a result that is stored.
THEOREM ResultsAreKept == Spec => ResultsStay
<1>1. Inv /\ [Next]_vars =>
        [api'.uid = api.uid =>
            \A i \in DOMAIN api.stages :
                api.stages[i].finishedAt # 0 => api'.stages[i] = api.stages[i]]_vars
  BY ResultsStep
<1>. QED BY <1>1, Invariance, PTL DEF Spec, ResultsStay

-----------------------------------------------------------------------------
(* The stored object goes through StagePhases. *)

ViewType == [gone : BOOLEAN, spec : Seq(Stage), stages : Seq(StageStatus),
             succeededAt : Nat, failedAt : Nat]

\* What is seen of an object that is gone.
LEMMA GoneView ==
    ASSUME NEW o, o.gone
    PROVE  View(o) = Phases!Gone
BY DEF View, Phases!Gone

\* What is seen of one that is not.
LEMMA LiveView ==
    ASSUME NEW o \in Object, ~o.gone
    PROVE  /\ View(o) \in ViewType /\ View(o).gone = FALSE
           /\ View(o).spec = o.spec /\ View(o).stages = o.stages
           /\ View(o).succeededAt = o.succeededAt /\ View(o).failedAt = o.failedAt
<1>1. /\ o.spec \in Seq(Stage) /\ o.stages \in Seq(StageStatus)
      /\ o.succeededAt \in Nat /\ o.failedAt \in Nat
  BY ObjectTyped
<1>2. View(o) = [gone |-> FALSE, spec |-> o.spec, stages |-> o.stages,
                 succeededAt |-> o.succeededAt, failedAt |-> o.failedAt]
  BY DEF View
<1> HIDE DEF View
<1>. QED BY <1>1, <1>2 DEF ViewType

\* An object is gone if and only if it is seen to be.
LEMMA ViewGone ==
    ASSUME NEW o \in Object
    PROVE  View(o).gone = o.gone
BY ObjectTyped DEF View

\* Two views with the same fields are one.
LEMMA SameView ==
    ASSUME NEW p \in ViewType, NEW q \in ViewType, p.gone = q.gone, p.spec = q.spec,
           p.stages = q.stages, p.succeededAt = q.succeededAt, p.failedAt = q.failedAt
    PROVE  p = q
BY DEF ViewType

\* What the invariant says of a stage is what StagePhases says.
LEMMA PhasesOfStage ==
    ASSUME NEW s \in StageStatus
    PROVE  /\ Phases!Waiting(s) <=> Idle(s)
           /\ Phases!Over(s) <=> HasResult(s)
BY DEF Phases!Waiting, Phases!Over, Idle, HasResult

\* A stage stands at a time of the clock.
LEMMA PhasesRight ==
    ASSUME NEW s \in StageStatus, StageRight(s), now \in Nat
    PROVE  Phases!Right(s)
<1>1. s.scheduledAt \in Nat /\ s.finishedAt \in Nat
  BY StageTyped
<1>2. ~Idle(s) => s.scheduledAt \in 1..now
  BY <1>1 DEF StageRight
<1>3. HasResult(s) => ~s.running /\ s.finishedAt \in s.scheduledAt..now
  BY <1>1 DEF StageRight
<1>. QED BY <1>2, <1>3, PhasesOfStage DEF StageRight, Phases!Right

\* It goes on with its beginning and its result.
LEMMA PhasesGoes ==
    ASSUME NEW s \in StageStatus, NEW t \in StageStatus, Goes(s, t)
    PROVE  Phases!Goes(s, t)
BY PhasesOfStage DEF Goes, Phases!Goes

\* The stages of a version begin, and have results, in turn.
LEMMA PhasesInTurn ==
    ASSUME NEW h \in Object, InTurn(h), NEW q, q.stages = h.stages, q.spec = h.spec
    PROVE  Phases!InTurn(q)
<1>1. DOMAIN h.stages = 1..Len(h.stages) /\ Len(h.stages) \in Nat
  BY ObjectTyped
<1>2. ASSUME NEW i \in DOMAIN h.stages, NEW k \in 1..i - 1, h.spec[k].kind # "none"
      PROVE  /\ Phases!Over(h.stages[i]) => h.stages[k].succeeded
             /\ ~Phases!Waiting(h.stages[i]) => ~Phases!Waiting(h.stages[k])
  <2>1. k \in DOMAIN h.stages
    BY <1>1
  <2>2. h.stages[i] \in StageStatus /\ h.stages[k] \in StageStatus
    BY <2>1, ObjectTyped
  <2>. QED BY <1>2, <2>2, PhasesOfStage DEF InTurn, Asks
<1>3. \A i \in DOMAIN h.stages : Phases!Waiting(h.stages[i]) \/ h.spec[i].kind # "none"
  BY ObjectTyped, PhasesOfStage DEF InTurn, Asks
<1>. QED BY <1>2, <1>3 DEF Phases!InTurn

\* The view of a version replaces that of the one before it by an update, if its status
\* is sound and continues the one before it.
LEMMA UpdateOfViews ==
    ASSUME NEW p \in ViewType, NEW q \in ViewType, View(api) = p, View(api') = q, now' = now,
           p.gone = FALSE, q.gone = FALSE, q.spec = p.spec,
           Len(q.stages) \in {Len(p.stages), Len(p.spec)},
           \A i \in DOMAIN q.stages : Phases!Right(q.stages[i]),
           \A i \in DOMAIN p.stages : Phases!Goes(p.stages[i], q.stages[i]),
           Phases!InTurn(q), Phases!OutcomeRight(q),
           p.succeededAt # 0 => q.succeededAt # 0,
           p.failedAt # 0 => q.failedAt = p.failedAt
    PROVE  Phases!Update
<1>1. q = [p EXCEPT !.stages = q.stages, !.succeededAt = q.succeededAt,
                    !.failedAt = q.failedAt]
  BY DEF ViewType
<1>. QED BY <1>1 DEF Phases!Update

\* An accepted UpdateStatus call is an update: what the version that it sends has become
\* continues the version that is stored.
LEMMA AppliedImplements ==
    ASSUME Inv, NEW h \in Known, Applied(h), now' = now
    PROVE  Phases!Update
<1>1. api.rv = h.rv /\ api' = Answer(h) /\ ~api.gone
  BY DEF Applied, Put, Answer, Live
<1>2. PICK g : /\ g = Answer(h) /\ Sound(g) /\ g.stages = h.stages /\ Keeps(api, h)
               /\ g.spec = api.spec /\ g.gone = api.gone
               /\ g.succeededAt = h.succeededAt /\ g.failedAt = h.failedAt
  BY <1>1, AnswerFacts
<1>3. /\ api \in Object /\ Sound(api) /\ g \in Object /\ now \in Nat
  BY <1>2, VersionsTyped DEF Known, Versions, Sound, Inv, ControlTyped
<1>4. PICK p \in ViewType :
          /\ p = View(api) /\ p.gone = FALSE /\ p.spec = api.spec /\ p.stages = api.stages
          /\ p.succeededAt = api.succeededAt /\ p.failedAt = api.failedAt
  BY <1>1, <1>3, LiveView
<1>5. PICK q \in ViewType :
          /\ q = View(g) /\ q.gone = FALSE /\ q.spec = g.spec /\ q.stages = g.stages
          /\ q.succeededAt = g.succeededAt /\ q.failedAt = g.failedAt
  BY <1>1, <1>2, <1>3, LiveView
<1>6. View(api') = q
  BY <1>1, <1>2, <1>5
<1>7. Len(q.stages) \in {Len(p.stages), Len(p.spec)}
  <2>1. CASE g.stages = << >>
    <3>1. Len(g.stages) = 0 /\ DOMAIN g.stages = {}
      BY <2>1
    <3>2. DOMAIN api.stages = {}
      BY <1>2, <3>1 DEF Keeps
    <3>3. Len(api.stages) = 0
      BY <1>3, <3>2, ObjectTyped
    <3>. QED BY <1>4, <1>5, <3>1, <3>3
  <2>2. CASE g.stages # << >>
    BY <1>2, <1>4, <1>5, <2>2 DEF Sound, Listed, Complete
  <2>. QED BY <2>1, <2>2
<1>8. ASSUME NEW i \in DOMAIN q.stages
      PROVE  Phases!Right(q.stages[i])
  <2>1. i \in DOMAIN g.stages /\ q.stages[i] = g.stages[i]
    BY <1>5
  <2>2. g.stages[i] \in StageStatus /\ StageRight(g.stages[i])
    BY <1>2, <1>3, <2>1, ObjectTyped DEF Sound
  <2>. QED BY <1>3, <2>1, <2>2, PhasesRight
<1>9. ASSUME NEW i \in DOMAIN p.stages
      PROVE  Phases!Goes(p.stages[i], q.stages[i])
  <2>1. i \in DOMAIN api.stages /\ i \in DOMAIN h.stages /\ Goes(api.stages[i], h.stages[i])
    BY <1>2, <1>4 DEF Keeps
  <2>2. p.stages[i] = api.stages[i] /\ q.stages[i] = h.stages[i]
    BY <1>2, <1>4, <1>5
  <2>3. api.stages[i] \in StageStatus /\ h.stages[i] \in StageStatus
    BY <1>2, <1>3, <2>1, ObjectTyped
  <2>. QED BY <2>1, <2>2, <2>3, PhasesGoes
<1>10. Phases!InTurn(q)
  BY <1>2, <1>3, <1>5, PhasesInTurn DEF Sound
<1>11. Phases!OutcomeRight(q)
  <2>1. OutcomeRight(g)
    BY <1>2 DEF Sound
  <2>. QED BY <1>5, <2>1 DEF OutcomeRight, Complete, Asks, Phases!OutcomeRight
<1>12. /\ p.succeededAt # 0 => q.succeededAt # 0
       /\ p.failedAt # 0 => q.failedAt = p.failedAt
  BY <1>2, <1>4, <1>5 DEF Keeps
<1>13. q.spec = p.spec
  BY <1>2, <1>4, <1>5
<1>. QED BY <1>4, <1>5, <1>6, <1>7, <1>8, <1>9, <1>10, <1>11, <1>12, <1>13, UpdateOfViews

\* A creation, as StagePhases has it.
LEMMA CreateImplements ==
    ASSUME Inv, Create
    PROVE  Phases!Create
<1>1. api \in Object
  BY VersionsTyped DEF Known, Versions
<1>2. now' = now /\ api.gone
  BY DEF Create, UserOp, Live
<1>3. PICK s \in Specs : Put([Nothing EXCEPT !.uid = api.uid + 1, !.gone = FALSE,
                                             !.created = now, !.spec = s])
  BY DEF Create
<1>4. PICK o : o = [Nothing EXCEPT !.uid = api.uid + 1, !.gone = FALSE,
                                   !.created = now, !.spec = s]
  OBVIOUS
<1>5. PICK g \in Object : /\ g = Stored(o) /\ g.gone = FALSE /\ g.spec = s
                          /\ g.stages = << >> /\ g.succeededAt = 0 /\ g.failedAt = 0
  <2> DEFINE t == Stored(o)
  <2>1. /\ t \in Object /\ t.gone = FALSE /\ t.spec = s
        /\ t.stages = << >> /\ t.succeededAt = 0 /\ t.failedAt = 0
    BY <1>4, CreatedFacts
  <2> HIDE DEF t
  <2>. QED BY <2>1 DEF t
<1>6. PICK q \in ViewType :
          /\ q = View(g) /\ q.gone = FALSE /\ q.spec = s /\ q.stages = << >>
          /\ q.succeededAt = 0 /\ q.failedAt = 0
  BY <1>5, LiveView
<1>7. q = [Phases!Gone EXCEPT !.gone = FALSE, !.spec = s]
  <2>1. PICK r : r = [Phases!Gone EXCEPT !.gone = FALSE, !.spec = s]
    OBVIOUS
  <2>2. r = [gone |-> FALSE, spec |-> s, stages |-> << >>, succeededAt |-> 0, failedAt |-> 0]
    BY <2>1 DEF Phases!Gone
  <2>3. << >> \in Seq(StageStatus) /\ s \in Seq(Stage)
    BY <1>6 DEF ViewType
  <2>4. /\ r \in ViewType /\ r.gone = FALSE /\ r.spec = s /\ r.stages = << >>
        /\ r.succeededAt = 0 /\ r.failedAt = 0
    BY <2>2, <2>3 DEF ViewType
  <2>5. q = r
    BY <1>6, <2>4, SameView
  <2>. QED BY <2>1, <2>5
<1>8. View(api') = [Phases!Gone EXCEPT !.gone = FALSE, !.spec = s]
  <2>1. api' = Stored(o)
    BY <1>3, <1>4 DEF Put
  <2>. QED BY <1>5, <1>6, <1>7, <2>1
<1>9. View(api).gone
  BY <1>1, <1>2, ViewGone
<1>. QED BY <1>2, <1>8, <1>9 DEF Phases!Create

\* Every step is, for the stored object, one of StagePhases or none.
LEMMA PhasesStep ==
    ASSUME Inv, [Next]_vars
    PROVE  [Phases!Next]_(Phases!pvars)
<1>. USE DEF rec, worker, sched, cluster, bounds
<1>1. CASE Create
  BY <1>1, CreateImplements DEF Phases!Next
<1>2. CASE Delete \/ CollectGarbage
  <2>1. api \in Object
    BY VersionsTyped DEF Known, Versions
  <2>2. PICK o \in {[api EXCEPT !.gone = TRUE], [api EXCEPT !.deleting = TRUE]} :
            api' = Stored(o)
    BY <1>2, DeletionStores
  <2>3. PICK g \in Object : /\ g = Stored(o) /\ g.spec = api.spec /\ g.stages = api.stages
                            /\ g.succeededAt = api.succeededAt /\ g.failedAt = api.failedAt
    BY DeletedFacts
  <2>4. api' = g /\ ~api.gone /\ now' = now
    BY <1>2, <2>2, <2>3, DeletionStores
  <2>5. CASE g.gone
    <3>1. View(api') = Phases!Gone /\ ~View(api).gone
      BY <2>1, <2>4, <2>5, GoneView, ViewGone
    <3>2. Phases!Delete
      BY <2>4, <3>1 DEF Phases!Delete
    <3>. QED BY <3>2 DEF Phases!Next
  <2>6. CASE ~g.gone
    <3>1. /\ View(g) \in ViewType /\ View(g).gone = FALSE
          /\ View(g).spec = g.spec /\ View(g).stages = g.stages
          /\ View(g).succeededAt = g.succeededAt /\ View(g).failedAt = g.failedAt
      BY <2>6, LiveView
    <3>2. /\ View(api) \in ViewType /\ View(api).gone = FALSE
          /\ View(api).spec = api.spec /\ View(api).stages = api.stages
          /\ View(api).succeededAt = api.succeededAt /\ View(api).failedAt = api.failedAt
      BY <2>1, <2>4, LiveView
    <3>3. View(g) = View(api)
      BY <2>3, <3>1, <3>2, SameView
    <3>. QED BY <2>4, <3>3 DEF Phases!pvars
  <2>. QED BY <2>5, <2>6
<1>3. CASE Tick
  <2>1. Phases!Tick
    BY <1>3 DEF Tick, Phases!Tick
  <2>. QED BY <2>1 DEF Phases!Next
<1>4. CASE UNCHANGED <<now, api>>
  BY <1>4 DEF Phases!pvars
<1>5. CASE SendStages \/ Send \/ SendOn
  <2>1. PICK h \in Known : Applied(h) \/ CallFails(h)
    BY <1>5 DEF SendStages, Send, SendOn, Known, Versions
  <2>2. now' = now
    BY <1>5 DEF SendStages, Send, SendOn
  <2>3. Applied(h) \/ UNCHANGED api
    BY <2>1 DEF CallFails
  <2>4. CASE Applied(h)
    BY <2>2, <2>4, AppliedImplements DEF Phases!Next
  <2>. QED BY <1>4, <2>2, <2>3, <2>4
<1>6. CASE Cluster \/ Informer \/ Wake \/ \E a \in delayed : FireDelayed(a)
  BY <1>4, <1>6 DEF Cluster, JobEnds, CollectJob, Informer, Deliver, Announce, Wake, FireDelayed
<1>7. CASE \/ \E a \in JobActions : HandleWithoutCache(a)
           \/ OnMaintenanceJobAdded \/ LookAtNoStage \/ OnMaintenanceJobUpdated
           \/ OnMaintenanceJobDeleted \/ FindPending \/ DropCached \/ EnqueueAdded \/ Retry
  BY <1>4, <1>7 DEF HandleWithoutCache, OnMaintenanceJobAdded, OnMaintenanceJobUpdated,
                    OnMaintenanceJobDeleted, FindPending, DropCached, LookAtNoStage, Restarted,
                    EnqueueAdded, Retry, Acquire
<1>8. CASE \/ StartPass \/ EnqueueAgain \/ PassEnds \/ RecordFailed \/ RecordSucceeded
           \/ SkipStage \/ PassOver \/ TimeOut \/ Drained \/ UncordonNodes
           \/ Begin \/ StartJob \/ CreateJob
  BY <1>4, <1>8 DEF StartPass, EnqueueAgain, PassEnds, RecordFailed, RecordSucceeded, SkipStage,
         PassOver, TimeOut, Drained, UncordonNodes, Begin, StartJob, CreateJob, Restarted
<1>9. CASE (\E i \in Positions : OnJobUpdated(i)) \/ Crash \/ UNCHANGED vars
  BY <1>4, <1>9 DEF OnJobUpdated, NeedToUpdate, Crash, Restarted, vars
<1>10. CASE ListNodes \/ ListFails \/ \E n \in Nodes : TaintNode(n) \/ TaintFails(n)
  BY <1>4, <1>10, TaintSteps
<1>. QED BY <1>1, <1>2, <1>3, <1>5, <1>6, <1>7, <1>8, <1>9, <1>10
         DEF Next, Worker, Pass, Scheduler

\* The stages of the stored object begin in turn and once, have one result each, in turn,
\* and make up the outcome, as StagePhases says: through passes on old versions, second
\* entries in the timeout queue, updates that fail or whose answer is lost, and restarts.
THEOREM MaintenanceJobImplementsPhases == Spec => ImplementsPhases
<1>1. Init => Phases!Init
  <2>1. Nothing.gone
    BY DEF Nothing
  <2>. QED BY <2>1, GoneView DEF Init, Phases!Init
<1>2. Inv /\ [Next]_vars => [Phases!Next]_(Phases!pvars)
  BY PhasesStep
<1>. QED BY <1>1, <1>2, Invariance, PTL DEF Spec, ImplementsPhases, Phases!Spec
=============================================================================
