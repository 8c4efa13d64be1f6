----------------------------- MODULE StagePhases -----------------------------
(***************************************************************************)
(* What the controller promises of a stored MaintenanceJob, whatever its   *)
(* goroutines, its caches, failing calls and restarts do:                  *)
(*   - its stages begin one behind the other, and none of them twice;      *)
(*   - a stage gets one result, not before it has begun, and only when all *)
(*     stages before it that ask for something have succeeded; the result  *)
(*     stays;                                                              *)
(*   - no stage is both a success and a failure, so that an outcome of the *)
(*     whole is one or the other.  A failure is recorded with the time of  *)
(*     the stage that failed, a success with that of one of the stages.    *)
(* One update may carry several of these, since those before it may have   *)
(* failed.                                                                 *)
(***************************************************************************)
EXTENDS Naturals, Sequences

CONSTANTS Specs

VARIABLES
    now,     \* the clock
    object   \* the stored object, or one that is gone

pvars == <<now, object>>

Gone == [gone |-> TRUE, spec |-> << >>, stages |-> << >>, succeededAt |-> 0, failedAt |-> 0]

Over(s) == s.succeeded \/ s.failed
Waiting(s) == ~s.running /\ ~Over(s)

\* How a stage may stand at this time.
Right(s) ==
    /\ ~Waiting(s) => s.scheduledAt \in 1..now
    /\ Over(s) => ~s.running /\ s.finishedAt \in s.scheduledAt..now
    /\ ~Over(s) => s.finishedAt = 0
    /\ ~(s.succeeded /\ s.failed)

\* How a stage may go on.
Goes(s, t) ==
    /\ Over(s) => t = s
    /\ ~Waiting(s) => ~Waiting(t) /\ t.scheduledAt = s.scheduledAt

\* A stage of no kind asks for nothing: it never begins, and the others do not wait
\* for it.
InTurn(o) ==
    \A i \in DOMAIN o.stages :
        /\ Waiting(o.stages[i]) \/ o.spec[i].kind # "none"
        /\ \A k \in 1..i - 1 :
              o.spec[k].kind # "none" =>
                  /\ Over(o.stages[i]) => o.stages[k].succeeded
                  /\ ~Waiting(o.stages[i]) => ~Waiting(o.stages[k])

OutcomeRight(o) ==
    /\ o.succeededAt # 0 =>
         /\ Len(o.stages) = Len(o.spec)
         /\ \A i \in DOMAIN o.stages : o.spec[i].kind # "none" => o.stages[i].succeeded
         /\ \E i \in DOMAIN o.stages : o.stages[i].finishedAt = o.succeededAt
    /\ o.failedAt # 0 =>
         \E i \in DOMAIN o.stages : o.stages[i].failed /\ o.stages[i].finishedAt = o.failedAt

Init == now = 1 /\ object = Gone

Tick == now' = now + 1 /\ UNCHANGED object

Create ==
    /\ object.gone
    /\ \E s \in Specs : object' = [Gone EXCEPT !.gone = FALSE, !.spec = s]
    /\ UNCHANGED now

Delete == ~object.gone /\ object' = Gone /\ UNCHANGED now

\* The status is replaced; the first time it gets all of its stages.
Update ==
    /\ ~object.gone
    /\ object' = [object EXCEPT !.stages = object'.stages,
                                !.succeededAt = object'.succeededAt,
                                !.failedAt = object'.failedAt]
    /\ Len(object'.stages) \in {Len(object.stages), Len(object.spec)}
    /\ \A i \in DOMAIN object'.stages : Right(object'.stages[i])
    /\ \A i \in DOMAIN object.stages : Goes(object.stages[i], object'.stages[i])
    /\ InTurn(object')
    /\ OutcomeRight(object')
    /\ object.succeededAt # 0 => object'.succeededAt # 0
    /\ object.failedAt # 0 => object'.failedAt = object.failedAt
    /\ UNCHANGED now

Next == Tick \/ Create \/ Delete \/ Update

Spec == Init /\ [][Next]_pvars
=============================================================================
