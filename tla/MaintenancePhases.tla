-------------------------- MODULE MaintenancePhases --------------------------
(***************************************************************************)
(* What the controller promises of a stored Maintenance object, whatever   *)
(* its goroutines, its caches, failing calls and restarts do:              *)
(*   created -> admitted -> scheduled -> finished                          *)
(* in this order, on one incarnation of the object.                        *)
(*   - Once admitted, the window is fixed: later changes of the schedule   *)
(*     do not move it.                                                     *)
(*   - Scheduled and finished only happen to an admitted object that is    *)
(*     not being deleted, scheduled not before the window opens, finished  *)
(*     not before it closes.                                               *)
(*   - The snapshot is the spec stored at the instant it is stored.  It is *)
(*     never taken again, and later changes of the spec do not reach it.   *)
(*   - An object that is finished stays as it is, up to its deletion.      *)
(***************************************************************************)
EXTENDS Naturals

CONSTANTS Names, Specs, NoSpec

VARIABLES
    now,     \* the clock
    object   \* the stored object of each name, or one that is gone

pvars == <<now, object>>

Created(s) == [gone |-> FALSE, deleting |-> FALSE, spec |-> s,
               admitted |-> FALSE, since |-> 0, until |-> 0,
               snapshot |-> NoSpec, finished |-> FALSE]

Gone == [Created(NoSpec) EXCEPT !.gone = TRUE]

Init == now = 1 /\ object = [m \in Names |-> Gone]

Change(m, o) == object' = [object EXCEPT ![m] = o] /\ UNCHANGED now

Tick == now' = now + 1 /\ UNCHANGED object

Create(m) ==
    /\ object[m].gone
    /\ \E s \in Specs : Change(m, Created(s))

Edit(m) ==
    /\ ~object[m].gone
    /\ \E s \in Specs : Change(m, [object[m] EXCEPT !.spec = s])

Mark(m) ==
    /\ ~object[m].gone
    /\ Change(m, [object[m] EXCEPT !.deleting = TRUE])

Remove(m) ==
    /\ ~object[m].gone
    /\ Change(m, Gone)

\* Some window: the one the new state has.
Admit(m) ==
    /\ ~object[m].gone /\ ~object[m].admitted
    /\ LET w == object'[m] IN
        /\ w.since < w.until
        /\ Change(m, [object[m] EXCEPT !.admitted = TRUE,
                                       !.since = w.since, !.until = w.until])

Schedulable(o) ==
    /\ ~o.gone /\ ~o.deleting
    /\ o.admitted /\ o.since <= now
    /\ o.snapshot = NoSpec /\ ~o.finished

Schedule(m) ==
    /\ Schedulable(object[m])
    /\ Change(m, [object[m] EXCEPT !.snapshot = object[m].spec])

\* A snapshot that never reached the API server may be stored by the update
\* that finishes the object.
Finish(m) ==
    /\ ~object[m].gone /\ ~object[m].deleting
    /\ object[m].admitted /\ object[m].until < now
    /\ ~object[m].finished
    /\ \/ Change(m, [object[m] EXCEPT !.finished = TRUE])
       \/ /\ Schedulable(object[m])
          /\ Change(m, [object[m] EXCEPT !.finished = TRUE, !.snapshot = object[m].spec])

Next ==
    \/ Tick
    \/ \E m \in Names : \/ Create(m) \/ Edit(m) \/ Mark(m) \/ Remove(m)
                        \/ Admit(m) \/ Schedule(m) \/ Finish(m)

Spec == Init /\ [][Next]_pvars
=============================================================================
