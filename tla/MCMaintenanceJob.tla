-------------------------- MODULE MCMaintenanceJob --------------------------
(***************************************************************************)
(* Instances of MaintenanceJob for TLC: the stages of MaintenanceJobs.     *)
(***************************************************************************)
EXTENDS MaintenanceJob

CONSTANTS n1, n2  \* nodes

BothNodes == {n1, n2}
OneNode == {n1}

\* The stage times out after the given time.
Drain(timeout, nodes) ==
    [kind |-> "drain", delay |-> 0, timeout |-> timeout, nodes |-> nodes]
Uncordon == [kind |-> "uncordon", delay |-> 0, timeout |-> 1, nodes |-> {}]
Pod(delay) == [kind |-> "pod", delay |-> delay, timeout |-> 1, nodes |-> {}]
NoKind == [kind |-> "none", delay |-> 0, timeout |-> 1, nodes |-> {}]

\* Drain stages that may time out, with a stage that asks for nothing between them; a
\* stage that cannot be carried out; and no stage at all.
DrainSpecs ==
    {<<Drain(1, {n1}), NoKind, Drain(0, BothNodes)>>, <<Uncordon>>, << >>}
\* A drain that has time enough, and pods.
PodSpecs == {<<NoKind, Pod(1)>>, <<Drain(9, {n1}), Pod(0)>>}
OneDrain == {<<Drain(0, {n1})>>}
OnePod == {<<Drain(9, {n1}), Pod(0)>>}

\* Bounds the disturbances of a behaviour: the more of them, the earlier it ends.
FewDisturbances == now + userOps + 2 * (errors + lost + crashes) <= 7
\* Nothing is deleted where calls fail and the process restarts.
UsersOrFaults == userOps <= 1 \/ errors + lost + crashes = 0
=============================================================================
