----------------------------- MODULE MCDispatch -----------------------------
(***************************************************************************)
(* Instances of Dispatch for TLC.                                          *)
(***************************************************************************)
EXTENDS Dispatch

\* The name of the second node is that of the first with a suffix.
TwoNodes == {[base |-> "a", suffix |-> << >>], [base |-> "a", suffix |-> <<2>>]}

Plain == [depends |-> {}, nodes |-> {}, tolerates |-> FALSE, env |-> << >>, envFrom |-> << >>]

\* For one of the nodes only.
Alone(s) == [s EXCEPT !.nodes = {[base |-> "a", suffix |-> << >>]}]

DependsOn(m, individual, condition) ==
    [Plain EXCEPT !.depends = {[on |-> m, individual |-> individual, condition |-> condition]}]

\* m2 depends on m1, as a whole or node by node.
Whole == [m1 |-> Alone(Plain), m2 |-> Alone(DependsOn("m1", FALSE, "succeeded"))]
Individual == [m1 |-> Alone(Plain), m2 |-> DependsOn("m1", TRUE, "failed")]

\* Environments that cannot be resolved: from a field no node has, and from nothing but
\* a plain value.
NoSuchField == [name |-> "E", value |-> Nil, secretKeyRef |-> Nil,
    configMapKeyRef |-> <<[name |-> Nil, nameFrom |-> <<"hostname">>, nameFormat |-> Nil,
                           key |-> <<"k">>, keyFrom |-> Nil, keyFormat |-> Nil]>>]
ValueOnly == [NoSuchField EXCEPT !.value = <<"v">>, !.configMapKeyRef = Nil]

\* The nodes report one id, which was cloned, or one each.
Cloned == [n \in Nodes |-> 1]
Own == [n \in Nodes |-> 1 + Len(n.suffix)]

Scenario(spec0, machines, c, e, r) ==
    [spec |-> spec0, machines |-> machines, changes |-> c, errors |-> e, crashes |-> r]
AllScenarios ==
    {Scenario(Whole, {Own}, 1, 1, 0),
     Scenario(Individual, {Own, Cloned}, 0, 1, 1),
     Scenario([m2 |-> Plain], {Own, Cloned}, 1, 1, 1),
     Scenario([m2 |-> Alone(Plain)], {Own}, 2, 1, 1)} \cup
    {Scenario([m2 |-> [Plain EXCEPT !.env = <<e>>]], {Own}, 1, 0, 1) :
        e \in {NoSuchField, ValueOnly}}
=============================================================================
