---------------------------- MODULE JobTemplate ----------------------------
(***************************************************************************)
(* What a MaintenanceJob is generated with for a node: the stages of the   *)
(* snapshot, their pods bound to the node, and the environment whose       *)
(* config maps and secrets are named after fields of the node.             *)
(*                                                                         *)
(* A text is a sequence of parts, so that appending texts is \o, the empty *)
(* text is << >>, and a format with one verb is the text in front of it.   *)
(* An optional value is a sequence of at most one element.  A node is the  *)
(* function from the field paths that can be extracted to their texts.     *)
(***************************************************************************)
EXTENDS Naturals, Sequences, FiniteSets

Nil == << >>

-----------------------------------------------------------------------------
(* Validation of a spec's environment, at enqueuing. *)

\* A reference needs a name, or the path of the field it is taken from.
ValidateName(ref) == ref.name # Nil \/ (ref.nameFrom # Nil /\ ref.nameFrom[1] # "")

ValidateNameAndValue(ref) ==
    /\ ValidateName(ref)
    /\ ref.key # Nil \/ (ref.keyFrom # Nil /\ ref.keyFrom[1] # "")

ValidateValueFrom(e) ==
    IF e.configMapKeyRef # Nil THEN ValidateNameAndValue(e.configMapKeyRef[1])
    ELSE e.secretKeyRef # Nil /\ ValidateNameAndValue(e.secretKeyRef[1])

ValidateEnvVar(e) == e.name # "" /\ (e.value # Nil \/ ValidateValueFrom(e))

ValidateEnvFrom(e) ==
    IF e.configMapRef # Nil THEN ValidateName(e.configMapRef[1])
    ELSE e.secretRef # Nil /\ ValidateName(e.secretRef[1])

-----------------------------------------------------------------------------
(* Resolving an environment for a node. *)

\* How taking a text from a field of the node ends, when it is not given: there is
\* no such field ("error"), or the missing path is dereferenced ("panic").
ExtractNodeFieldPath(node, text, from) ==
    IF text # Nil THEN "ok"
    ELSE IF from = Nil THEN "panic"
    ELSE IF from[1] \in DOMAIN node THEN "ok" ELSE "error"

\* The text itself, where that ends well.
Resolved(node, text, from, format) == format \o (IF text # Nil THEN text ELSE node[from[1]])

NameOf(node, ref) == Resolved(node, ref.name, ref.nameFrom, ref.nameFormat)
KeyOf(node, ref) == Resolved(node, ref.key, ref.keyFrom, ref.keyFormat)

\* CreatePodEnvVarFromNodeSpecificEnv: how it ends.  It looks at the references
\* only, also when a value is given.
EnvVarOutcome(node, e) ==
    LET refs == IF e.configMapKeyRef # Nil THEN e.configMapKeyRef ELSE e.secretKeyRef
        ref == refs[1]
        name == ExtractNodeFieldPath(node, ref.name, ref.nameFrom)
    IN  IF refs = Nil THEN "panic"
        ELSE IF name # "ok" THEN name
        ELSE ExtractNodeFieldPath(node, ref.key, ref.keyFrom)

\* And the variable it returns: the key of a secret is set to the secret's name.
EnvVarFromNode(node, e) ==
    IF e.configMapKeyRef # Nil
    THEN [name |-> e.name, source |-> "configMap",
          object |-> NameOf(node, e.configMapKeyRef[1]), key |-> KeyOf(node, e.configMapKeyRef[1])]
    ELSE [name |-> e.name, source |-> "secret",
          object |-> NameOf(node, e.secretKeyRef[1]), key |-> NameOf(node, e.secretKeyRef[1])]

\* CreatePodEnvSourceFromNodeSpecificEnvFrom: with both references, the name is that
\* of the config map, but a secret is returned.
EnvFromOutcome(node, e) ==
    LET refs == IF e.configMapRef # Nil THEN e.configMapRef ELSE e.secretRef
    IN  IF refs = Nil THEN "panic" ELSE ExtractNodeFieldPath(node, refs[1].name, refs[1].nameFrom)

EnvFromOfNode(node, e) ==
    [prefix |-> e.prefix, source |-> IF e.secretRef # Nil THEN "secret" ELSE "configMap",
     object |-> NameOf(node, IF e.configMapRef # Nil THEN e.configMapRef[1] ELSE e.secretRef[1])]

\* The outcome of the two loops over the environment of a spec: the first that is
\* not "ok", if any.
EnvOutcome(node, spec) ==
    LET outcomes == [i \in DOMAIN spec.env |-> EnvVarOutcome(node, spec.env[i])] \o
                    [i \in DOMAIN spec.envFrom |-> EnvFromOutcome(node, spec.envFrom[i])]
        bad == {i \in DOMAIN outcomes : outcomes[i] # "ok"}
    IN  IF bad = {} THEN "ok" ELSE outcomes[CHOOSE i \in bad : \A j \in bad : i <= j]

-----------------------------------------------------------------------------
(* Merging the environment of a container with that of the node. *)

\* Of several elements of b with a key, kb, the last one counts.
Counting(b, kb) ==
    {j \in DOMAIN b : kb[j] # Nil /\ \A h \in DOMAIN b : kb[h] = kb[j] => h <= j}

\* The n-th smallest number of a set.
Nth(S, n) == CHOOSE j \in S : Cardinality({h \in S : h <= j}) = n

\* The one of b that counts and has the key of element i of a, if no element of a
\* before it has this key.
Overriding(ka, b, kb, i) ==
    {j \in Counting(b, kb) : kb[j] = ka[i] /\ \A h \in 1..i - 1 : ka[h] # ka[i]}

\* Those of b that count and override nothing.
Remains(ka, b, kb) == {j \in Counting(b, kb) : \A i \in DOMAIN ka : ka[i] # kb[j]}

\* The list a, with keys ka, overridden by the list b, with keys kb.  What overrides
\* nothing comes last, in the order of b.
Merged(a, ka, b, kb) ==
    [i \in DOMAIN a |->
        LET over == Overriding(ka, b, kb, i)
        IN  IF over = {} THEN a[i] ELSE b[CHOOSE j \in over : TRUE]] \o
    [n \in 1..Cardinality(Remains(ka, b, kb)) |-> b[Nth(Remains(ka, b, kb), n)]]

mergeEnv(a, b) ==
    Merged(a, [i \in DOMAIN a |-> <<a[i].name>>], b, [i \in DOMAIN b |-> <<b[i].name>>])

\* Sources are told apart by kind, name and prefix put together.
SourceKey(e) ==
    IF e.source = "configMap" THEN <<"cm">> \o e.object \o e.prefix
    ELSE IF e.source = "secret" THEN <<"sec">> \o e.object \o e.prefix
    ELSE Nil

mergeEnvFrom(a, b) ==
    Merged(a, [i \in DOMAIN a |-> SourceKey(a[i])], b, [i \in DOMAIN b |-> SourceKey(b[i])])

-----------------------------------------------------------------------------
(* generateMaintenanceJob. *)

\* The author of a pod has chosen where it runs.
Pinned(pod) == pod.nodeAffinity \/ pod.nodeName # Nil \/ pod.nodeSelector

\* The pod of a stage for a node: bound to it unless pinned, never restarted, all its
\* containers with the environment of the node.
PodOnNode(pod, nodeName, tolerations, env, envFrom) ==
    [nodeAffinity |-> pod.nodeAffinity, nodeSelector |-> pod.nodeSelector,
     nodeName |-> IF Pinned(pod) THEN pod.nodeName ELSE <<nodeName>>,
     tolerations |-> IF Pinned(pod) THEN pod.tolerations ELSE tolerations,
     restartPolicy |-> "Never",
     containers |-> [c \in DOMAIN pod.containers |->
        [env |-> mergeEnv(pod.containers[c].env, env),
         envFrom |-> mergeEnvFrom(pod.containers[c].envFrom, envFrom)]]]

\* The stages of the MaintenanceJob of a node.
StagesOnNode(spec, nodeName, node, defaultTimeout) ==
    LET env == [i \in DOMAIN spec.env |-> EnvVarFromNode(node, spec.env[i])]
        envFrom == [i \in DOMAIN spec.envFrom |-> EnvFromOfNode(node, spec.envFrom[i])]
    IN  [s \in DOMAIN spec.stages |->
            [timeout |-> IF spec.stages[s].timeout = 0 THEN defaultTimeout
                         ELSE spec.stages[s].timeout,
             pod |-> [i \in DOMAIN spec.stages[s].pod |->
                PodOnNode(spec.stages[s].pod[i], nodeName, spec.tolerations, env, envFrom)]]]
=============================================================================
