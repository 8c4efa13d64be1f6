------------------------- MODULE JobTemplateProofs -------------------------
(***************************************************************************)
(* What a MaintenanceJob is generated with, for every spec, node and pod:  *)
(* nothing of an environment is lost when it is merged, that of the node   *)
(* takes precedence, and which validated environments can be resolved.     *)
(***************************************************************************)
EXTENDS JobTemplate, FiniteSetTheorems, SequenceTheorems, TLAPS

-----------------------------------------------------------------------------
(* Counting through a set of numbers. *)

\* The rank of a number in a set: how many there are up to it.
Rank(S, j) == Cardinality({h \in S : h <= j})

\* A finite set of numbers is ranked from 1 to its cardinality, without ties.
LEMMA RankProperties ==
    ASSUME NEW S, S \subseteq Nat, IsFiniteSet(S)
    PROVE  /\ \A j \in S : Rank(S, j) \in 1..Cardinality(S)
           /\ \A j, k \in S : Rank(S, j) = Rank(S, k) => j = k
<1>1. ASSUME NEW j \in S
      PROVE  /\ IsFiniteSet({h \in S : h <= j})
             /\ Rank(S, j) \in 1..Cardinality(S)
  <2> DEFINE T == {h \in S : h <= j}
  <2>1. T \in SUBSET S /\ j \in T
    OBVIOUS
  <2>2. IsFiniteSet(T) /\ Cardinality(T) <= Cardinality(S)
    BY <2>1, FS_Subset
  <2>3. Cardinality(T) \in Nat /\ Cardinality(S) \in Nat
    BY <2>2, FS_CardinalityType
  <2>4. Cardinality(T) # 0
    BY <2>1, <2>2, FS_EmptySet
  <2>. QED BY <2>2, <2>3, <2>4 DEF Rank
<1>2. ASSUME NEW j \in S, NEW k \in S, Rank(S, j) = Rank(S, k), j <= k
      PROVE  j = k
  <2>. j \in Nat /\ k \in Nat /\ \A h \in S : h \in Nat
    OBVIOUS
  <2>1. \A h \in S : h <= j => h <= k
    BY <1>2
  <2>2. {h \in S : h <= j} \in SUBSET {h \in S : h <= k}
    BY <2>1
  <2>3. {h \in S : h <= k} = {h \in S : h <= j}
    BY <1>1, <1>2, <2>2, FS_Subset DEF Rank
  <2>4. k \in {h \in S : h <= j}
    BY <2>3
  <2>. QED BY <1>2, <2>4
<1>3. \A j, k \in S : j <= k \/ k <= j
  OBVIOUS
<1>. QED BY <1>1, <1>2, <1>3

\* Every number up to the cardinality is a rank.
LEMMA RankOnto ==
    ASSUME NEW S, S \subseteq Nat, IsFiniteSet(S), NEW n \in 1..Cardinality(S)
    PROVE  \E j \in S : Rank(S, j) = n
<1> DEFINE f == [j \in S |-> Rank(S, j)]
           N == Cardinality(S)
<1>0. /\ \A j \in S : Rank(S, j) \in 1..N
      /\ \A j, k \in S : Rank(S, j) = Rank(S, k) => j = k
  BY RankProperties
<1>1. N \in Nat
  BY FS_CardinalityType
<1>2. f \in Injection(S, 1..N)
  BY <1>0 DEF Injection, IsInjective
<1>3. IsFiniteSet(1..N) /\ Cardinality(1..N) = N
  BY <1>1, FS_Interval
<1>4. Range(f) \in SUBSET (1..N)
  BY <1>0 DEF Range
<1>5. f \in Bijection(S, Range(f))
  BY <1>2 DEF Injection, Bijection, Surjection, IsInjective, Range
<1>6. Cardinality(Range(f)) = N
  BY <1>3, <1>4, <1>5, FS_Subset, FS_Bijection DEF ExistsBijection
<1>7. Range(f) = 1..N
  BY <1>3, <1>4, <1>6, FS_Subset
<1>. QED BY <1>7 DEF Range

\* Nth is the inverse of the rank.
LEMMA NthProperties ==
    ASSUME NEW S, S \subseteq Nat, IsFiniteSet(S)
    PROVE  /\ \A n \in 1..Cardinality(S) : Nth(S, n) \in S
           /\ \A j \in S : \E n \in 1..Cardinality(S) : Nth(S, n) = j
           /\ \A n, p \in 1..Cardinality(S) : Nth(S, n) = Nth(S, p) => n = p
<1>1. ASSUME NEW n \in 1..Cardinality(S)
      PROVE  Nth(S, n) \in S /\ Rank(S, Nth(S, n)) = n
  <2>1. \E j \in S : Rank(S, j) = n
    BY RankOnto
  <2>. QED BY <2>1 DEF Nth, Rank
<1>2. /\ \A j \in S : Rank(S, j) \in 1..Cardinality(S)
      /\ \A j, k \in S : Rank(S, j) = Rank(S, k) => j = k
  BY RankProperties
<1>. QED BY <1>1, <1>2

-----------------------------------------------------------------------------
(* Merging two lists. *)

\* The elements that count are positions of the second list, one for each of its keys.
LEMMA CountingProperties ==
    ASSUME NEW S, NEW b \in Seq(S), NEW kb
    PROVE  /\ Counting(b, kb) \subseteq 1..Len(b)
           /\ \A j, k \in Counting(b, kb) : kb[j] = kb[k] => j = k
<1>1. DOMAIN b = 1..Len(b) /\ Len(b) \in Nat
  OBVIOUS
<1>. QED BY <1>1 DEF Counting

\* What a merged list consists of: the first list with its replacements, followed by
\* what remains of the second, in its order.
Shape(r, a, ka, b, kb) ==
    LET R == Remains(ka, b, kb)
    IN  /\ R \subseteq Nat /\ IsFiniteSet(R) /\ Cardinality(R) \in Nat
        /\ Len(r) = Len(a) + Cardinality(R)
        /\ \A i \in 1..Len(a) :
              r[i] = IF Overriding(ka, b, kb, i) = {} THEN a[i]
                     ELSE b[CHOOSE j \in Overriding(ka, b, kb, i) : TRUE]
        /\ \A n \in 1..Cardinality(R) : r[Len(a) + n] = b[Nth(R, n)]

LEMMA MergedShape ==
    ASSUME NEW S, NEW a \in Seq(S), NEW b \in Seq(S), NEW ka, NEW kb,
           DOMAIN ka = DOMAIN a
    PROVE  Merged(a, ka, b, kb) \in Seq(S) /\ Shape(Merged(a, ka, b, kb), a, ka, b, kb)
<1> DEFINE R == Remains(ka, b, kb)
           c == Cardinality(R)
           over(i) == Overriding(ka, b, kb, i)
           at(i) == IF over(i) = {} THEN a[i] ELSE b[CHOOSE j \in over(i) : TRUE]
           f == [i \in DOMAIN a |-> at(i)]
           g == [n \in 1..c |-> b[Nth(R, n)]]
<1>1. Merged(a, ka, b, kb) = f \o g
  BY DEF Merged
<1>2. /\ DOMAIN a = 1..Len(a) /\ Len(a) \in Nat /\ \A i \in 1..Len(a) : a[i] \in S
      /\ DOMAIN b = 1..Len(b) /\ Len(b) \in Nat /\ \A j \in 1..Len(b) : b[j] \in S
  OBVIOUS
<1>3. R \subseteq 1..Len(b) /\ \A i : over(i) \subseteq 1..Len(b)
  BY CountingProperties DEF Remains, Overriding
<1>4. R \subseteq Nat /\ IsFiniteSet(R) /\ c \in Nat
  <2>1. IsFiniteSet(1..Len(b))
    BY <1>2, FS_Interval
  <2>2. IsFiniteSet(R)
    BY <1>3, <2>1, FS_Subset
  <2>. QED BY <1>2, <1>3, <2>2, FS_CardinalityType
<1>5. \A n \in 1..c : Nth(R, n) \in R
  BY <1>4, NthProperties
<1> HIDE DEF R, over
<1>6. \A i \in 1..Len(a) : at(i) \in S
  <2> TAKE i \in 1..Len(a)
  <2>1. CASE over(i) = {}
    BY <1>2, <2>1
  <2>2. CASE over(i) # {}
    <3>1. (CHOOSE j \in over(i) : TRUE) \in over(i)
      BY <2>2
    <3>. QED BY <1>2, <1>3, <2>2, <3>1
  <2>. QED BY <2>1, <2>2
<1>7. f \in Seq(S) /\ Len(f) = Len(a) /\ \A i \in 1..Len(a) : f[i] = at(i)
  <2> HIDE DEF at
  <2>. QED BY <1>2, <1>6
<1>8. g \in Seq(S) /\ Len(g) = c /\ \A n \in 1..c : g[n] = b[Nth(R, n)]
  <2>1. \A n \in 1..c : b[Nth(R, n)] \in S
    BY <1>2, <1>3, <1>5
  <2> DEFINE t(n) == b[Nth(R, n)]
  <2> HIDE DEF t
  <2>2. \A n \in 1..c : t(n) \in S
    BY <2>1 DEF t
  <2>3. [n \in 1..c |-> t(n)] \in Seq(S) /\ Len([n \in 1..c |-> t(n)]) = c
    BY <1>4, <2>2
  <2>4. g = [n \in 1..c |-> t(n)]
    BY DEF t
  <2>. QED BY <2>3, <2>4 DEF t
<1> HIDE DEF f, g
<1>9. /\ f \o g \in Seq(S) /\ Len(f \o g) = Len(a) + c
      /\ \A i \in 1..Len(a) : (f \o g)[i] = f[i]
      /\ \A n \in 1..c : (f \o g)[Len(a) + n] = g[n]
  <2> HIDE DEF at, c
  <2>1. /\ f \o g \in Seq(S) /\ Len(f \o g) = Len(f) + Len(g)
        /\ \A i \in 1..Len(f) + Len(g) :
              (f \o g)[i] = IF i <= Len(f) THEN f[i] ELSE g[i - Len(f)]
    BY <1>7, <1>8, ConcatProperties
  <2>2. \A i \in 1..Len(a) : (f \o g)[i] = f[i]
    BY <1>2, <1>4, <1>7, <1>8, <2>1
  <2>3. ASSUME NEW n \in 1..c
        PROVE  (f \o g)[Len(a) + n] = g[n]
    <3>1. /\ Len(a) + n \in 1..Len(f) + Len(g)
          /\ ~(Len(a) + n <= Len(f)) /\ (Len(a) + n) - Len(f) = n
      BY <1>2, <1>4, <1>7, <1>8, <2>3
    <3>. QED BY <2>1, <3>1
  <2>. QED BY <1>7, <1>8, <2>1, <2>2, <2>3
<1>. QED BY <1>1, <1>4, <1>7, <1>8, <1>9 DEF R, over, Shape

Elements(s) == {s[i] : i \in 1..Len(s)}

\* What overriding means: the elements of b that count, and those of a with no key of
\* theirs.
Overridden(a, ka, b, kb) ==
    {b[j] : j \in Counting(b, kb)} \cup
    {a[i] : i \in {h \in 1..Len(a) : \A j \in Counting(b, kb) : kb[j] # ka[h]}}

\* The loops over the list of a container and over the positions that remain
\* (maintenencejob.go:503-575) are an override, if the list has no key twice: nothing
\* is lost, and nothing overridden survives.
THEOREM MergedIsOverride ==
    ASSUME NEW S, NEW a \in Seq(S), NEW b \in Seq(S), NEW ka, NEW kb,
           DOMAIN ka = DOMAIN a, \A i, h \in DOMAIN a : ka[i] = ka[h] => i = h
    PROVE  Elements(Merged(a, ka, b, kb)) = Overridden(a, ka, b, kb)
<1> DEFINE r == Merged(a, ka, b, kb)
           C == Counting(b, kb)
           R == Remains(ka, b, kb)
           over(i) == Overriding(ka, b, kb, i)
           c == Cardinality(R)
<1>1. /\ R \subseteq Nat /\ IsFiniteSet(R) /\ c \in Nat /\ Len(r) = Len(a) + c
      /\ \A i \in 1..Len(a) :
            r[i] = IF over(i) = {} THEN a[i] ELSE b[CHOOSE j \in over(i) : TRUE]
      /\ \A n \in 1..c : r[Len(a) + n] = b[Nth(R, n)]
  BY MergedShape DEF Shape
<1>2. Len(a) \in Nat /\ DOMAIN a = 1..Len(a)
  OBVIOUS
<1>3. /\ \A j, k \in C : kb[j] = kb[k] => j = k
      /\ R = {j \in C : \A i \in 1..Len(a) : ka[i] # kb[j]}
  BY <1>2, CountingProperties DEF Remains
<1>4. /\ \A n \in 1..c : Nth(R, n) \in R
      /\ \A j \in R : \E n \in 1..c : Nth(R, n) = j
  BY <1>1, NthProperties
<1>5. \A i \in 1..Len(a) : over(i) = {j \in C : kb[j] = ka[i]}
  <2> TAKE i \in 1..Len(a)
  <2>1. \A h \in 1..i - 1 : h \in DOMAIN a /\ h # i
    BY <1>2
  <2>2. \A h \in 1..i - 1 : ka[h] # ka[i]
    BY <1>2, <2>1
  <2>. QED BY <2>2 DEF Overriding
<1> HIDE DEF r, C, R, over, c
<1>6. ASSUME NEW i \in 1..Len(a), NEW j \in C, kb[j] = ka[i]
      PROVE  r[i] = b[j]
  <2>1. over(i) = {j}
    BY <1>3, <1>5, <1>6
  <2>. QED BY <1>1, <2>1
<1>7. ASSUME NEW i \in 1..Len(a), \A j \in C : kb[j] # ka[i]
      PROVE  r[i] = a[i]
  BY <1>1, <1>5, <1>7
<1>8. ASSUME NEW i \in 1..Len(r)
      PROVE  \/ \E j \in C : r[i] = b[j]
             \/ \E h \in 1..Len(a) : r[i] = a[h] /\ \A j \in C : kb[j] # ka[h]
  <2>1. CASE i \in 1..Len(a)
    BY <1>6, <1>7, <2>1
  <2>2. CASE i \notin 1..Len(a)
    <3>1. i - Len(a) \in 1..c /\ i = Len(a) + (i - Len(a))
      BY <1>1, <1>2, <2>2
    <3>2. PICK n \in 1..c : i = Len(a) + n
      BY <3>1
    <3>. QED BY <1>1, <1>3, <1>4, <3>2
  <2>. QED BY <2>1, <2>2
<1>9. ASSUME NEW j \in C
      PROVE  \E i \in 1..Len(r) : r[i] = b[j]
  <2>1. CASE \E i \in 1..Len(a) : ka[i] = kb[j]
    <3>1. PICK i \in 1..Len(a) : ka[i] = kb[j]
      BY <2>1
    <3>2. i \in 1..Len(r)
      BY <1>1, <1>2
    <3>. QED BY <1>6, <3>1, <3>2
  <2>2. CASE \A i \in 1..Len(a) : ka[i] # kb[j]
    <3>1. PICK n \in 1..c : Nth(R, n) = j
      BY <1>3, <1>4, <2>2
    <3>2. Len(a) + n \in 1..Len(r)
      BY <1>1, <1>2
    <3>. QED BY <1>1, <3>1, <3>2
  <2>. QED BY <2>1, <2>2
<1>10. ASSUME NEW h \in 1..Len(a), \A j \in C : kb[j] # ka[h]
       PROVE  h \in 1..Len(r) /\ r[h] = a[h]
  BY <1>1, <1>2, <1>7, <1>10
<1>11. {r[i] : i \in 1..Len(r)} =
          {b[j] : j \in C} \cup {a[i] : i \in {h \in 1..Len(a) : \A j \in C : kb[j] # ka[h]}}
  <2> DEFINE keeps == {h \in 1..Len(a) : \A j \in C : kb[j] # ka[h]}
             old == {a[i] : i \in keeps}
             new == {b[j] : j \in C}
  <2>1. ASSUME NEW i \in 1..Len(r)
        PROVE  r[i] \in new \cup old
    <3>1. CASE \E j \in C : r[i] = b[j]
      BY <3>1
    <3>2. CASE \E h \in 1..Len(a) : r[i] = a[h] /\ \A j \in C : kb[j] # ka[h]
      BY <3>2
    <3>. QED BY <1>8, <3>1, <3>2
  <2>2. ASSUME NEW x \in new
        PROVE  \E i \in 1..Len(r) : r[i] = x
    BY <1>9
  <2>3. ASSUME NEW x \in old
        PROVE  \E i \in 1..Len(r) : r[i] = x
    <3>1. PICK h \in keeps : x = a[h]
      OBVIOUS
    <3>. QED BY <1>10, <3>1
  <2> HIDE DEF new, old
  <2>4. {r[i] : i \in 1..Len(r)} = new \cup old
    BY <2>1, <2>2, <2>3
  <2>. QED BY <2>4 DEF new, old
<1>. QED BY <1>11 DEF r, C, Elements, Overridden

\* No name is in a list of variables twice.
Distinct(s) == \A i, h \in 1..Len(s) : s[i].name = s[h].name => i = h

\* Of the variables with a name the last one.
Lasts(b) == {j \in 1..Len(b) : \A h \in 1..Len(b) : b[h].name = b[j].name => h <= j}

\* The variables of a overridden by those of b.
OverriddenByName(a, b) ==
    {b[j] : j \in Lasts(b)} \cup
    {a[i] : i \in {h \in 1..Len(a) : \A j \in Lasts(b) : b[j].name # a[h].name}}

\* mergeEnv on the variables of a container whose names differ
\* (maintenencejob.go:503-533): those of the node take the place of the ones with their
\* name, and no name is there twice.
THEOREM MergeEnvOverrides ==
    ASSUME NEW S, NEW a \in Seq(S), NEW b \in Seq(S), Distinct(a)
    PROVE  /\ Elements(mergeEnv(a, b)) = OverriddenByName(a, b)
           /\ Distinct(mergeEnv(a, b))
<1>1. PICK ka, kb : /\ ka = [i \in DOMAIN a |-> <<a[i].name>>]
                    /\ kb = [j \in DOMAIN b |-> <<b[j].name>>]
  OBVIOUS
<1> DEFINE r == mergeEnv(a, b)
           D == Counting(b, kb)
           C == Lasts(b)
           R == Remains(ka, b, kb)
           over(i) == Overriding(ka, b, kb, i)
           c == Cardinality(R)
<1>2. r = Merged(a, ka, b, kb)
  BY <1>1 DEF mergeEnv
<1>3. /\ DOMAIN a = 1..Len(a) /\ Len(a) \in Nat
      /\ DOMAIN b = 1..Len(b) /\ Len(b) \in Nat
  OBVIOUS
<1>4. DOMAIN ka = DOMAIN a
  BY <1>1
<1>5. \A i \in 1..Len(a) : ka[i] = <<a[i].name>>
  BY <1>1, <1>3
<1>6. \A j \in 1..Len(b) : kb[j] = <<b[j].name>>
  BY <1>1, <1>3
<1>7. /\ \A i, h \in 1..Len(a) : ka[i] = ka[h] <=> a[i].name = a[h].name
      /\ \A j, h \in 1..Len(b) : kb[j] = kb[h] <=> b[j].name = b[h].name
      /\ \A i \in 1..Len(a), j \in 1..Len(b) : ka[i] = kb[j] <=> a[i].name = b[j].name
      /\ \A j \in 1..Len(b) : kb[j] # Nil
  <2>1. /\ \A x, y : <<x>> = <<y>> <=> x = y
        /\ \A x : <<x>> # Nil
    BY DEF Nil
  <2>2. ASSUME NEW i \in 1..Len(a), NEW h \in 1..Len(a)
        PROVE  ka[i] = ka[h] <=> a[i].name = a[h].name
    <3>1. ka[i] = <<a[i].name>> /\ ka[h] = <<a[h].name>>
      BY <1>5
    <3>. QED BY <2>1, <3>1
  <2>3. ASSUME NEW j \in 1..Len(b), NEW h \in 1..Len(b)
        PROVE  kb[j] = kb[h] <=> b[j].name = b[h].name
    <3>1. kb[j] = <<b[j].name>> /\ kb[h] = <<b[h].name>>
      BY <1>6
    <3>. QED BY <2>1, <3>1
  <2>4. ASSUME NEW i \in 1..Len(a), NEW j \in 1..Len(b)
        PROVE  ka[i] = kb[j] <=> a[i].name = b[j].name
    <3>1. ka[i] = <<a[i].name>> /\ kb[j] = <<b[j].name>>
      BY <1>5, <1>6
    <3>. QED BY <2>1, <3>1
  <2>5. ASSUME NEW j \in 1..Len(b)
        PROVE  kb[j] # Nil
    <3>1. kb[j] = <<b[j].name>>
      BY <1>6
    <3>. QED BY <2>1, <3>1
  <2>. QED BY <2>2, <2>3, <2>4, <2>5
<1>8. D = C
  BY <1>3, <1>7 DEF Counting, Lasts
<1>9. C \subseteq 1..Len(b)
  BY DEF Lasts
<1>10. \A i, h \in DOMAIN a : ka[i] = ka[h] => i = h
  BY <1>3, <1>7 DEF Distinct
<1>11. Elements(r) = {b[j] : j \in D} \cup {a[i] : i \in {h \in 1..Len(a) : \A j \in D : kb[j] # ka[h]}}
  <2>1. Elements(Merged(a, ka, b, kb)) = Overridden(a, ka, b, kb)
    BY <1>4, <1>10, MergedIsOverride
  <2>. QED BY <1>2, <2>1 DEF Overridden
<1>12. {h \in 1..Len(a) : \A j \in D : kb[j] # ka[h]} =
         {h \in 1..Len(a) : \A j \in C : b[j].name # a[h].name}
  <2>1. \A h \in 1..Len(a), j \in C : kb[j] # ka[h] <=> b[j].name # a[h].name
    BY <1>7, <1>9
  <2> HIDE DEF C, D
  <2>. QED BY <1>8, <2>1
<1>13. \A i, h \in 1..Len(r) : r[i].name = r[h].name => i = h
  <2>1. /\ R \subseteq Nat /\ IsFiniteSet(R) /\ c \in Nat /\ Len(r) = Len(a) + c
        /\ \A i \in 1..Len(a) :
              r[i] = IF over(i) = {} THEN a[i] ELSE b[CHOOSE j \in over(i) : TRUE]
        /\ \A n \in 1..c : r[Len(a) + n] = b[Nth(R, n)]
    <3>1. Shape(Merged(a, ka, b, kb), a, ka, b, kb)
      BY <1>4, MergedShape
    <3>2. Shape(r, a, ka, b, kb)
      BY <1>2, <3>1
    <3> HIDE DEF r
    <3>. QED BY <3>2 DEF Shape
  <2>2. R \subseteq D /\ \A j \in R : \A i \in 1..Len(a) : ka[i] # kb[j]
    BY <1>3, <1>4 DEF Remains
  <2>3. \A i : over(i) \subseteq D /\ \A j \in over(i) : kb[j] = ka[i]
    BY DEF Overriding
  <2>4. /\ \A n \in 1..c : Nth(R, n) \in R
        /\ \A n, p \in 1..c : Nth(R, n) = Nth(R, p) => n = p
    BY <2>1, NthProperties
  <2>5. C \subseteq 1..Len(b) /\ \A j, k \in C : b[j].name = b[k].name => j = k
    BY DEF Lasts
  <2> HIDE DEF r, D, R, over, c
  <2>6. ASSUME NEW i \in 1..Len(a)
        PROVE  r[i].name = a[i].name
    <3>1. CASE over(i) = {}
      BY <2>1, <3>1
    <3>2. CASE over(i) # {}
      <4>1. PICK j \in over(i) : j = CHOOSE k \in over(i) : TRUE
        BY <3>2
      <4>2. r[i] = b[j] /\ j \in 1..Len(b) /\ kb[j] = ka[i]
        BY <1>8, <1>9, <2>1, <2>3, <3>2, <4>1
      <4>. QED BY <1>7, <4>2
    <3>. QED BY <3>1, <3>2
  <2>7. \A n \in 1..c : Nth(R, n) \in C /\ \A i \in 1..Len(a) : a[i].name # b[Nth(R, n)].name
    <3> TAKE n \in 1..c
    <3>1. Nth(R, n) \in C /\ Nth(R, n) \in 1..Len(b) /\ \A i \in 1..Len(a) : ka[i] # kb[Nth(R, n)]
      BY <1>8, <1>9, <2>2, <2>4
    <3>. QED BY <1>7, <3>1
  <2>8. \A i \in 1..Len(r) : i \in 1..Len(a) \/ \E n \in 1..c : i = Len(a) + n
    <3> TAKE i \in 1..Len(r)
    <3>1. i \notin 1..Len(a) => i - Len(a) \in 1..c /\ i = Len(a) + (i - Len(a))
      BY <1>3, <2>1
    <3>. QED BY <3>1
  <2> TAKE i, h \in 1..Len(r)
  <2> HAVE r[i].name = r[h].name
  <2>9. CASE i \in 1..Len(a) /\ h \in 1..Len(a)
    BY <2>6, <2>9 DEF Distinct
  <2>10. CASE i \in 1..Len(a) /\ h \notin 1..Len(a)
    <3>1. PICK n \in 1..c : h = Len(a) + n
      BY <2>8, <2>10
    <3>2. r[i].name = a[i].name /\ r[h].name = b[Nth(R, n)].name
      BY <2>1, <2>6, <2>10, <3>1
    <3>. QED BY <2>7, <2>10, <3>2
  <2>11. CASE i \notin 1..Len(a) /\ h \in 1..Len(a)
    <3>1. PICK n \in 1..c : i = Len(a) + n
      BY <2>8, <2>11
    <3>2. r[h].name = a[h].name /\ r[i].name = b[Nth(R, n)].name
      BY <2>1, <2>6, <2>11, <3>1
    <3>. QED BY <2>7, <2>11, <3>2
  <2>12. CASE i \notin 1..Len(a) /\ h \notin 1..Len(a)
    <3>1. PICK n \in 1..c, p \in 1..c : i = Len(a) + n /\ h = Len(a) + p
      BY <2>8, <2>12
    <3>2. b[Nth(R, n)].name = b[Nth(R, p)].name
      BY <2>1, <3>1
    <3>. QED BY <2>4, <2>5, <2>7, <3>1, <3>2
  <2>. QED BY <2>9, <2>10, <2>11, <2>12
<1> HIDE DEF r, C, D
<1>14. Elements(r) =
          {b[j] : j \in C} \cup
          {a[i] : i \in {h \in 1..Len(a) : \A j \in C : b[j].name # a[h].name}}
  BY <1>8, <1>11, <1>12
<1>. QED BY <1>13, <1>14 DEF r, C, Distinct, OverriddenByName

\* generateMaintenanceJob (maintenencejob.go:441-480): a pod whose author did not choose
\* where it runs is bound to the node, and every container, unless it has a name twice,
\* gets the variables of the spec resolved for this node.
THEOREM StagesOfNode ==
    ASSUME NEW spec, NEW nodeName, NEW node, NEW defaultTimeout,
           spec.env \in Seq(Range(spec.env)),
           NEW s \in DOMAIN spec.stages, NEW i \in DOMAIN spec.stages[s].pod,
           NEW c \in DOMAIN spec.stages[s].pod[i].containers,
           NEW E, spec.stages[s].pod[i].containers[c].env \in Seq(E),
           Distinct(spec.stages[s].pod[i].containers[c].env)
    PROVE  LET pod == StagesOnNode(spec, nodeName, node, defaultTimeout)[s].pod[i]
               env == [j \in DOMAIN spec.env |-> EnvVarFromNode(node, spec.env[j])]
           IN  /\ ~Pinned(spec.stages[s].pod[i]) => pod.nodeName = <<nodeName>>
               /\ \A j \in Lasts(env) : env[j] \in Elements(pod.containers[c].env)
<1> DEFINE env == [j \in DOMAIN spec.env |-> EnvVarFromNode(node, spec.env[j])]
           old == spec.stages[s].pod[i]
           own == old.containers[c].env
           pod == StagesOnNode(spec, nodeName, node, defaultTimeout)[s].pod[i]
           T == E \cup Range(env)
<1>1. /\ pod.nodeName = IF Pinned(old) THEN old.nodeName ELSE <<nodeName>>
      /\ pod.containers[c].env = mergeEnv(own, env)
  BY DEF StagesOnNode, PodOnNode
<1>2. env \in Seq(T)
  <2>1. DOMAIN spec.env = 1..Len(spec.env) /\ Len(spec.env) \in Nat
    OBVIOUS
  <2>2. \A j \in DOMAIN env : env[j] \in T
    BY DEF Range
  <2> DEFINE t(j) == EnvVarFromNode(node, spec.env[j])
  <2>3. \A j \in 1..Len(spec.env) : t(j) \in T
    BY <2>1, <2>2
  <2> HIDE DEF t, T
  <2>4. [j \in 1..Len(spec.env) |-> t(j)] \in Seq(T)
    BY <2>1, <2>3
  <2>. QED BY <2>1, <2>4 DEF t
<1>3. own \in Seq(T)
  BY SeqMonotonic
<1> HIDE DEF env, own, T, pod
<1>4. Elements(mergeEnv(own, env)) = OverriddenByName(own, env)
  BY <1>2, <1>3, MergeEnvOverrides DEF own
<1>5. \A j \in Lasts(env) : env[j] \in OverriddenByName(own, env)
  BY DEF OverriddenByName
<1>. QED BY <1>1, <1>4, <1>5 DEF env, pod

-----------------------------------------------------------------------------
(* Which validated environments can be resolved. *)

\* An entry that validation lets through for its reference never ends the process when
\* a node is gone through: CreatePodEnvVarFromNodeSpecificEnv looks at the reference
\* that was validated, and finds it complete (types_maintenance.go:163-192,
\* maintenance.go:677-744).
THEOREM ValidatedReferenceResolves ==
    ASSUME NEW node, NEW e, ValidateEnvVar(e), e.value = Nil
    PROVE  EnvVarOutcome(node, e) \in {"ok", "error"}
<1>1. ValidateValueFrom(e)
  BY DEF ValidateEnvVar
<1>2. ASSUME NEW ref, ValidateNameAndValue(ref)
      PROVE  /\ ExtractNodeFieldPath(node, ref.name, ref.nameFrom) \in {"ok", "error"}
             /\ ExtractNodeFieldPath(node, ref.key, ref.keyFrom) \in {"ok", "error"}
  BY <1>2 DEF ValidateNameAndValue, ValidateName, ExtractNodeFieldPath
<1>3. CASE e.configMapKeyRef # Nil
  BY <1>1, <1>2, <1>3 DEF ValidateValueFrom, EnvVarOutcome
<1>4. CASE e.configMapKeyRef = Nil
  BY <1>1, <1>2, <1>4 DEF ValidateValueFrom, EnvVarOutcome
<1>. QED BY <1>3, <1>4

\* An entry with nothing but a plain value is let through as well ("if e.Value != \"\"",
\* types_maintenance.go:187), and ends the process whatever the node: the missing
\* reference is dereferenced (maintenance.go:692-698).
THEOREM PlainValuePanics ==
    ASSUME NEW node, NEW e, e.name # "", e.value # Nil,
           e.configMapKeyRef = Nil, e.secretKeyRef = Nil
    PROVE  ValidateEnvVar(e) /\ EnvVarOutcome(node, e) = "panic"
BY DEF ValidateEnvVar, EnvVarOutcome
=============================================================================
