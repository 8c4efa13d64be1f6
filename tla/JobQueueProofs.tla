--------------------------- MODULE JobQueueProofs ---------------------------
(***************************************************************************)
(* What the methods of the JobQueue preserve, for queues of any length     *)
(* over any set of keys: the type of the queue, and that the jobs pending  *)
(* on one key never contradict one another.                                *)
(***************************************************************************)
EXTENDS JobQueue, SequenceTheorems, TLAPS

\* The jobs on the keys of a set.
JobsOn(Keys) == [action : JobActions, key : Keys]

\* What cutting one element out of a sequence leaves.
LEMMA RemoveAtFacts ==
    ASSUME NEW S, NEW q \in Seq(S), NEW i \in DOMAIN q
    PROVE  /\ RemoveAt(q, i) \in Seq(S)
           /\ Len(RemoveAt(q, i)) = Len(q) - 1
           /\ \A k \in 1 .. Len(q) - 1 :
                 RemoveAt(q, i)[k] = IF k < i THEN q[k] ELSE q[k + 1]
<1> DEFINE before == SubSeq(q, 1, i - 1)
           after == SubSeq(q, i + 1, Len(q))
<1>1. i \in 1 .. Len(q) /\ Len(q) \in Nat
    OBVIOUS
<1>2. /\ before \in Seq(S) /\ Len(before) = i - 1
      /\ \A k \in 1 .. i - 1 : before[k] = q[k]
    <2>1. \A k \in 1 .. i - 1 : q[k] \in S
        BY <1>1
    <2> QED
        BY <1>1, <2>1, SubSeqProperties
<1>3. /\ after \in Seq(S) /\ Len(after) = Len(q) - i
      /\ \A k \in 1 .. Len(q) - i : after[k] = q[i + k]
    <2>1. \A k \in i + 1 .. Len(q) : q[k] \in S
        BY <1>1
    <2>2. /\ after \in Seq(S)
          /\ Len(after) = IF i + 1 <= Len(q) THEN Len(q) - (i + 1) + 1 ELSE 0
          /\ \A k \in 1 .. Len(q) - (i + 1) + 1 : after[k] = q[i + 1 + k - 1]
        BY <1>1, <2>1, SubSeqProperties
    <2> QED
        BY <1>1, <2>2
<1>4. RemoveAt(q, i) = before \o after
    BY DEF RemoveAt
<1> HIDE DEF before, after
<1>5. /\ before \o after \in Seq(S)
      /\ Len(before \o after) = Len(q) - 1
    BY <1>1, <1>2, <1>3, ConcatProperties
<1>6. ASSUME NEW k \in 1 .. Len(q) - 1
      PROVE  (before \o after)[k] = IF k < i THEN q[k] ELSE q[k + 1]
    <2>1. (before \o after)[k] = IF k <= Len(before) THEN before[k]
                                                    ELSE after[k - Len(before)]
        BY <1>1, <1>2, <1>3, <1>6, ConcatProperties
    <2>2. CASE k < i
        BY <1>1, <1>2, <1>6, <2>1, <2>2
    <2>3. CASE ~(k < i)
        <3>1. k - (i - 1) \in 1 .. Len(q) - i
            BY <1>1, <1>6, <2>3
        <3>2. after[k - (i - 1)] = q[i + (k - (i - 1))]
            BY <1>3, <3>1
        <3> QED
            BY <1>1, <1>2, <1>6, <2>1, <2>3, <3>2
    <2> QED
        BY <2>2, <2>3
<1> QED
    BY <1>4, <1>5, <1>6

\* delete yields a queue of jobs.
LEMMA WithoutType ==
    ASSUME NEW Keys, NEW q \in Seq(JobsOn(Keys)), NEW a, NEW k
    PROVE  Without(q, a, k) \in Seq(JobsOn(Keys))
BY RemoveAtFacts DEF Without, Has

\* Offer yields a queue of jobs.
LEMMA OfferType ==
    ASSUME NEW Keys, NEW q \in Seq(JobsOn(Keys)), NEW j \in JobsOn(Keys)
    PROVE  Offer(q, j) \in Seq(JobsOn(Keys))
<1>1. Without(q, "Add", j.key) \in Seq(JobsOn(Keys))
    BY WithoutType
<1>2. Append(Without(q, "Update", j.key), j) \in Seq(JobsOn(Keys))
    BY WithoutType
<1>3. Append(q, j) \in Seq(JobsOn(Keys))
    OBVIOUS
<1> QED
    BY <1>1, <1>2, <1>3 DEF Offer

-----------------------------------------------------------------------------
\* An element of a queue is the job of its action and key.
LEMMA ElementIsJob ==
    ASSUME NEW Keys, NEW q \in Seq(JobsOn(Keys)), NEW i \in DOMAIN q
    PROVE  q[i] \in JobsOn(Keys) /\ q[i] = Job(q[i].action, q[i].key)
<1>1. q[i] \in JobsOn(Keys)
    OBVIOUS
<1> QED
    BY <1>1 DEF JobsOn, Job

\* The jobs a queue holds after delete.
LEMMA WithoutFacts ==
    ASSUME NEW Keys, NEW q \in Seq(JobsOn(Keys)), NEW a, NEW k, Unique(q)
    PROVE  /\ Unique(Without(q, a, k))
           /\ \A i \in DOMAIN Without(q, a, k) :
                 /\ Without(q, a, k)[i] # Job(a, k)
                 /\ \E l \in DOMAIN q : Without(q, a, k)[i] = q[l]
<1>1. CASE ~Has(q, a, k)
    BY <1>1 DEF Without, Has
<1>2. CASE Has(q, a, k)
    <2>1. PICK i \in DOMAIN q : /\ q[i] = Job(a, k)
                                /\ Without(q, a, k) = RemoveAt(q, i)
        BY <1>2 DEF Has, Without
    <2>2. /\ RemoveAt(q, i) \in Seq(JobsOn(Keys))
          /\ Len(RemoveAt(q, i)) = Len(q) - 1
          /\ \A n \in 1 .. Len(q) - 1 :
                RemoveAt(q, i)[n] = IF n < i THEN q[n] ELSE q[n + 1]
        BY RemoveAtFacts
    <2>3. DOMAIN RemoveAt(q, i) = 1 .. Len(q) - 1 /\ DOMAIN q = 1 .. Len(q)
          /\ Len(q) \in Nat
        BY <2>2
    <2> DEFINE w == Without(q, a, k)
    <2>4. /\ DOMAIN w = 1 .. Len(q) - 1
          /\ \A n \in DOMAIN w : w[n] = IF n < i THEN q[n] ELSE q[n + 1]
        BY <2>1, <2>2, <2>3
    <2> HIDE DEF w
    <2>5. ASSUME NEW n \in DOMAIN w
          PROVE  \E l \in DOMAIN q : l # i /\ w[n] = q[l]
        BY <2>1, <2>3, <2>4, <2>5
    <2>6. \A n \in DOMAIN w : w[n] # Job(a, k)
        BY <2>1, <2>5 DEF Unique
    <2>7. Unique(w)
        BY <2>1, <2>3, <2>4 DEF Unique
    <2> QED
        BY <2>5, <2>6, <2>7 DEF w
<1> QED
    BY <1>1, <1>2

\* The jobs a queue holds after a job is appended.
LEMMA AppendFacts ==
    ASSUME NEW Keys, NEW q \in Seq(JobsOn(Keys)), NEW j \in JobsOn(Keys)
    PROVE  /\ DOMAIN Append(q, j) = 1 .. Len(q) + 1
           /\ DOMAIN q = 1 .. Len(q) /\ Len(q) \in Nat
           /\ \A i \in DOMAIN q : Append(q, j)[i] = q[i]
           /\ Append(q, j)[Len(q) + 1] = j
OBVIOUS

\* delete keeps the queue free of duplicates and contradictions.
LEMMA WithoutConsistent ==
    ASSUME NEW Keys, NEW q \in Seq(JobsOn(Keys)), NEW a, NEW k,
           Unique(q), Compatible(q)
    PROVE  Unique(Without(q, a, k)) /\ Compatible(Without(q, a, k))
<1> DEFINE w == Without(q, a, k)
<1>1. Unique(w) /\ \A i \in DOMAIN w : \E l \in DOMAIN q : w[i] = q[l]
    BY WithoutFacts
<1> HIDE DEF w
<1>2. Compatible(w)
    BY <1>1 DEF Compatible
<1> QED
    BY <1>1, <1>2 DEF w

\* Appending a job that is not pending, and contradicts none that is.
LEMMA AppendConsistent ==
    ASSUME NEW Keys, NEW q \in Seq(JobsOn(Keys)), NEW j \in JobsOn(Keys),
           Unique(q), Compatible(q),
           \A i \in DOMAIN q :
              /\ q[i] # j
              /\ q[i].key = j.key =>
                    /\ j.action = "Update" => q[i].action \notin {"Add", "Delete"}
                    /\ q[i].action = "Update" => j.action \notin {"Add", "Delete"}
    PROVE  Unique(Append(q, j)) /\ Compatible(Append(q, j))
<1> DEFINE p == Append(q, j)
<1>1. /\ DOMAIN p = 1 .. Len(q) + 1
      /\ DOMAIN q = 1 .. Len(q) /\ Len(q) \in Nat
      /\ \A i \in DOMAIN q : p[i] = q[i]
      /\ p[Len(q) + 1] = j
    BY AppendFacts
<1> HIDE DEF p
<1>2. ASSUME NEW i \in DOMAIN p
      PROVE  (i \in DOMAIN q /\ p[i] = q[i]) \/ (i = Len(q) + 1 /\ p[i] = j)
    BY <1>1, <1>2
<1>3. Unique(p)
    BY <1>1, <1>2 DEF Unique
<1>4. Compatible(p)
    BY <1>1, <1>2 DEF Compatible
<1> QED
    BY <1>3, <1>4 DEF p

\* Offer keeps the queue free of duplicates and contradictions, whatever the
\* offered job: the conflict rules of the code's switch are complete.
THEOREM OfferConsistent ==
    ASSUME NEW Keys, NEW q \in Seq(JobsOn(Keys)), NEW j \in JobsOn(Keys),
           Unique(q), Compatible(q)
    PROVE  Unique(Offer(q, j)) /\ Compatible(Offer(q, j))
<1>1. CASE Refused(q, j)
    BY <1>1 DEF Offer
<1>2. CASE ~Refused(q, j) /\ j.action = "Delete" /\ Has(q, "Add", j.key)
    BY <1>2, WithoutConsistent DEF Offer
<1>3. CASE ~Refused(q, j) /\ j.action = "Delete" /\ ~Has(q, "Add", j.key)
    <2> DEFINE w == Without(q, "Update", j.key)
    <2>1. w \in Seq(JobsOn(Keys))
        BY WithoutType
    <2>2. Unique(w) /\ Compatible(w)
        BY WithoutConsistent
    <2>3. \A i \in DOMAIN w : /\ w[i] # Job("Update", j.key)
                              /\ \E l \in DOMAIN q : w[i] = q[l]
        BY WithoutFacts
    <2>4. Offer(q, j) = Append(w, j)
        BY <1>3 DEF Offer
    <2>5. ASSUME NEW l \in DOMAIN q
          PROVE  q[l] # j /\ q[l] = Job(q[l].action, q[l].key)
        <3>1. q[l] = Job(q[l].action, q[l].key) /\ j = Job(j.action, j.key)
            BY ElementIsJob DEF JobsOn, Job
        <3> QED
            BY <1>3, <2>5, <3>1 DEF Refused, Has
    <2> HIDE DEF w
    <2>6. ASSUME NEW i \in DOMAIN w
          PROVE  /\ w[i] # j
                 /\ w[i].key = j.key => w[i].action # "Update"
        BY <2>3, <2>5, <2>6 DEF Job, JobsOn
    <2> QED
        BY <1>3, <2>1, <2>2, <2>4, <2>6, AppendConsistent
<1>4. CASE ~Refused(q, j) /\ j.action # "Delete"
    <2>1. Offer(q, j) = Append(q, j)
        BY <1>4 DEF Offer
    <2>2. ASSUME NEW i \in DOMAIN q
          PROVE  /\ q[i] # j
                 /\ q[i].key = j.key =>
                       /\ j.action = "Update" => q[i].action \notin {"Add", "Delete"}
                       /\ q[i].action = "Update" => j.action # "Add"
        <3>1. q[i] = Job(q[i].action, q[i].key) /\ j = Job(j.action, j.key)
            BY ElementIsJob DEF JobsOn, Job
        <3> QED
            BY <1>4, <2>2, <3>1 DEF Refused, Has
    <2> QED
        BY <1>4, <2>1, <2>2, AppendConsistent
<1> QED
    BY <1>1, <1>2, <1>3, <1>4

\* Acquire takes the first job and leaves the others as they were.
LEMMA TailConsistent ==
    ASSUME NEW Keys, NEW q \in Seq(JobsOn(Keys)), q # << >>,
           Unique(q), Compatible(q)
    PROVE  Unique(Tail(q)) /\ Compatible(Tail(q))
<1> DEFINE p == Tail(q)
<1>1. /\ Len(q) \in Nat /\ DOMAIN q = 1 .. Len(q)
      /\ DOMAIN p = 1 .. Len(q) - 1
      /\ \A i \in DOMAIN p : p[i] = q[i + 1]
    OBVIOUS
<1> HIDE DEF p
<1>2. \A i \in DOMAIN p : i \in Nat /\ i + 1 \in DOMAIN q /\ p[i] = q[i + 1]
    BY <1>1
<1>3. Unique(p)
    BY <1>2 DEF Unique
<1>4. Compatible(p)
    BY <1>2 DEF Compatible
<1> QED
    BY <1>3, <1>4 DEF p
=============================================================================
