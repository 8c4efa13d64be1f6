------------------------------ MODULE JobQueue ------------------------------
(***************************************************************************)
(* The JobQueue of arhat.dev/pkg/queue: the work queue of one reconciler.  *)
(* A job is an action on the key of an object.  The queue never holds the  *)
(* same job twice, and Offer refuses, replaces or cancels jobs of the same *)
(* key that conflict with the offered one.                                 *)
(*                                                                         *)
(* A queue is a sequence of jobs.  The index of the code (a map from job   *)
(* to its position) is the predicate Has; every method holds the mutex     *)
(* from its first to its last line, so each is one operator here.          *)
(***************************************************************************)
EXTENDS Naturals, SequencesExt

\* The actions of a job (ActionInvalid is never stored: Offer refuses it).
JobActions == {"Add", "Update", "Delete", "Cleanup"}

Job(action, key) == [action |-> action, key |-> key]

Has(q, action, key) == \E i \in DOMAIN q : q[i] = Job(action, key)

\* delete: cut the job out of the slice at its index, if it is there.
Without(q, action, key) ==
    IF Has(q, action, key)
    THEN RemoveAt(q, CHOOSE i \in DOMAIN q : q[i] = Job(action, key))
    ELSE q

\* Find: is any job of this key pending?
HasAny(q, key) == \E action \in JobActions : Has(q, action, key)

\* A faulty variant of the next definition, used by no specification: jobs that
\* a pending one makes pointless are taken.
WrongRefused(q, j) == Has(q, j.action, j.key)

\* An offered job that the queue does not take: a duplicate, or a job that a
\* pending one of the same key makes pointless.
Refused(q, j) ==
    \/ Has(q, j.action, j.key)
    \/ j.action = "Add" /\ Has(q, "Update", j.key)
    \/ j.action = "Update" /\ (Has(q, "Add", j.key) \/ Has(q, "Delete", j.key))

\* The queue after Offer(j).  A Delete that meets a pending Add cancels the Add
\* and is dropped itself (ErrJobCounteract); one that meets an Update replaces it.
Offer(q, j) ==
    IF Refused(q, j) THEN q
    ELSE IF j.action # "Delete" THEN Append(q, j)
    ELSE IF Has(q, "Add", j.key) THEN Without(q, "Add", j.key)
    ELSE Append(Without(q, "Update", j.key), j)

\* No job is pending twice: the index of the code, from job to position, is one.
Unique(q) == \A i, k \in DOMAIN q : q[i] = q[k] => i = k

\* The jobs pending on one key make sense together: an object is not updated
\* before it is added or while it is to be deleted.  (A new Add may follow a
\* Delete: the object was created again.)
Compatible(q) ==
    \A i, k \in DOMAIN q :
        q[i].key = q[k].key /\ q[i].action = "Update" => q[k].action \notin {"Add", "Delete"}
=============================================================================
